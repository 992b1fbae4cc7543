------------------------------ MODULE CsvProofs ------------------------------
(***************************************************************************)
(* Proofs about CsvService: for every list of problems, every answer that  *)
(* Zabbix may give and every size of the buffer, what is on display is the *)
(* beginning of what is to be shown, and the more urgent goes first.       *)
(***************************************************************************)
EXTENDS CsvService, FiniteSetTheorems, FunctionTheorems, SequenceTheorems,
        WellFoundedInduction, TLAPS

Problem == [eventid : Nat, objectid : Nat, clock : Nat, suppressed : {0, 1}]
Host == [hostid : Nat \ {0}, status : {0, 1}]
Trigger == [status : {0, 1}, hosts : Seq(Host)]

TypeOK ==
  /\ step \in {"problem.get", "event.get", "trigger.get", "output", "reply", "shown"}
  /\ disaster_triggers \in Seq(Problem)
  /\ \A i, j \in DOMAIN disaster_triggers :
       disaster_triggers[i].eventid = disaster_triggers[j].eventid => i = j
  /\ DOMAIN trigger_info \subseteq {p.objectid : p \in Range(disaster_triggers)}
  /\ \A t \in DOMAIN trigger_info : trigger_info[t] \in Triggers
  /\ step \in {"problem.get", "event.get", "trigger.get"} => DOMAIN trigger_info = {}
  /\ failed \in BOOLEAN /\ closed \in BOOLEAN /\ halted \in BOOLEAN

------------------------------------------------------------------------------
(* Numbers and finite sets *)

LEMMA LeastNumber ==
  ASSUME NEW S \in SUBSET Nat, S # {}
  PROVE  \E m \in S : \A n \in S : m <= n
<1> DEFINE Less == {ss \in Nat \X Nat : ss[1] < ss[2]}
<1>1. Less = OpToRel(<, Nat)
  BY Zenon DEF OpToRel
<1>2. IsWellFoundedOn(Less, Nat)
  BY <1>1, NatLessThanWellFounded, Zenon
<1>3. \E m \in S : \A n \in S : ~(<<n, m>> \in Less)
  <2> HIDE DEF Less
  <2>1. S \subseteq Nat /\ S # {}
    OBVIOUS
  <2> QED
    BY <1>2, <2>1, WFMin, Zenon
<1>4. ASSUME NEW m \in S, NEW n \in S, ~(<<n, m>> \in Less) PROVE m <= n
  BY <1>4
<1> HIDE DEF Less
<1> QED
  BY <1>3, <1>4

\* The values of a function on a finite set.
LEMMA ImageFinite ==
  ASSUME NEW S, NEW f, f = [x \in S |-> f[x]], IsFiniteSet(S)
  PROVE  IsFiniteSet({f[x] : x \in S})
<1>1. f \in Surjection(S, {f[x] : x \in S})
  <2>1. f \in [S -> {f[x] : x \in S}]
    OBVIOUS
  <2> QED
    BY <2>1, Fun_IsSurj
<1> QED
  BY <1>1, FS_Surjection

LEMMA FunctionIsSeq ==
  ASSUME NEW S, NEW n \in Nat, NEW f \in [1 .. n -> S]
  PROVE  f \in Seq(S) /\ Len(f) = n /\ DOMAIN f = 1 .. n
<1>1. f \in Seq(S) /\ DOMAIN f = 1 .. n
  BY SeqDef
<1> QED
  BY <1>1, LenProperties

LEMMA PlacesSize ==
  ASSUME NEW m \in Nat, NEW n \in Nat, m <= n
  PROVE  IsFiniteSet(m + 1 .. n) /\ Cardinality(m + 1 .. n) = n - m
<1>1. m + 1 \in Int /\ n \in Int
  OBVIOUS
<1>2. /\ IsFiniteSet(m + 1 .. n)
      /\ Cardinality(m + 1 .. n) = IF m + 1 > n THEN 0 ELSE n - (m + 1) + 1
  BY <1>1, FS_Interval
<1> QED
  BY <1>2

\* A sequence has finitely many places.
LEMMA PlacesFinite ==
  ASSUME NEW S, NEW s \in Seq(S)
  PROVE  IsFiniteSet(DOMAIN s)
BY LenProperties, FS_Interval

------------------------------------------------------------------------------
(* The join *)

LEMMA TriggerType ==
  ASSUME TypeOK, NEW t \in DOMAIN trigger_info
  PROVE  /\ trigger_info[t] \in Trigger
         /\ \A i, j \in DOMAIN HostsOf(t) :
              HostsOf(t)[i].hostid = HostsOf(t)[j].hostid => i = j
BY CsvAssumption DEF TypeOK, CsvAssumption, Trigger, Host, HostsOf

LEMMA JoinedFacts ==
  ASSUME TypeOK, NEW x \in Joined
  PROVE  /\ x = <<x[1], x[2], x[3]>>
         /\ x[1] \in DOMAIN trigger_info /\ trigger_info[x[1]].status = 0
         /\ x[2] \in DOMAIN HostsOf(x[1]) /\ HostsOf(x[1])[x[2]] \in Host
         /\ HostsOf(x[1])[x[2]].status = 0
         /\ x[3] \in DOMAIN disaster_triggers /\ disaster_triggers[x[3]] \in Problem
         /\ disaster_triggers[x[3]].objectid = x[1]
<1>1. PICK t \in DOMAIN trigger_info :
        Enabled(t) /\ x \in {t} \X EnabledHosts(t) \X ProblemsOf(t)
  BY DEF Joined
<1>2. x = <<x[1], x[2], x[3]>> /\ x[1] = t /\ x[2] \in EnabledHosts(t) /\ x[3] \in ProblemsOf(t)
  BY <1>1
<1>3. trigger_info[t] \in Trigger
  BY TriggerType
<1>4. trigger_info[t].status = 0
  BY <1>1, <1>3 DEF Enabled, Trigger
<1>5. HostsOf(t) \in Seq(Host)
  BY <1>3 DEF HostsOf, Trigger
<1>6. x[2] \in DOMAIN HostsOf(t) /\ HostsOf(t)[x[2]].status # 1
  BY <1>2 DEF EnabledHosts
<1>7. HostsOf(t)[x[2]] \in Host
  BY <1>5, <1>6, LenProperties, ElementOfSeq
<1>8. x[3] \in DOMAIN disaster_triggers /\ disaster_triggers[x[3]].objectid = t
  BY <1>2 DEF ProblemsOf
<1>9. disaster_triggers[x[3]] \in Problem
  BY <1>8, LenProperties, ElementOfSeq DEF TypeOK
<1> QED
  BY <1>2, <1>4, <1>6, <1>7, <1>8, <1>9 DEF Host

LEMMA JoinedIs ==
  ASSUME TypeOK, NEW t \in DOMAIN trigger_info, trigger_info[t].status = 0,
         NEW i \in DOMAIN HostsOf(t), HostsOf(t)[i].status = 0,
         NEW j \in DOMAIN disaster_triggers, disaster_triggers[j].objectid = t
  PROVE  <<t, i, j>> \in Joined
<1>1. <<t, i, j>> \in {t} \X EnabledHosts(t) \X ProblemsOf(t)
  BY DEF EnabledHosts, ProblemsOf
<1>2. t \in {u \in DOMAIN trigger_info : Enabled(u)}
  BY DEF Enabled
<1> QED
  BY <1>1, <1>2 DEF Joined

LEMMA JoinedFinite ==
  ASSUME TypeOK
  PROVE  IsFiniteSet(Joined) /\ Cardinality(Joined) \in Nat
<1> DEFINE T == {u \in DOMAIN trigger_info : Enabled(u)}
           Of(t) == {t} \X EnabledHosts(t) \X ProblemsOf(t)
<1>1. IsFiniteSet(DOMAIN disaster_triggers)
  BY PlacesFinite DEF TypeOK
<1>2. IsFiniteSet(T)
  <2> DEFINE f == [j \in DOMAIN disaster_triggers |-> disaster_triggers[j].objectid]
             Ids == {f[j] : j \in DOMAIN disaster_triggers}
  <2>1. IsFiniteSet(Ids)
    <3>1. f = [j \in DOMAIN disaster_triggers |-> f[j]]
      OBVIOUS
    <3> HIDE DEF f
    <3> QED
      BY <1>1, <3>1, ImageFinite
  <2>2. T \subseteq Ids
    BY DEF TypeOK, Range
  <2> QED
    BY <2>1, <2>2, FS_Subset
<1>3. ASSUME NEW t \in T PROVE IsFiniteSet(Of(t))
  <2>1. IsFiniteSet(EnabledHosts(t))
    <3>1. HostsOf(t) \in Seq(Host)
      BY TriggerType DEF HostsOf, Trigger
    <3> QED
      BY <3>1, PlacesFinite, FS_Subset DEF EnabledHosts
  <2>2. IsFiniteSet(ProblemsOf(t))
    BY <1>1, FS_Subset DEF ProblemsOf
  <2> DEFINE Pairs == EnabledHosts(t) \X ProblemsOf(t)
             f == [z \in Pairs |-> <<t, z[1], z[2]>>]
  <2>3. IsFiniteSet({f[z] : z \in Pairs})
    <3>1. IsFiniteSet(Pairs) /\ f = [z \in Pairs |-> f[z]]
      BY <2>1, <2>2, FS_Product
    <3> HIDE DEF f, Of, Pairs
    <3> QED
      BY <3>1, ImageFinite
  <2>4. ASSUME NEW x \in Of(t) PROVE x \in {f[z] : z \in Pairs}
    <3>1. <<x[2], x[3]>> \in Pairs /\ x = f[<<x[2], x[3]>>]
      OBVIOUS
    <3> QED
      BY <3>1
  <2> QED
    BY <2>3, <2>4, FS_Subset
<1> DEFINE g == [t \in T |-> Of(t)]
<1>4. IsFiniteSet({g[t] : t \in T})
  <2>1. g = [t \in T |-> g[t]]
    OBVIOUS
  <2> HIDE DEF g, T, Of
  <2> QED
    BY <1>2, <2>1, ImageFinite
<1>5. IsFiniteSet(UNION {g[t] : t \in T})
  <2>1. \A X \in {g[t] : t \in T} : IsFiniteSet(X)
    BY <1>3
  <2> HIDE DEF g
  <2> QED
    BY <1>4, <2>1, FS_UNION
<1>6. {g[t] : t \in T} = {Of(t) : t \in T}
  OBVIOUS
<1>7. Joined = UNION {g[t] : t \in T}
  BY <1>6, Zenon DEF Joined
<1> QED
  BY <1>5, <1>7, FS_CardinalityType

------------------------------------------------------------------------------
(* The rows and their order *)

MakeRow(clock, is, hostid) == <<clock, 5, is, hostid, Word, Word>>
Rows == {MakeRow(c, s, h) : c \in Nat, s \in {0, 1}, h \in Nat \ {0}}

LEMMA RowsFacts ==
  ASSUME NEW r \in Rows
  PROVE  /\ r = MakeRow(r[1], r[3], r[4])
         /\ r[1] \in Nat /\ r[2] = 5 /\ r[3] \in {0, 1} /\ r[4] \in Nat \ {0}
         /\ r \in Seq(Int) /\ Len(r) = 6
<1>1. PICK c \in Nat, s \in {0, 1}, h \in Nat \ {0} : r = MakeRow(c, s, h)
  BY DEF Rows
<1> QED
  BY <1>1 DEF MakeRow, Word

LEMMA RowOfFacts ==
  ASSUME TypeOK, NEW x \in Joined
  PROVE  /\ RowOf(x) \in Rows
         /\ RowOf(x) = MakeRow(disaster_triggers[x[3]].clock, suppressed(disaster_triggers[x[3]]),
                              HostsOf(x[1])[x[2]].hostid)
<1>1. disaster_triggers[x[3]].clock \in Nat /\ HostsOf(x[1])[x[2]].hostid \in Nat \ {0}
  BY JoinedFacts DEF Problem, Host
<1>2. suppressed(disaster_triggers[x[3]]) \in {0, 1}
  BY DEF suppressed
<1>3. RowOf(x) = MakeRow(disaster_triggers[x[3]].clock, suppressed(disaster_triggers[x[3]]),
                         HostsOf(x[1])[x[2]].hostid)
  BY DEF RowOf, MakeRow
<1> QED
  BY <1>1, <1>2, <1>3 DEF Rows

\* Before is a strict order, and total: rows that it does not order are the same.
LEMMA BeforeIsOrder ==
  ASSUME NEW r \in Rows, NEW q \in Rows
  PROVE  /\ ~(Before(r, q) /\ Before(q, r))
         /\ Before(r, q) \/ Before(q, r) \/ r = q
         /\ ~Before(r, r)
BY RowsFacts DEF Before

LEMMA BeforeIsTransitive ==
  ASSUME NEW r \in Rows, NEW q \in Rows, NEW p \in Rows, Before(r, q), Before(q, p)
  PROVE  Before(r, p)
BY RowsFacts DEF Before

\* The places of a row.
Equals(row) == {x \in Joined : RowOf(x) = row}
LEMMA PlacesFacts ==
  ASSUME TypeOK, NEW r \in Rows
  PROVE  /\ Under(r) \in Nat /\ UpTo(r) \in Nat /\ Under(r) <= UpTo(r)
         /\ UpTo(r) <= Cardinality(Joined)
         /\ Cardinality(Equals(r)) = UpTo(r) - Under(r)
<1> DEFINE U == {x \in Joined : Before(RowOf(x), r)}
           V == {x \in Joined : ~Before(r, RowOf(x))}
<1>1. IsFiniteSet(Joined)
  BY JoinedFinite
<1>2. U \subseteq V
  BY BeforeIsOrder, RowOfFacts
<1>3. Equals(r) = V \ U
  BY BeforeIsOrder, RowOfFacts DEF Equals
<1>4. V \cap U = U
  BY <1>2
<1>5. V \subseteq Joined
  OBVIOUS
<1> HIDE DEF U, V
<1>6. IsFiniteSet(V) /\ Cardinality(V) <= Cardinality(Joined)
  BY <1>1, <1>5, FS_Subset
<1>7. IsFiniteSet(U) /\ Cardinality(U) <= Cardinality(V)
  BY <1>2, <1>6, FS_Subset
<1>8. Cardinality(V \ U) = Cardinality(V) - Cardinality(U)
  BY <1>4, <1>6, FS_Difference
<1>9. Cardinality(U) \in Nat /\ Cardinality(V) \in Nat
  BY <1>6, <1>7, FS_CardinalityType
<1>10. Under(r) = Cardinality(U) /\ UpTo(r) = Cardinality(V)
  BY DEF Under, UpTo, U, V
<1> QED
  BY <1>3, <1>6, <1>7, <1>8, <1>9, <1>10

LEMMA PlacesApart ==
  ASSUME TypeOK, NEW r \in Rows, NEW q \in Rows, Before(r, q)
  PROVE  UpTo(r) <= Under(q)
<1> DEFINE V == {x \in Joined : ~Before(r, RowOf(x))}
           U == {x \in Joined : Before(RowOf(x), q)}
<1>1. ASSUME NEW x \in V PROVE x \in U
  <2>1. RowOf(x) \in Rows
    BY RowOfFacts
  <2>2. RowOf(x) = r \/ Before(RowOf(x), r)
    BY <2>1, BeforeIsOrder
  <2>3. Before(RowOf(x), q)
    BY <2>1, <2>2, BeforeIsTransitive
  <2> QED
    BY <2>3
<1>2. V \subseteq U /\ U \subseteq Joined
  BY <1>1
<1> HIDE DEF U, V
<1>3. IsFiniteSet(U)
  BY <1>2, JoinedFinite, FS_Subset
<1>4. Cardinality(V) <= Cardinality(U)
  BY <1>2, <1>3, FS_Subset
<1> QED
  BY <1>4 DEF UpTo, Under, U, V

\* A row that something makes has a place.
LEMMA HasPlace ==
  ASSUME TypeOK, NEW x \in Joined
  PROVE  Under(RowOf(x)) < UpTo(RowOf(x))
<1>1. RowOf(x) \in Rows
  BY RowOfFacts
<1>2. IsFiniteSet(Equals(RowOf(x))) /\ Equals(RowOf(x)) # {}
  BY JoinedFinite, FS_Subset DEF Equals
<1>3. Cardinality(Equals(RowOf(x))) \in Nat \ {0}
  BY <1>2, FS_EmptySet, FS_CardinalityType
<1> QED
  BY <1>1, <1>3, PlacesFacts

LEMMA FirstOf ==
  ASSUME TypeOK, NEW S \in SUBSET Joined, S # {}
  PROVE  \E x \in S : \A y \in S : ~Before(RowOf(y), RowOf(x))
<1> DEFINE N == {Under(RowOf(x)) : x \in S}
<1>1. \A x \in S : RowOf(x) \in Rows
  BY RowOfFacts
<1>2. N \in SUBSET Nat /\ N # {}
  BY <1>1, PlacesFacts
<1>3. PICK m \in N : \A n \in N : m <= n
  BY <1>2, LeastNumber
<1>4. PICK x \in S : m = Under(RowOf(x))
  OBVIOUS
<1>5. ASSUME NEW y \in S, Before(RowOf(y), RowOf(x)) PROVE FALSE
  <2>1. UpTo(RowOf(y)) <= Under(RowOf(x))
    BY <1>1, <1>5, PlacesApart
  <2>2. Under(RowOf(y)) < UpTo(RowOf(y))
    BY HasPlace
  <2>3. Under(RowOf(x)) <= Under(RowOf(y))
    BY <1>3, <1>4
  <2>4. Under(RowOf(x)) \in Nat /\ Under(RowOf(y)) \in Nat /\ UpTo(RowOf(y)) \in Nat
    BY <1>1, PlacesFacts
  <2> QED
    BY <2>1, <2>2, <2>3, <2>4
<1> QED
  BY <1>5

LEMMA LastOf ==
  ASSUME TypeOK, NEW S \in SUBSET Joined, S # {}
  PROVE  \E x \in S : \A y \in S : ~Before(RowOf(x), RowOf(y))
<1> DEFINE n == Cardinality(Joined)
           N == {n - UpTo(RowOf(x)) : x \in S}
<1>1. \A x \in S : RowOf(x) \in Rows
  BY RowOfFacts
<1>2. n \in Nat
  BY JoinedFinite
<1>3. \A x \in S : UpTo(RowOf(x)) \in Nat /\ UpTo(RowOf(x)) <= n
  BY <1>1, PlacesFacts
<1>4. N \in SUBSET Nat /\ N # {}
  BY <1>2, <1>3
<1>5. PICK m \in N : \A k \in N : m <= k
  BY <1>4, LeastNumber
<1>6. PICK x \in S : m = n - UpTo(RowOf(x))
  OBVIOUS
<1>7. ASSUME NEW y \in S, Before(RowOf(x), RowOf(y)) PROVE FALSE
  <2>1. UpTo(RowOf(x)) <= Under(RowOf(y))
    BY <1>1, <1>7, PlacesApart
  <2>2. Under(RowOf(y)) < UpTo(RowOf(y))
    BY HasPlace
  <2>3. n - UpTo(RowOf(x)) <= n - UpTo(RowOf(y))
    BY <1>5, <1>6
  <2>4. Under(RowOf(y)) \in Nat
    BY <1>1, PlacesFacts
  <2> QED
    BY <1>2, <1>3, <2>1, <2>2, <2>3, <2>4
<1> QED
  BY <1>7

\* Every place has a row.
LEMMA PlaceHasRow ==
  ASSUME TypeOK, NEW k \in 1 .. Cardinality(Joined)
  PROVE  \E x \in Joined : Under(RowOf(x)) < k /\ k <= UpTo(RowOf(x))
<1> DEFINE n == Cardinality(Joined)
           T == {x \in Joined : k <= UpTo(RowOf(x))}
<1>1. IsFiniteSet(Joined) /\ n \in Nat
  BY JoinedFinite
<1>2. \A x \in Joined : RowOf(x) \in Rows
  BY RowOfFacts
<1>3. \A x \in Joined : Under(RowOf(x)) \in Nat /\ UpTo(RowOf(x)) \in Nat
  BY <1>2, PlacesFacts
<1>4. Joined # {}
  BY <1>1, FS_EmptySet
<1>5. PICK last \in Joined : \A y \in Joined : ~Before(RowOf(last), RowOf(y))
  BY <1>4, LastOf
<1>6. UpTo(RowOf(last)) = n
  <2>1. {x \in Joined : ~Before(RowOf(last), RowOf(x))} = Joined
    BY <1>5
  <2> QED
    BY <2>1 DEF UpTo
<1>7. last \in T
  BY <1>1, <1>6
<1>8. PICK x \in T : \A y \in T : ~Before(RowOf(y), RowOf(x))
  BY <1>7, FirstOf
<1>9. ASSUME Under(RowOf(x)) >= k PROVE FALSE
  <2> DEFINE S == {y \in Joined : Before(RowOf(y), RowOf(x))}
  <2>1. IsFiniteSet(S) /\ Cardinality(S) = Under(RowOf(x))
    BY <1>1, FS_Subset DEF Under
  <2>2. S # {}
    BY <1>1, <1>3, <1>9, <2>1, FS_EmptySet
  <2>3. PICK y \in S : \A z \in S : ~Before(RowOf(y), RowOf(z))
    BY <2>2, LastOf
  <2>4. S \subseteq {z \in Joined : ~Before(RowOf(y), RowOf(z))}
    BY <2>3
  <2>5. Cardinality(S) <= UpTo(RowOf(y))
    BY <1>1, <2>4, FS_Subset DEF UpTo
  <2>6. y \in T
    BY <1>1, <1>3, <1>9, <2>1, <2>5
  <2> QED
    BY <1>8, <2>6
<1> QED
  BY <1>1, <1>3, <1>9

\* The rows in their order.
LEMMA SortedFacts ==
  ASSUME TypeOK, NEW k \in 1 .. Cardinality(Joined)
  PROVE  /\ Sorted[k] \in Rows
         /\ \E x \in Joined : RowOf(x) = Sorted[k]
         /\ Under(Sorted[k]) < k /\ k <= UpTo(Sorted[k])
<1> DEFINE All == {RowOf(x) : x \in Joined}
           Fits(row) == Under(row) < k /\ k <= UpTo(row)
<1>1. \E row \in All : Fits(row)
  BY PlaceHasRow
<1>2. Sorted[k] = CHOOSE row \in All : Fits(row)
  BY DEF Sorted
<1> HIDE DEF Fits, All
<1>3. Sorted[k] \in All /\ Fits(Sorted[k])
  BY <1>1, <1>2
<1> QED
  BY <1>3, RowOfFacts DEF All, Fits

\* A row is at its places, and only there.
LEMMA SortedPlaces ==
  ASSUME TypeOK, NEW r \in Rows, NEW k \in 1 .. Cardinality(Joined)
  PROVE  Sorted[k] = r <=> k \in Under(r) + 1 .. UpTo(r)
<1>1. Sorted[k] \in Rows /\ Under(Sorted[k]) < k /\ k <= UpTo(Sorted[k])
  BY SortedFacts
<1>2. Cardinality(Joined) \in Nat
  BY JoinedFinite
<1>3. /\ Under(r) \in Nat /\ UpTo(r) \in Nat
      /\ Under(Sorted[k]) \in Nat /\ UpTo(Sorted[k]) \in Nat
  BY <1>1, PlacesFacts
<1>4. ASSUME k \in Under(r) + 1 .. UpTo(r), Sorted[k] # r PROVE FALSE
  <2>1. CASE Before(r, Sorted[k])
    BY <1>1, <1>2, <1>3, <1>4, <2>1, PlacesApart
  <2>2. CASE Before(Sorted[k], r)
    BY <1>1, <1>2, <1>3, <1>4, <2>2, PlacesApart
  <2> QED
    BY <1>1, <1>4, <2>1, <2>2, BeforeIsOrder
<1> QED
  BY <1>1, <1>2, <1>3, <1>4

------------------------------------------------------------------------------
(* What is to be shown *)

\* Each problem and host that is due makes one row.
Source(x) == <<disaster_triggers[x[3]], HostsOf(x[1])[x[2]]>>
LEMMA SourceFacts ==
  ASSUME TypeOK, NEW x \in Joined
  PROVE  /\ Source(x) \in Listed
         /\ AlertOf(Source(x)) = from_csv(RowOf(x))
<1> DEFINE p == disaster_triggers[x[3]]
           h == HostsOf(x[1])[x[2]]
<1>1. p \in Range(disaster_triggers) /\ p.objectid = x[1]
  BY JoinedFacts DEF Range
<1>2. h \in Range(HostsOf(x[1])) /\ h.status = 0
  BY JoinedFacts DEF Range
<1>3. x[1] \in DOMAIN trigger_info /\ trigger_info[x[1]].status = 0
  BY JoinedFacts
<1>4. h \in UNION {Range(t.hosts) : t \in Range(trigger_info)}
  BY <1>2, <1>3 DEF HostsOf, Range
<1>5. <<p, h>> \in Listed
  BY <1>1, <1>2, <1>3, <1>4 DEF Listed, HostsOf
<1>6. RowOf(x) = MakeRow(p.clock, suppressed(p), h.hostid)
  BY RowOfFacts
<1>7. from_csv(RowOf(x)) = [clock |-> p.clock, suppressed |-> suppressed(p), hostid |-> h.hostid]
  BY <1>6 DEF from_csv, MakeRow
<1>8. AlertOf(<<p, h>>) = [clock |-> p.clock, suppressed |-> suppressed(p), hostid |-> h.hostid]
  BY DEF AlertOf, suppressed
<1> QED
  BY <1>5, <1>7, <1>8 DEF Source

LEMMA SourceIsInjective ==
  ASSUME TypeOK, NEW x \in Joined, NEW y \in Joined, Source(x) = Source(y)
  PROVE  x = y
<1>1. disaster_triggers[x[3]] = disaster_triggers[y[3]] /\ HostsOf(x[1])[x[2]] = HostsOf(y[1])[y[2]]
  BY DEF Source
<1>2. x[3] = y[3]
  BY <1>1, JoinedFacts DEF TypeOK
<1>3. x[1] = y[1]
  BY <1>2, JoinedFacts
<1>4. x[2] = y[2]
  BY <1>1, <1>3, JoinedFacts, TriggerType
<1> QED
  BY <1>2, <1>3, <1>4, JoinedFacts

LEMMA ListedHasSource ==
  ASSUME TypeOK, NEW z \in Listed
  PROVE  \E x \in Joined : Source(x) = z
<1>1. /\ z = <<z[1], z[2]>>
      /\ z[1] \in Range(disaster_triggers)
      /\ z[1].objectid \in DOMAIN trigger_info /\ trigger_info[z[1].objectid].status = 0
      /\ z[2] \in Range(HostsOf(z[1].objectid)) /\ z[2].status = 0
  BY DEF Listed, HostsOf
<1>2. PICK j \in DOMAIN disaster_triggers : disaster_triggers[j] = z[1]
  BY <1>1 DEF Range
<1>3. PICK i \in DOMAIN HostsOf(z[1].objectid) : HostsOf(z[1].objectid)[i] = z[2]
  BY <1>1 DEF Range
<1>4. <<z[1].objectid, i, j>> \in Joined
  BY <1>1, <1>2, <1>3, JoinedIs
<1>5. Source(<<z[1].objectid, i, j>>) = z
  BY <1>1, <1>2, <1>3 DEF Source
<1> QED
  BY <1>4, <1>5

\* A set of rows' makers is as large as that of what they make.
LEMMA AsMany ==
  ASSUME TypeOK, NEW S \in SUBSET Joined, NEW T \in SUBSET Listed,
         \A x \in Joined : x \in S <=> Source(x) \in T
  PROVE  IsFiniteSet(T) /\ Cardinality(T) = Cardinality(S)
<1> DEFINE f == [x \in S |-> Source(x)]
<1>1. IsFiniteSet(S)
  BY JoinedFinite, FS_Subset
<1>2. f \in [S -> T]
  OBVIOUS
<1>3. \A x, y \in S : f[x] = f[y] => x = y
  BY SourceIsInjective
<1>4. \A z \in T : \E x \in S : f[x] = z
  BY ListedHasSource
<1> HIDE DEF f
<1>5. f \in Bijection(S, T)
  BY <1>2, <1>3, <1>4, Fun_IsBij
<1> QED
  BY <1>1, <1>5, FS_Bijection, Fun_ExistsBij

LEMMA ListedSize ==
  ASSUME TypeOK
  PROVE  Cardinality(Listed) = Cardinality(Joined) /\ (Listed = {} <=> Joined = {})
<1>1. Cardinality(Listed) = Cardinality(Joined)
  BY SourceFacts, AsMany
<1>2. Listed = {} <=> Joined = {}
  BY SourceFacts, ListedHasSource
<1> QED
  BY <1>1, <1>2

\* The row of an alert.
RowFor(a) == MakeRow(a.clock, a.suppressed, a.hostid)
LEMMA RowForFacts ==
  ASSUME NEW r \in Rows
  PROVE  /\ RowFor(from_csv(r)) = r /\ from_csv(r) # NoData
         /\ from_csv(r) = [clock |-> r[1], suppressed |-> r[3], hostid |-> r[4]]
<1>1. from_csv(r) = [clock |-> r[1], suppressed |-> r[3], hostid |-> r[4]]
  BY RowsFacts DEF from_csv
<1>2. from_csv(r).hostid # NoData.hostid
  BY <1>1, RowsFacts DEF NoData
<1> QED
  BY <1>1, <1>2, RowsFacts DEF RowFor

LEMMA DueIsEquals ==
  ASSUME TypeOK, NEW r \in Rows
  PROVE  Due(from_csv(r)) = UpTo(r) - Under(r)
<1> DEFINE a == from_csv(r)
           T == {z \in Listed : AlertOf(z) = a}
<1>1. ASSUME NEW x \in Joined PROVE x \in Equals(r) <=> Source(x) \in T
  <2>1. RowOf(x) \in Rows
    BY RowOfFacts
  <2>2. from_csv(RowOf(x)) = from_csv(r) <=> RowOf(x) = r
    BY <2>1, RowForFacts
  <2> QED
    BY <2>2, SourceFacts DEF Equals
<1>2. Equals(r) \in SUBSET Joined /\ T \in SUBSET Listed
  BY DEF Equals
<1> HIDE DEF T
<1>3. Cardinality(T) = Cardinality(Equals(r))
  BY <1>1, <1>2, AsMany
<1> QED
  BY <1>3, PlacesFacts DEF Due, T

------------------------------------------------------------------------------
(* The reply, and what is read of it *)

Reply == IF Joined = {} THEN <<>> ELSE <<header>> \o Sorted
ErrorRow(m) == <<2, 1>> \o [i \in 1 .. m + 1 |-> Word] \o <<Word, Word>>
IsError(out) == \E m \in Messages : out = <<Tail(header), ErrorRow(m)>>

AlertsOf(rows) == [i \in DOMAIN rows |-> from_csv(rows[i])]
ThrowsAt(rows) == \E row \in Range(rows) : Throws(row)

\* What main.cpp may have got of the reply.
Got(held) == IF closed THEN Early(held) ELSE Received(held)

ReplyInv ==
  /\ step \in {"reply", "shown"} => IF failed THEN IsError(csv_output) ELSE csv_output = Reply
  /\ (step \notin {"reply", "shown"} => ~failed) /\ (step # "shown" => ~halted)
  /\ step = "shown" =>
       \E held \in Held : \E response \in Got(held) :
         IF ThrowsAt(RowsRead(response)) THEN halted
         ELSE ~halted /\ alerts = AlertsOf(RowsRead(response))

CsvInv == TypeOK /\ ReplyInv

LEMMA ReplyFacts ==
  ASSUME TypeOK, Joined # {}
  PROVE  /\ Reply \in Seq(Seq(Int)) /\ Len(Reply) = Cardinality(Joined) + 1
         /\ \A i \in 1 .. Cardinality(Joined) : Reply[i + 1] = Sorted[i]
         /\ Len(Reply) > 1
<1> DEFINE n == Cardinality(Joined)
<1>1. n \in Nat /\ n # 0
  BY JoinedFinite, FS_EmptySet
<1>2. \A i \in 1 .. n : Sorted[i] \in Seq(Int)
  BY SortedFacts, RowsFacts
<1>3. DOMAIN Sorted = 1 .. n /\ Sorted = [i \in 1 .. n |-> Sorted[i]]
  BY DEF Sorted
<1>4. Sorted \in [1 .. n -> Seq(Int)]
  BY <1>2, <1>3
<1>5. Sorted \in Seq(Seq(Int))
  BY <1>1, <1>4, SeqDef
<1>6. Len(Sorted) = n
  BY <1>1, <1>3, <1>5, LenProperties
<1>7. <<header>> \in Seq(Seq(Int)) /\ Len(<<header>>) = 1
  BY DEF header, Word
<1>8. Reply = <<header>> \o Sorted
  BY DEF Reply
<1>9. Reply \in Seq(Seq(Int)) /\ Len(Reply) = 1 + n
  BY <1>5, <1>6, <1>7, <1>8, ConcatProperties
<1>10. ASSUME NEW i \in 1 .. n PROVE Reply[i + 1] = Sorted[i]
  <2>1. i + 1 \in 1 .. 1 + n /\ ~(i + 1 <= 1) /\ (i + 1) - 1 = i
    BY <1>1
  <2> QED
    BY <1>5, <1>6, <1>7, <1>8, <2>1, ConcatProperties
<1> QED
  BY <1>1, <1>9, <1>10

\* What is left of a reply with rows that ends in one of them.
LEMMA CutFacts ==
  ASSUME TypeOK, Joined # {}, csv_output = Reply, NEW n \in Nat, n < Len(Reply),
         NEW response \in {SubSeq(csv_output, 1, n)} \cup CutIn(n)
  PROVE  /\ response \in Seq(Seq(Int))
         /\ Len(response) = n \/ Len(response) = n + 1
         /\ \A i \in 1 .. Len(response) :
              \/ response[i] = Reply[i]
              \/ i = Len(response) /\ i = n + 1 /\ Len(response[i]) # 6
<1> DEFINE L == Len(Reply)
           cut == SubSeq(Reply, 1, n)
           row == Reply[n + 1]
<1>2. Reply \in Seq(Seq(Int)) /\ L \in Nat /\ L > 1
  BY ReplyFacts, LenProperties
<1>3. /\ cut \in Seq(Seq(Int)) /\ Len(cut) = n
      /\ \A i \in 1 .. n : cut[i] = Reply[i]
  <2>1. \A i \in 1 .. n : Reply[i] \in Seq(Int)
    BY <1>2, ElementOfSeq
  <2> QED
    BY <2>1, SubSeqProperties
<1>4. row \in Seq(Int) /\ Len(row) = 6
  <2>1. CASE n = 0
    <3>1. row = header
      BY <2>1 DEF Reply, header
    <3> QED
      BY <3>1 DEF header, Word
  <2>2. CASE n # 0
    <3>1. n \in 1 .. Cardinality(Joined)
      BY <2>2, ReplyFacts, JoinedFinite
    <3>2. row = Sorted[n]
      BY <3>1, ReplyFacts
    <3> QED
      BY <3>1, <3>2, SortedFacts, RowsFacts
  <2> QED
    BY <2>1, <2>2
<1>5. ASSUME NEW fields \in 1 .. Len(row), response = Append(cut, SubSeq(row, 1, fields))
      PROVE  /\ response \in Seq(Seq(Int)) /\ Len(response) = n + 1
             /\ \A i \in 1 .. n : response[i] = Reply[i]
             /\ response[n + 1] = Reply[n + 1] \/ Len(response[n + 1]) # 6
  <2> DEFINE part == SubSeq(row, 1, fields)
  <2>4. \A i \in 1 .. fields : row[i] \in Int
    BY <1>4, ElementOfSeq
  <2>5. fields \in 1 .. 6
    BY <1>4
  <2>6. part \in Seq(Int) /\ Len(part) = fields
    BY <2>4, <2>5, SubSeqProperties
  <2>7. fields = 6 => part = row
    BY <1>4, SubSeqFull
  <2>8. response = Append(cut, part)
    BY <1>5
  <2> HIDE DEF cut, part
  <2>9. response \in Seq(Seq(Int)) /\ Len(response) = n + 1 /\ response[n + 1] = part
    BY <1>3, <2>6, <2>8, AppendProperties
  <2>10. \A i \in 1 .. n : response[i] = Reply[i]
    BY <1>3, <2>6, <2>8, AppendProperties
  <2> QED
    BY <2>5, <2>6, <2>7, <2>9, <2>10
<1>6. \A i \in 1 .. n + 1 : i \in 1 .. n \/ i = n + 1
  OBVIOUS
<1>7. response = cut \/ \E fields \in 1 .. Len(row) : response = Append(cut, SubSeq(row, 1, fields))
  BY DEF CutIn
<1> HIDE DEF cut, row
<1>8. CASE response = cut
  BY <1>3, <1>8
<1>9. CASE \E fields \in 1 .. Len(row) : response = Append(cut, SubSeq(row, 1, fields))
  BY <1>5, <1>6, <1>9
<1> QED
  BY <1>7, <1>8, <1>9

\* What is received of a reply with rows.
LEMMA ReceivedFacts ==
  ASSUME TypeOK, Joined # {}, csv_output = Reply, ~failed,
         NEW held \in Held, NEW response \in Received(held)
  PROVE  /\ response \in Seq(Seq(Int))
         /\ Len(response) <= Len(Reply) /\ Len(response) > 1
         /\ Len(response) >= held \/ Len(response) = Len(Reply)
         /\ \A i \in 1 .. Len(response) :
              \/ response[i] = Reply[i]
              \/ i = Len(response) /\ i = held + 1 /\ Len(response[i]) # 6
<1>1. held \in Nat /\ held > 1
  BY CsvAssumption DEF CsvAssumption
<1>2. Reply \in Seq(Seq(Int)) /\ Len(Reply) \in Nat /\ Len(Reply) > 1
  BY ReplyFacts, LenProperties
<1>3. CASE response = Reply
  BY <1>2, <1>3
<1>4. CASE held < Len(Reply) /\ response \in {SubSeq(csv_output, 1, held)} \cup CutIn(held)
  <2>1. /\ response \in Seq(Seq(Int))
        /\ Len(response) = held \/ Len(response) = held + 1
        /\ \A i \in 1 .. Len(response) :
             \/ response[i] = Reply[i]
             \/ i = Len(response) /\ i = held + 1 /\ Len(response[i]) # 6
    BY <1>1, <1>4, CutFacts
  <2> QED
    BY <1>1, <1>2, <1>4, <2>1
<1>5. Len(Reply) <= held \/ held < Len(Reply)
  BY <1>1, <1>2
<1> QED
  BY <1>3, <1>4, <1>5 DEF Received

\* What is left of it when the connection ends early.
LEMMA EarlyFacts ==
  ASSUME TypeOK, csv_output = Reply, NEW held \in Held, NEW response \in Early(held)
  PROVE  /\ Joined # {}
         /\ response \in Seq(Seq(Int)) /\ Len(response) <= Len(Reply)
         /\ \A i \in 1 .. Len(response) :
              response[i] = Reply[i] \/ (i = Len(response) /\ Len(response[i]) # 6)
<1>1. held \in Nat
  BY CsvAssumption DEF CsvAssumption
<1>2. PICK n \in 0 .. Least(held, Len(Reply) - 1) :
        response \in {SubSeq(csv_output, 1, n)} \cup CutIn(n)
  BY DEF Early
<1>3. Joined # {}
  <2> SUFFICES ASSUME Joined = {} PROVE FALSE
    OBVIOUS
  <2>1. Reply = <<>>
    BY DEF Reply
  <2>2. Len(Reply) = 0
    BY <2>1
  <2> QED
    BY <1>1, <1>2, <2>2 DEF Least
<1>4. Len(Reply) \in Nat
  BY <1>3, ReplyFacts, LenProperties
<1>5. n \in Nat /\ n < Len(Reply)
  BY <1>1, <1>2, <1>4 DEF Least
<1>6. /\ response \in Seq(Seq(Int))
      /\ Len(response) = n \/ Len(response) = n + 1
      /\ \A i \in 1 .. Len(response) :
           \/ response[i] = Reply[i]
           \/ i = Len(response) /\ i = n + 1 /\ Len(response[i]) # 6
  BY <1>2, <1>3, <1>5, CutFacts
<1> QED
  BY <1>3, <1>4, <1>5, <1>6

LEMMA RowsReadFacts ==
  ASSUME NEW response \in Seq(Seq(Int))
  PROVE  /\ RowsRead(response) \in Seq(Seq(Int))
         /\ Len(RowsRead(response)) =
              IF Len(response) = 0 THEN 0
              ELSE IF Len(response) <= MaxRows + 1 THEN Len(response) - 1 ELSE MaxRows
         /\ \A i \in 1 .. Len(RowsRead(response)) : RowsRead(response)[i] = response[i + 1]
<1> DEFINE n == Len(response)
           m == Least(n, MaxRows + 1)
<1>1. n \in Nat /\ MaxRows \in Nat \ {0}
  BY LenProperties, CsvAssumption DEF CsvAssumption
<1>2. m \in Nat /\ m = IF n <= MaxRows + 1 THEN n ELSE MaxRows + 1
  BY <1>1 DEF Least
<1>3. \A i \in 2 .. m : response[i] \in Seq(Int)
  BY <1>1, <1>2, ElementOfSeq
<1>4. RowsRead(response) = SubSeq(response, 2, m)
  BY DEF RowsRead
<1> HIDE DEF m
<1>5. /\ SubSeq(response, 2, m) \in Seq(Seq(Int))
      /\ Len(SubSeq(response, 2, m)) = IF 2 <= m THEN m - 2 + 1 ELSE 0
      /\ \A i \in 1 .. m - 2 + 1 : SubSeq(response, 2, m)[i] = response[2 + i - 1]
  BY <1>2, <1>3, SubSeqProperties
<1>6. Len(RowsRead(response)) =
        IF n = 0 THEN 0 ELSE IF n <= MaxRows + 1 THEN n - 1 ELSE MaxRows
  BY <1>1, <1>2, <1>4, <1>5
<1>7. ASSUME NEW i \in 1 .. Len(RowsRead(response))
      PROVE  RowsRead(response)[i] = response[i + 1]
  <2>1. i \in 1 .. m - 2 + 1 /\ 2 + i - 1 = i + 1
    BY <1>2, <1>4, <1>5
  <2> QED
    BY <1>4, <1>5, <2>1
<1> QED
  BY <1>4, <1>5, <1>6, <1>7

LEMMA NumberRead ==
  ASSUME NEW n \in Nat, NEW held \in Nat, held > 1, NEW most \in Nat \ {0}, NEW received \in Nat,
         received <= n + 1, received > 1, received >= held \/ received = n + 1,
         NEW read, read = IF received <= most + 1 THEN received - 1 ELSE most
  PROVE  /\ read \in Nat /\ read <= n /\ read # 0
         /\ read >= Least(n, Least(most, held - 1))
BY DEF Least

\* Of a reply with what Zabbix answered, what is read is its first rows, but for one
\* that is cut.
LEMMA ReadRows ==
  ASSUME TypeOK, Joined # {}, NEW response \in Seq(Seq(Int)), Len(response) <= Len(Reply),
         \A i \in 1 .. Len(response) :
           response[i] = Reply[i] \/ (i = Len(response) /\ Len(response[i]) # 6)
  PROVE  LET rows == RowsRead(response)
             n == Cardinality(Joined)
         IN /\ rows \in Seq(Seq(Int)) /\ n \in Nat /\ Len(rows) \in Nat /\ Len(rows) <= n
            /\ \A i \in 1 .. Len(rows) :
                 \/ rows[i] = Sorted[i]
                 \/ i = Len(rows) /\ i + 1 = Len(response) /\ rows[i] = response[i + 1]
                    /\ Len(rows[i]) # 6
<1> DEFINE rows == RowsRead(response)
           n == Cardinality(Joined)
<1>1. n \in Nat /\ Len(Reply) = n + 1 /\ \A i \in 1 .. n : Reply[i + 1] = Sorted[i]
  BY JoinedFinite, ReplyFacts
<1>2. Len(response) \in Nat /\ MaxRows \in Nat \ {0}
  BY LenProperties, CsvAssumption DEF CsvAssumption
<1>3. /\ rows \in Seq(Seq(Int))
      /\ Len(rows) = IF Len(response) = 0 THEN 0
                     ELSE IF Len(response) <= MaxRows + 1 THEN Len(response) - 1 ELSE MaxRows
      /\ \A i \in 1 .. Len(rows) : rows[i] = response[i + 1]
  BY RowsReadFacts
<1> HIDE DEF rows, n
<1>4. Len(rows) \in Nat /\ Len(rows) <= n /\ \A i \in 1 .. Len(rows) : i + 1 \in 1 .. Len(response)
  BY <1>1, <1>2, <1>3
<1>5. ASSUME NEW i \in 1 .. Len(rows), rows[i] # Sorted[i]
      PROVE  i = Len(rows) /\ i + 1 = Len(response) /\ Len(rows[i]) # 6
  <2>1. i \in 1 .. n /\ i + 1 \in 1 .. Len(response)
    BY <1>1, <1>4
  <2>2. Reply[i + 1] = Sorted[i] /\ rows[i] = response[i + 1]
    BY <1>1, <1>3, <2>1
  <2>3. i + 1 = Len(response) /\ Len(response[i + 1]) # 6
    BY <1>5, <2>1, <2>2
  <2>4. i = Len(rows)
    BY <1>2, <1>3, <1>4, <2>3
  <2> QED
    BY <2>2, <2>3, <2>4
<1> QED
  BY <1>1, <1>3, <1>4, <1>5 DEF rows, n

LEMMA ReadFacts ==
  ASSUME TypeOK, csv_output = Reply, ~failed, NEW held \in Held, NEW response \in Got(held)
  PROVE  LET rows == RowsRead(response)
             n == Cardinality(Joined)
         IN /\ rows \in Seq(Seq(Int)) /\ n \in Nat /\ Len(rows) \in Nat /\ Len(rows) <= n
            /\ \A i \in 1 .. Len(rows) :
                 rows[i] = Sorted[i] \/ (i = Len(rows) /\ Len(rows[i]) # 6)
            /\ ~closed =>
                 /\ Len(rows) = 0 => n = 0
                 /\ Len(rows) >= Least(n, Least(MaxRows, held - 1))
                 /\ \A i \in 1 .. Len(rows) : rows[i] = Sorted[i] \/ i = held
<1> DEFINE rows == RowsRead(response)
           n == Cardinality(Joined)
<1>1. n \in Nat /\ (n = 0 <=> Joined = {})
  BY JoinedFinite, FS_EmptySet
<1>2. held \in Nat /\ held > 1 /\ MaxRows \in Nat \ {0}
  BY CsvAssumption DEF CsvAssumption
<1>3. CASE Joined = {}
  <2>1. csv_output = <<>> /\ Len(<<>>) = 0 /\ <<>> \in Seq(Seq(Int))
    BY <1>3, EmptySeq DEF Reply
  <2>2. response = <<>>
    BY <1>2, <1>3, <2>1, EarlyFacts DEF Received, Got
  <2>3. rows \in Seq(Seq(Int)) /\ Len(rows) = 0
    BY <2>1, <2>2, RowsReadFacts
  <2> QED
    BY <1>1, <1>2, <1>3, <2>3 DEF Least
<1>4. CASE Joined # {} /\ closed
  <2>1. response \in Early(held)
    BY <1>4 DEF Got
  <2>2. /\ response \in Seq(Seq(Int)) /\ Len(response) <= Len(Reply)
        /\ \A i \in 1 .. Len(response) :
             response[i] = Reply[i] \/ (i = Len(response) /\ Len(response[i]) # 6)
    BY <2>1, EarlyFacts
  <2> QED
    BY <1>4, <2>2, ReadRows
<1>5. CASE Joined # {} /\ ~closed
  <2>1. /\ response \in Seq(Seq(Int))
        /\ Len(response) <= Len(Reply) /\ Len(response) > 1
        /\ Len(response) >= held \/ Len(response) = Len(Reply)
        /\ \A i \in 1 .. Len(response) :
             \/ response[i] = Reply[i]
             \/ i = Len(response) /\ i = held + 1 /\ Len(response[i]) # 6
    BY <1>5, ReceivedFacts DEF Got
  <2>2. Len(Reply) = n + 1
    BY <1>5, ReplyFacts
  <2>3. /\ rows \in Seq(Seq(Int)) /\ Len(rows) \in Nat /\ Len(rows) <= n
        /\ \A i \in 1 .. Len(rows) :
             \/ rows[i] = Sorted[i]
             \/ i = Len(rows) /\ i + 1 = Len(response) /\ rows[i] = response[i + 1]
                /\ Len(rows[i]) # 6
    BY <1>5, <2>1, ReadRows
  <2>4. Len(response) \in Nat
    BY <2>1, LenProperties
  <2>5. Len(rows) = IF Len(response) <= MaxRows + 1 THEN Len(response) - 1 ELSE MaxRows
    <3>1. Len(rows) = IF Len(response) = 0 THEN 0
                      ELSE IF Len(response) <= MaxRows + 1 THEN Len(response) - 1 ELSE MaxRows
      BY <2>1, RowsReadFacts
    <3>2. Len(response) # 0
      BY <2>1, <2>4
    <3> QED
      BY <3>1, <3>2
  <2> HIDE DEF rows, n
  <2>6. Len(rows) # 0 /\ Len(rows) >= Least(n, Least(MaxRows, held - 1))
    <3>1. /\ Len(response) <= n + 1 /\ Len(response) > 1
          /\ Len(response) >= held \/ Len(response) = n + 1
      BY <2>1, <2>2
    <3> QED
      BY <1>1, <1>2, <2>4, <2>5, <3>1, NumberRead
  <2>7. ASSUME NEW i \in 1 .. Len(rows), rows[i] # Sorted[i] PROVE i = held
    <3>1. /\ i = Len(rows) /\ i + 1 = Len(response) /\ rows[i] = response[i + 1]
          /\ Len(rows[i]) # 6
      BY <2>3, <2>7
    <3>2. i \in 1 .. n /\ i + 1 \in 1 .. Len(response)
      BY <1>1, <2>3, <2>4, <3>1
    <3>3. Reply[i + 1] = Sorted[i]
      BY <1>5, <3>2, ReplyFacts DEF n
    <3>4. i + 1 = held + 1
      BY <2>1, <2>7, <3>1, <3>2, <3>3
    <3> QED
      BY <1>2, <3>2, <3>4
  <2> QED
    BY <1>1, <2>3, <2>6, <2>7 DEF rows, n
<1> QED
  BY <1>3, <1>4, <1>5

\* No row that is sorted stops the reading, and no part of one does.
LEMMA ReadingGoesOn ==
  ASSUME TypeOK, csv_output = Reply, ~failed, NEW held \in Held, NEW response \in Got(held)
  PROVE  ~ThrowsAt(RowsRead(response))
<1> DEFINE rows == RowsRead(response)
<1>1. /\ rows \in Seq(Seq(Int)) /\ Cardinality(Joined) \in Nat
      /\ Len(rows) \in Nat /\ Len(rows) <= Cardinality(Joined)
      /\ \A i \in 1 .. Len(rows) : rows[i] = Sorted[i] \/ Len(rows[i]) # 6
  BY ReadFacts
<1> HIDE DEF rows
<1>2. ASSUME NEW i \in 1 .. Len(rows) PROVE ~Throws(rows[i])
  <2>1. CASE Len(rows[i]) # 6
    BY <2>1 DEF Throws
  <2>2. CASE rows[i] = Sorted[i]
    <3>1. rows[i] \in Rows
      BY <1>1, <2>2, SortedFacts
    <3>2. \A j \in 1 .. 4 : rows[i][j] # Word
      <4>1. rows[i][1] # Word /\ rows[i][2] # Word /\ rows[i][3] # Word /\ rows[i][4] # Word
        BY <3>1, RowsFacts DEF Word
      <4>2. \A j \in 1 .. 4 : j = 1 \/ j = 2 \/ j = 3 \/ j = 4
        OBVIOUS
      <4> QED
        BY <4>1, <4>2
    <3> QED
      BY <3>2 DEF Throws
  <2> QED
    BY <1>1, <2>1, <2>2
<1>3. DOMAIN rows = 1 .. Len(rows)
  BY <1>1, LenProperties
<1> QED
  BY <1>2, <1>3 DEF ThrowsAt, Range, rows

------------------------------------------------------------------------------
(* The invariant *)

LEMMA InitCsv == ASSUME Init PROVE CsvInv
<1>1. <<>> \in Seq(Problem) /\ DOMAIN <<>> = {}
  BY EmptySeq, LenProperties
<1> QED
  BY <1>1 DEF Init, CsvInv, TypeOK, ReplyInv

LEMMA TypeKept == ASSUME TypeOK, [Next]_vars PROVE TypeOK'
<1> USE DEF TypeOK, shownVars
<1>1. CASE problem_get
  <2>1. disaster_triggers' \in Problems
    BY <1>1 DEF problem_get
  <2>2. /\ disaster_triggers' \in Seq(Problem)
        /\ \A i, j \in DOMAIN disaster_triggers' :
             disaster_triggers'[i].eventid = disaster_triggers'[j].eventid => i = j
    BY <2>1, CsvAssumption DEF CsvAssumption, Problem
  <2> QED
    BY <1>1, <2>2 DEF problem_get
<1>2. CASE event_get
  BY <1>2 DEF event_get
<1>3. CASE trigger_get
  BY <1>3 DEF trigger_get
<1>4. CASE Exception
  BY <1>4 DEF Exception
<1>5. CASE output
  BY <1>5 DEF output
<1>6. CASE HandleResponse
  BY <1>6 DEF HandleResponse
<1>7. CASE DoRequest \/ Restart
  <2>1. <<>> \in Seq(Problem) /\ DOMAIN <<>> = {}
    BY EmptySeq, LenProperties
  <2> QED
    BY <1>7, <2>1 DEF DoRequest, Restart, NextRequest
<1>8. CASE UNCHANGED vars
  BY <1>8 DEF vars
<1> QED
  BY <1>1, <1>2, <1>3, <1>4, <1>5, <1>6, <1>7, <1>8 DEF Next

\* The reply is a function of what Zabbix answered.
LEMMA ReplyUnchanged ==
  ASSUME UNCHANGED <<disaster_triggers, event_ack, trigger_info>>
  PROVE  Reply' = Reply
BY DEF Reply, Joined, Sorted, Under, UpTo, RowOf, Enabled, EnabledHosts, ProblemsOf, HostsOf,
       suppressed, Before, header, Word

LEMMA ReplyKept == ASSUME CsvInv, [Next]_vars PROVE ReplyInv'
<1> USE DEF CsvInv, shownVars
<1>1. CASE problem_get \/ event_get \/ trigger_get \/ DoRequest \/ Restart
  BY <1>1 DEF problem_get, event_get, trigger_get, DoRequest, Restart, NextRequest, ReplyInv
<1>2. CASE Exception
  <2>1. PICK m \in Messages : csv_output' = <<Tail(header), ErrorRow(m)>>
    BY <1>2 DEF Exception, ErrorRow
  <2>2. IsError(csv_output')
    BY <2>1 DEF IsError
  <2> QED
    BY <1>2, <2>2 DEF Exception, ReplyInv, IsError
<1>3. CASE output
  <2>1. Reply' = Reply
    BY <1>3, ReplyUnchanged DEF output
  <2>2. csv_output' = Reply'
    BY <1>3, <2>1 DEF output, Reply
  <2>3. ~failed
    BY <1>3 DEF output, ReplyInv
  <2> QED
    BY <1>3, <2>2 DEF output, ReplyInv
<1>4. CASE HandleResponse
  <2>1. Reply' = Reply
    BY <1>4, ReplyUnchanged DEF HandleResponse
  <2>2. PICK held \in Held : \E response \in IF closed' THEN Early(held) ELSE Received(held) :
          IF ThrowsAt(RowsRead(response)) THEN halted' = TRUE /\ UNCHANGED alerts
          ELSE alerts' = AlertsOf(RowsRead(response)) /\ UNCHANGED halted
    BY <1>4 DEF HandleResponse, ThrowsAt, AlertsOf
  <2>3. Got(held)' = IF closed' THEN Early(held) ELSE Received(held)
    BY <1>4 DEF HandleResponse, Got, Received, Early, CutIn
  <2>4. ~halted /\ halted' \in BOOLEAN
    BY <1>4, TypeKept DEF HandleResponse, ReplyInv, TypeOK
  <2>5. \E response \in Got(held)' :
          IF ThrowsAt(RowsRead(response)) THEN halted'
          ELSE ~halted' /\ alerts' = AlertsOf(RowsRead(response))
    BY <2>2, <2>3, <2>4
  <2> QED
    BY <1>4, <2>1, <2>5 DEF HandleResponse, ReplyInv
<1>5. CASE UNCHANGED vars
  <2>1. Reply' = Reply
    BY <1>5, ReplyUnchanged DEF vars
  <2>2. \A held \in Held : Got(held)' = Got(held)
    BY <1>5 DEF vars, Got, Received, Early, CutIn
  <2> QED
    BY <1>5, <2>1, <2>2 DEF vars, ReplyInv
<1> QED
  BY <1>1, <1>2, <1>3, <1>4, <1>5 DEF Next

\* In every behaviour a reply without an error is the rows of what Zabbix answered in
\* their order, and what is on display was read of the beginning of a reply.
THEOREM CsvCorrect == Spec => []CsvInv
<1>1. Init => CsvInv
  BY InitCsv
<1>2. CsvInv /\ [Next]_vars => CsvInv'
  BY TypeKept, ReplyKept DEF CsvInv
<1> QED
  BY <1>1, <1>2, PTL DEF Spec

LEMMA AlertsOfFacts ==
  ASSUME NEW rows \in Seq(Seq(Int))
  PROVE  /\ Len(AlertsOf(rows)) = Len(rows)
         /\ DOMAIN AlertsOf(rows) = 1 .. Len(rows)
         /\ \A i \in 1 .. Len(rows) : AlertsOf(rows)[i] = from_csv(rows[i])
<1> DEFINE S == {from_csv(rows[i]) : i \in 1 .. Len(rows)}
<1>1. Len(rows) \in Nat /\ DOMAIN rows = 1 .. Len(rows)
  BY LenProperties
<1>2. AlertsOf(rows) = [i \in 1 .. Len(rows) |-> from_csv(rows[i])]
  BY <1>1 DEF AlertsOf
<1>3. AlertsOf(rows) \in [1 .. Len(rows) -> S]
  BY <1>2
<1> HIDE DEF S
<1> QED
  BY <1>1, <1>2, <1>3, FunctionIsSeq

\* What is on display is the beginning of what is to be shown.
LEMMA ShownFacts ==
  ASSUME CsvInv, Shown, ~failed
  PROVE  /\ Cardinality(Joined) \in Nat /\ Len(alerts) \in Nat /\ DOMAIN alerts = 1 .. Len(alerts)
         /\ Len(alerts) <= Cardinality(Joined)
         /\ \A i \in 1 .. Len(alerts) :
              alerts[i] = from_csv(Sorted[i]) \/ (i = Len(alerts) /\ alerts[i] = NoData)
         /\ ~closed =>
              /\ Len(alerts) = 0 => Cardinality(Joined) = 0
              /\ \E held \in Held :
                   /\ Len(alerts) >= Least(Cardinality(Joined), Least(MaxRows, held - 1))
                   /\ \A i \in 1 .. Len(alerts) : alerts[i] = from_csv(Sorted[i]) \/ i = held
<1>0. PICK held \in Held : \E response \in Got(held) : alerts = AlertsOf(RowsRead(response))
  BY DEF CsvInv, ReplyInv, Shown
<1>1. PICK response \in Got(held) : alerts = AlertsOf(RowsRead(response))
  BY <1>0
<1> DEFINE rows == RowsRead(response)
           n == Cardinality(Joined)
<1>2. csv_output = Reply
  BY DEF CsvInv, ReplyInv, Shown
<1>3. /\ rows \in Seq(Seq(Int)) /\ n \in Nat /\ Len(rows) \in Nat /\ Len(rows) <= n
      /\ \A i \in 1 .. Len(rows) :
           rows[i] = Sorted[i] \/ (i = Len(rows) /\ Len(rows[i]) # 6)
      /\ ~closed =>
           /\ Len(rows) = 0 => n = 0
           /\ Len(rows) >= Least(n, Least(MaxRows, held - 1))
           /\ \A i \in 1 .. Len(rows) : rows[i] = Sorted[i] \/ i = held
  BY <1>2, ReadFacts DEF CsvInv
<1> HIDE DEF rows
<1>4. /\ Len(alerts) = Len(rows) /\ DOMAIN alerts = 1 .. Len(rows)
      /\ \A i \in 1 .. Len(rows) : alerts[i] = from_csv(rows[i])
  BY <1>1, <1>3, AlertsOfFacts DEF rows
<1>5. \A i \in 1 .. Len(rows) : Len(rows[i]) # 6 => alerts[i] = NoData
  BY <1>4 DEF from_csv
<1> QED
  BY <1>3, <1>4, <1>5

\* An alert with data is of the row at its place.
LEMMA KnownFacts ==
  ASSUME CsvInv, Shown, ~failed, NEW i \in DOMAIN alerts, alerts[i] # NoData
  PROVE  /\ i \in 1 .. Cardinality(Joined)
         /\ Sorted[i] \in Rows /\ alerts[i] = from_csv(Sorted[i])
<1>1. /\ Cardinality(Joined) \in Nat /\ Len(alerts) \in Nat /\ DOMAIN alerts = 1 .. Len(alerts)
      /\ Len(alerts) <= Cardinality(Joined)
      /\ \A j \in 1 .. Len(alerts) : alerts[j] = from_csv(Sorted[j]) \/ alerts[j] = NoData
  BY ShownFacts
<1>2. i \in 1 .. Cardinality(Joined) /\ alerts[i] = from_csv(Sorted[i])
  BY <1>1
<1> QED
  BY <1>2, SortedFacts DEF CsvInv

\* The places of alerts like a row's are among the row's.
LEMMA TimesFacts ==
  ASSUME CsvInv, Shown, ~failed, NEW r \in Rows
  PROVE  Times(from_csv(r)) \in Nat /\ Times(from_csv(r)) <= Due(from_csv(r))
<1> DEFINE S == {i \in DOMAIN alerts : alerts[i] = from_csv(r)}
           P == Under(r) + 1 .. UpTo(r)
<1>1. ASSUME NEW i \in S PROVE i \in P
  <2>1. alerts[i] # NoData
    BY RowForFacts
  <2>2. i \in 1 .. Cardinality(Joined) /\ Sorted[i] \in Rows /\ from_csv(Sorted[i]) = from_csv(r)
    BY <2>1, KnownFacts
  <2>3. Sorted[i] = r
    BY <2>2, RowForFacts
  <2> QED
    BY <2>2, <2>3, SortedPlaces DEF CsvInv
<1>2. Under(r) \in Nat /\ UpTo(r) \in Nat /\ Under(r) <= UpTo(r)
  BY PlacesFacts DEF CsvInv
<1>3. IsFiniteSet(P) /\ Cardinality(P) = UpTo(r) - Under(r)
  BY <1>2, PlacesSize
<1>4. S \subseteq P
  BY <1>1
<1> HIDE DEF S, P
<1>5. IsFiniteSet(S) /\ Cardinality(S) <= Cardinality(P)
  BY <1>3, <1>4, FS_Subset
<1>6. Cardinality(S) \in Nat
  BY <1>5, FS_CardinalityType
<1> QED
  BY <1>3, <1>5, <1>6, DueIsEquals DEF Times, S, CsvInv

LEMMA InvListRight == ASSUME CsvInv PROVE ListRight
<1> SUFFICES ASSUME Shown, ~failed
             PROVE  /\ \A a \in Known : Times(a) <= Due(a)
                    /\ closed \/ \E held \in Held :
                         Len(alerts) >= Least(Cardinality(Listed), Least(MaxRows, held - 1))
                    /\ \A i \in DOMAIN alerts : alerts[i] = NoData =>
                         /\ i = Len(alerts) /\ i < Cardinality(Listed) + 1
                         /\ closed \/ \E held \in Held : i = held
  BY DEF ListRight
<1>1. ASSUME NEW a \in Known PROVE Times(a) <= Due(a)
  <2>1. PICK i \in DOMAIN alerts : alerts[i] = a /\ a # NoData
    BY DEF Known, Range
  <2>2. Sorted[i] \in Rows /\ a = from_csv(Sorted[i])
    BY <2>1, KnownFacts
  <2> QED
    BY <2>2, TimesFacts
<1>2. Cardinality(Listed) = Cardinality(Joined)
  BY ListedSize DEF CsvInv
<1>3. closed \/ \E held \in Held :
        Len(alerts) >= Least(Cardinality(Listed), Least(MaxRows, held - 1))
  BY <1>2, ShownFacts
<1>4. ASSUME NEW i \in DOMAIN alerts, alerts[i] = NoData
      PROVE  /\ i = Len(alerts) /\ i < Cardinality(Listed) + 1
             /\ closed \/ \E held \in Held : i = held
  <2>1. /\ Len(alerts) \in Nat /\ Cardinality(Joined) \in Nat /\ Len(alerts) <= Cardinality(Joined)
        /\ i \in 1 .. Len(alerts)
    BY ShownFacts
  <2>2. Sorted[i] \in Rows
    BY <2>1, SortedFacts DEF CsvInv
  <2>3. alerts[i] # from_csv(Sorted[i])
    BY <1>4, <2>2, RowForFacts
  <2>4. i = Len(alerts) /\ (closed \/ \E held \in Held : i = held)
    BY <2>1, <2>3, ShownFacts
  <2> QED
    BY <1>2, <2>1, <2>4
<1> QED
  BY <1>1, <1>3, <1>4

\* For every list of problems, every answer about them, every size of the buffer and
\* every limit on rows: no alert is made up or shown twice, wherever the reply is cut; none
\* is left out for another reason than the end of the buffer, the limit, or a connection that
\* ended early; and only the last can be without data, if one of those cut it.
THEOREM ListIsRight == Spec => []ListRight
BY CsvCorrect, InvListRight, PTL

LEMMA InvMostUrgentShown == ASSUME CsvInv PROVE MostUrgentShown
<1> SUFFICES ASSUME Shown, ~failed, NEW x \in Listed, Times(AlertOf(x)) < Due(AlertOf(x)),
                    NEW b \in Known, MoreUrgent(AlertOf(x), b)
             PROVE  FALSE
  BY DEF MostUrgentShown
<1> DEFINE a == AlertOf(x)
<1>1. PICK y \in Joined : Source(y) = x
  BY ListedHasSource DEF CsvInv
<1> DEFINE r == RowOf(y)
<1>2. r \in Rows /\ a = from_csv(r)
  BY <1>1, RowOfFacts, SourceFacts DEF CsvInv
<1>3. PICK i \in DOMAIN alerts : alerts[i] = b /\ b # NoData
  BY DEF Known, Range
<1>4. i \in 1 .. Cardinality(Joined) /\ Sorted[i] \in Rows /\ b = from_csv(Sorted[i])
  BY <1>3, KnownFacts
<1>5. Before(r, Sorted[i])
  <2>1. /\ a = [clock |-> r[1], suppressed |-> r[3], hostid |-> r[4]]
        /\ b = [clock |-> Sorted[i][1], suppressed |-> Sorted[i][3], hostid |-> Sorted[i][4]]
    BY <1>2, <1>4, RowForFacts
  <2>2. \/ r[3] < Sorted[i][3]
        \/ r[3] = Sorted[i][3] /\ r[1] > Sorted[i][1]
    BY <2>1 DEF MoreUrgent
  <2>3. r[3] \in Int /\ Sorted[i][3] \in Int /\ r[1] \in Int /\ Sorted[i][1] \in Int
    BY <1>2, <1>4, RowsFacts
  <2> QED
    BY <2>2, <2>3 DEF Before
<1> HIDE DEF r
<1>6. UpTo(r) <= Under(Sorted[i]) /\ Under(Sorted[i]) < i
  BY <1>2, <1>4, <1>5, PlacesApart, SortedFacts DEF CsvInv
<1>7. /\ Under(r) \in Nat /\ UpTo(r) \in Nat /\ Under(r) <= UpTo(r)
      /\ Under(Sorted[i]) \in Nat
  BY <1>2, <1>4, PlacesFacts DEF CsvInv
<1> DEFINE P == Under(r) + 1 .. UpTo(r)
           S == {k \in DOMAIN alerts : alerts[k] = a}
<1>8. ASSUME NEW k \in P PROVE k \in S
  <2> DEFINE len == Len(alerts)
  <2>1. /\ len \in Nat /\ Cardinality(Joined) \in Nat
        /\ DOMAIN alerts = 1 .. len /\ len <= Cardinality(Joined)
        /\ \A j \in 1 .. len : alerts[j] = from_csv(Sorted[j]) \/ j = len
    BY ShownFacts
  <2> HIDE DEF len
  <2>2. k \in 1 .. len /\ k # len
    <3>1. i \in 1 .. len
      BY <1>3, <2>1
    <3>2. k \in Nat /\ k > 0 /\ k <= UpTo(r)
      BY <1>7
    <3>3. k < i
      BY <1>6, <1>7, <3>1, <3>2
    <3> QED
      BY <2>1, <3>1, <3>2, <3>3
  <2>3. alerts[k] = from_csv(Sorted[k])
    BY <2>1, <2>2
  <2>4. Sorted[k] = r
    <3>1. TypeOK /\ k \in 1 .. Cardinality(Joined)
      BY <2>1, <2>2 DEF CsvInv
    <3>2. k \in Under(r) + 1 .. UpTo(r)
      OBVIOUS
    <3> QED
      BY <1>2, <3>1, <3>2, SortedPlaces
  <2> QED
    BY <1>2, <2>1, <2>2, <2>3, <2>4
<1>9. P \subseteq S
  BY <1>8
<1>10. Cardinality(P) = UpTo(r) - Under(r)
  BY <1>7, PlacesSize
<1>11. IsFiniteSet(S)
  <2>1. IsFiniteSet(DOMAIN alerts)
    <3>1. DOMAIN alerts = 1 .. Len(alerts) /\ Len(alerts) \in Nat
      BY ShownFacts
    <3> QED
      BY <3>1, FS_Interval
  <2> QED
    BY <2>1, FS_Subset
<1> HIDE DEF P, S
<1>12. Cardinality(P) <= Cardinality(S)
  BY <1>9, <1>11, FS_Subset
<1>13. Cardinality(S) < Due(a) /\ Due(a) = UpTo(r) - Under(r) /\ Cardinality(S) \in Nat
  BY <1>2, <1>11, DueIsEquals, FS_CardinalityType DEF Times, S, CsvInv
<1> QED
  BY <1>7, <1>10, <1>12, <1>13

\* However the buffer, the limit and the connection cut the list, nothing that is left out is more
\* urgent than anything shown.
THEOREM UrgentIsShown == Spec => []MostUrgentShown
BY CsvCorrect, InvMostUrgentShown, PTL

LEMMA ErrorRowFacts ==
  ASSUME NEW m \in Messages
  PROVE  m \in Nat /\ ErrorRow(m) \in Seq(Int) /\ Len(ErrorRow(m)) = m + 5
<1> DEFINE words == [i \in 1 .. m + 1 |-> Word]
<1>1. m \in Nat
  BY CsvAssumption DEF CsvAssumption
<1>2. words \in [1 .. m + 1 -> Int]
  BY DEF Word
<1>3. words \in Seq(Int) /\ Len(words) = m + 1
  <2>1. words \in Seq(Int) /\ DOMAIN words = 1 .. m + 1
    BY <1>1, <1>2, SeqDef
  <2> QED
    BY <1>1, <2>1, LenProperties
<1> HIDE DEF words
<1>4. <<2, 1>> \in Seq(Int) /\ Len(<<2, 1>>) = 2 /\ <<Word, Word>> \in Seq(Int) /\ Len(<<Word, Word>>) = 2
  BY DEF Word
<1>5. <<2, 1>> \o words \in Seq(Int) /\ Len(<<2, 1>> \o words) = m + 3
  BY <1>1, <1>3, <1>4, ConcatProperties
<1>6. (<<2, 1>> \o words) \o <<Word, Word>> \in Seq(Int)
      /\ Len((<<2, 1>> \o words) \o <<Word, Word>>) = m + 5
  BY <1>1, <1>4, <1>5, ConcatProperties
<1> QED
  BY <1>1, <1>6 DEF ErrorRow, words

\* Of an error, the row that is read is its row or a beginning of it, if there is one.
LEMMA ErrorFacts ==
  ASSUME NEW m \in Messages, NEW held \in Held, failed,
         csv_output = <<Tail(header), ErrorRow(m)>>, NEW response \in Got(held)
  PROVE  LET rows == RowsRead(response)
         IN /\ rows \in Seq(Seq(Int)) /\ Len(rows) \in Nat
            /\ ~closed => Len(rows) = 1
            /\ \A i \in 1 .. Len(rows) : Len(rows[i]) <= Len(csv_output[2])
<1>1. held \in Nat /\ held > 1 /\ MaxRows \in Nat \ {0}
  BY CsvAssumption DEF CsvAssumption
<1> DEFINE out == <<Tail(header), ErrorRow(m)>>
<1>2. /\ out \in Seq(Seq(Int)) /\ Len(out) = 2 /\ out[2] = ErrorRow(m)
      /\ out[1] \in Seq(Int) /\ out[2] \in Seq(Int)
  <2>1. header \in Seq(Int) /\ header # <<>>
    BY DEF header, Word
  <2>2. Tail(header) \in Seq(Int)
    BY <2>1, HeadTailProperties
  <2> QED
    BY <2>2, ErrorRowFacts
<1> HIDE DEF out
<1>3. csv_output = out
  BY DEF out
<1>4. \/ response = out
      \/ response \in CutIn(1)
      \/ closed /\ \E rows \in {0, 1} : response \in {SubSeq(out, 1, rows)} \cup CutIn(rows)
  <2>1. CASE closed
    <3>1. PICK rows \in 0 .. Least(held, 2 - 1) : response \in {SubSeq(out, 1, rows)} \cup CutIn(rows)
      BY <1>2, <1>3, <2>1 DEF Got, Early
    <3>2. rows \in {0, 1}
      BY <1>1 DEF Least
    <3> QED
      BY <2>1, <3>1, <3>2
  <2>2. CASE ~closed
    <3>1. response \in Received(held)
      BY <2>2 DEF Got
    <3>2. Len(csv_output) <= held
      BY <1>1, <1>2, <1>3
    <3>3. response \in {csv_output} \cup CutIn(1)
      BY <3>1, <3>2 DEF Received
    <3> QED
      BY <1>3, <3>3
  <2> QED
    BY <2>1, <2>2
<1>5. ASSUME NEW row \in {0, 1}, response \in CutIn(row)
      PROVE  /\ response \in Seq(Seq(Int)) /\ Len(response) = row + 1
             /\ row = 1 => Len(response[2]) <= Len(out[2])
  <2> DEFINE long == out[row + 1]
             cut == SubSeq(out, 1, row)
  <2>1. PICK fields \in 1 .. Len(long) : response = Append(cut, SubSeq(long, 1, fields))
    BY <1>2, <1>3, <1>5 DEF CutIn
  <2>2. long \in Seq(Int) /\ Len(long) \in Nat
    BY <1>2, LenProperties
  <2>3. \A i \in 1 .. fields : long[i] \in Int
    BY <2>2, ElementOfSeq
  <2> DEFINE part == SubSeq(long, 1, fields)
  <2>4. part \in Seq(Int) /\ Len(part) = fields
    BY <2>2, <2>3, SubSeqProperties
  <2>5. \A i \in 1 .. row : out[i] \in Seq(Int)
    BY <1>2
  <2>6. cut \in Seq(Seq(Int)) /\ Len(cut) = row
    BY <2>5, SubSeqProperties
  <2>7. response = Append(cut, part)
    BY <2>1
  <2> HIDE DEF cut, part
  <2>8. response \in Seq(Seq(Int)) /\ Len(response) = row + 1 /\ response[row + 1] = part
    BY <2>4, <2>6, <2>7, AppendProperties
  <2>9. row = 1 => Len(response[2]) <= Len(out[2])
    BY <2>2, <2>4, <2>8
  <2> QED
    BY <2>8, <2>9
<1>6. /\ response \in Seq(Seq(Int)) /\ Len(response) \in {0, 1, 2}
      /\ Len(response) = 2 => Len(response[2]) <= Len(out[2])
      /\ ~closed => Len(response) = 2
  <2>1. CASE response = out
    <3>1. Len(out[2]) \in Nat
      BY <1>2, LenProperties
    <3> QED
      BY <1>2, <2>1, <3>1
  <2>2. CASE \E row \in {0, 1} : response \in CutIn(row) /\ (~closed => row = 1)
    BY <1>5, <2>2
  <2>3. CASE closed /\ \E rows \in {0, 1} : response = SubSeq(out, 1, rows)
    <3>1. PICK rows \in {0, 1} : response = SubSeq(out, 1, rows)
      BY <2>3
    <3>2. \A i \in 1 .. rows : out[i] \in Seq(Int)
      BY <1>2
    <3>3. SubSeq(out, 1, rows) \in Seq(Seq(Int)) /\ Len(SubSeq(out, 1, rows)) = rows
      BY <3>2, SubSeqProperties
    <3>4. response \in Seq(Seq(Int)) /\ Len(response) = rows
      BY <3>1, <3>3
    <3> QED
      BY <2>3, <3>4
  <2> QED
    BY <1>4, <2>1, <2>2, <2>3
<1> DEFINE rows == RowsRead(response)
<1>7. /\ rows \in Seq(Seq(Int))
      /\ Len(rows) = IF Len(response) = 0 THEN 0
                     ELSE IF Len(response) <= MaxRows + 1 THEN Len(response) - 1 ELSE MaxRows
      /\ \A i \in 1 .. Len(rows) : rows[i] = response[i + 1]
  BY <1>6, RowsReadFacts
<1> HIDE DEF rows
<1>8. Len(rows) \in Nat /\ (Len(rows) = IF Len(response) = 2 THEN 1 ELSE 0)
  <2> DEFINE l == Len(response)
             k == Len(rows)
  <2>1. k = IF l = 0 THEN 0 ELSE IF l <= MaxRows + 1 THEN l - 1 ELSE MaxRows
    BY <1>7
  <2>2. l = 0 \/ l = 1 \/ l = 2
    BY <1>6
  <2> HIDE DEF l, k
  <2>3. k \in Nat /\ (k = IF l = 2 THEN 1 ELSE 0)
    BY <1>1, <2>1, <2>2
  <2> QED
    BY <2>3 DEF l, k
<1>9. ASSUME NEW i \in 1 .. Len(rows) PROVE Len(rows[i]) <= Len(out[2])
  <2>1. i = 1 /\ Len(response) = 2
    BY <1>8
  <2>2. rows[1] = response[2]
    BY <1>7, <1>8, <2>1
  <2> QED
    BY <1>6, <2>1, <2>2
<1>10. ~closed => Len(rows) = 1
  BY <1>6, <1>8
<1> QED
  BY <1>3, <1>7, <1>8, <1>9, <1>10 DEF rows

LEMMA InvClearMeansNone == ASSUME CsvInv PROVE ClearMeansNone
<1> SUFFICES ASSUME Shown, alerts = <<>>, ~closed
             PROVE  ~failed /\ Listed = {}
  BY DEF ClearMeansNone
<1>1. CASE failed
  <2>1. PICK m \in Messages : csv_output = <<Tail(header), ErrorRow(m)>>
    BY <1>1 DEF CsvInv, ReplyInv, Shown, IsError
  <2>2. PICK held \in Held : \E response \in Got(held) : alerts = AlertsOf(RowsRead(response))
    BY DEF CsvInv, ReplyInv, Shown
  <2>3. PICK response \in Got(held) : alerts = AlertsOf(RowsRead(response))
    BY <2>2
  <2>4. RowsRead(response) \in Seq(Seq(Int)) /\ Len(RowsRead(response)) = 1
    BY <1>1, <2>1, ErrorFacts
  <2>5. Len(alerts) = 1
    BY <2>3, <2>4, AlertsOfFacts
  <2> QED
    BY <2>5
<1>2. CASE ~failed
  <2>1. Cardinality(Joined) = 0
    <3>1. Len(alerts) = 0
      OBVIOUS
    <3> QED
      BY <1>2, <3>1, ShownFacts
  <2>2. Joined = {}
    BY <2>1, JoinedFinite, FS_EmptySet DEF CsvInv
  <2> QED
    BY <1>2, <2>2, ListedSize DEF CsvInv
<1> QED
  BY <1>1, <1>2

\* An empty display after a reply that was not cut off by an early end of its connection
\* means that Zabbix had nothing to show: whatever failed, however short the buffer, there
\* is an alert otherwise.
THEOREM ClearIsNone == Spec => []ClearMeansNone
BY CsvCorrect, InvClearMeansNone, PTL

LEMMA InvOnlyErrorsThrow == ASSUME CsvInv PROVE OnlyErrorsThrow
<1> SUFFICES ASSUME halted PROVE failed /\ Len(csv_output[2]) > 5
  BY DEF OnlyErrorsThrow
<1>1. step = "shown"
  BY DEF CsvInv, ReplyInv
<1>2. PICK held \in Held : \E response \in Got(held) : ThrowsAt(RowsRead(response))
  BY <1>1 DEF CsvInv, ReplyInv
<1>3. PICK response \in Got(held) : ThrowsAt(RowsRead(response))
  BY <1>2
<1>4. failed
  <2> SUFFICES ASSUME ~failed PROVE FALSE
    OBVIOUS
  <2>1. csv_output = Reply
    BY <1>1 DEF CsvInv, ReplyInv
  <2> QED
    BY <1>3, <2>1, ReadingGoesOn DEF CsvInv
<1>5. PICK m \in Messages : csv_output = <<Tail(header), ErrorRow(m)>>
  BY <1>1, <1>4 DEF CsvInv, ReplyInv, IsError
<1> DEFINE rows == RowsRead(response)
<1>6. /\ rows \in Seq(Seq(Int)) /\ Len(rows) \in Nat
      /\ \A i \in 1 .. Len(rows) : Len(rows[i]) <= Len(csv_output[2])
  BY <1>4, <1>5, ErrorFacts
<1> HIDE DEF rows
<1>7. DOMAIN rows = 1 .. Len(rows)
  BY <1>6, LenProperties
<1>8. PICK i \in 1 .. Len(rows) : Len(rows[i]) = 6
  BY <1>3, <1>7 DEF ThrowsAt, Range, Throws, rows
<1>9. 6 <= Len(csv_output[2])
  BY <1>6, <1>8
<1>10. csv_output[2] = ErrorRow(m) /\ Len(ErrorRow(m)) \in Nat
  BY <1>5, ErrorRowFacts
<1> QED
  BY <1>4, <1>9, <1>10

\* No list stops the reading, wherever the buffer or the connection cuts it: a field that
\* is no number gets as far as std::stoul only from an error, one whose message has a
\* semicolon.
THEOREM ListsNeverThrow == Spec => []OnlyErrorsThrow
BY CsvCorrect, InvOnlyErrorsThrow, PTL
=============================================================================
