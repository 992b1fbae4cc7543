---------------------------- MODULE VolumeProofs -----------------------------
(***************************************************************************)
(* Proofs about Volume: for a volume and files of any size, every save,    *)
(* edit, reset and torn sector leaves each cluster that a file refers to   *)
(* allocated, and to that file alone; and what the host has cached is what *)
(* is on the flash once its writes are done.                               *)
(***************************************************************************)
EXTENDS Volume, SequenceTheorems, WellFoundedInduction, TLAPS

------------------------------------------------------------------------------
(* Numbers, sequences and records *)

LEMMA LeastNumber ==
  ASSUME NEW S \in SUBSET Nat, S # {}
  PROVE  \E m \in S : \A n \in S : m <= n
<1> DEFINE Less == {ss \in Nat \X Nat : ss[1] < ss[2]}
<1>1. Less = OpToRel(<, Nat)
  BY Zenon DEF OpToRel
<1>2. IsWellFoundedOn(Less, Nat)
  BY <1>1, NatLessThanWellFounded, Zenon
<1>3. \E m \in S : \A n \in S : ~(<<n, m>> \in Less)
  <2> HIDE DEF Less
  <2>1. S \subseteq Nat /\ S # {}
    OBVIOUS
  <2> QED
    BY <1>2, <2>1, WFMin, Zenon
<1>4. ASSUME NEW m \in S, NEW n \in S, ~(<<n, m>> \in Less) PROVE m <= n
  BY <1>4
<1> HIDE DEF Less
<1> QED
  BY <1>3, <1>4

LEMMA LargestBelow ==
  ASSUME NEW b \in Nat, NEW S \in SUBSET (1 .. b), S # {}
  PROVE  \E m \in S : \A n \in S : n <= m
<1> DEFINE T == {b - m : m \in S}
<1>1. T \in SUBSET Nat /\ T # {}
  <2>1. ASSUME NEW m \in S PROVE b - m \in Nat
    <3>1. m \in 1 .. b
      OBVIOUS
    <3> QED
      BY <3>1
  <2> QED
    BY <2>1
<1>2. PICK t \in T : \A u \in T : t <= u
  <2> HIDE DEF T
  <2> QED
    BY <1>1, LeastNumber
<1>3. PICK m \in S : t = b - m
  BY <1>2
<1>4. ASSUME NEW n \in S PROVE n <= m
  <2>1. b - n \in T
    OBVIOUS
  <2>2. b - m <= b - n
    BY <1>2, <1>3, <2>1
  <2> QED
    BY <2>2
<1> QED
  BY <1>4

\* A sequence, whatever its elements are.
IsSeq(w) == w \in Seq(Range(w))

LEMMA SeqFacts ==
  ASSUME NEW w, IsSeq(w)
  PROVE  Len(w) \in Nat /\ DOMAIN w = 1 .. Len(w)
BY LenProperties DEF IsSeq

LEMMA FunctionIsSeq ==
  ASSUME NEW n \in Nat, NEW w, DOMAIN w = 1 .. n, w = [i \in 1 .. n |-> w[i]]
  PROVE  IsSeq(w) /\ Len(w) = n
<1>1. w \in [1 .. n -> Range(w)]
  BY DEF Range
<1>2. w \in Seq(Range(w))
  BY <1>1, SeqDef
<1> QED
  BY <1>2, LenProperties DEF IsSeq

LEMMA EmptyIsSeq == IsSeq(<<>>) /\ Len(<<>>) = 0
BY EmptySeq DEF IsSeq

LEMMA AppendFacts ==
  ASSUME NEW w, IsSeq(w), NEW x
  PROVE  /\ IsSeq(Append(w, x))
         /\ Len(Append(w, x)) = Len(w) + 1
         /\ \A i \in 1 .. Len(w) : Append(w, x)[i] = w[i]
         /\ Append(w, x)[Len(w) + 1] = x
<1> DEFINE S == Range(w) \cup {x}
<1>1. w \in Seq(S)
  <2>1. w \in Seq(Range(w)) /\ Range(w) \subseteq S
    BY DEF IsSeq
  <2> HIDE DEF S
  <2> QED
    BY <2>1, SeqMonotonic
<1>2. x \in S
  OBVIOUS
<1> HIDE DEF S
<1>3. Append(w, x) \in Seq(S)
  BY <1>1, <1>2, AppendProperties
<1>4. /\ Len(Append(w, x)) = Len(w) + 1
      /\ \A i \in 1 .. Len(w) : Append(w, x)[i] = w[i]
      /\ Append(w, x)[Len(w) + 1] = x
  BY <1>1, <1>2, AppendProperties
<1>5. DOMAIN Append(w, x) = 1 .. Len(w) + 1 /\ Len(w) + 1 \in Nat
  BY <1>3, <1>4, SeqFacts, LenProperties
<1>6. Append(w, x) = [i \in 1 .. Len(w) + 1 |-> Append(w, x)[i]]
  BY <1>3, <1>4, LenProperties
<1> QED
  BY <1>4, <1>5, <1>6, FunctionIsSeq

LEMMA TailFacts ==
  ASSUME NEW w, IsSeq(w), w # <<>>
  PROVE  /\ IsSeq(Tail(w))
         /\ Len(w) >= 1 /\ Len(Tail(w)) = Len(w) - 1
         /\ Head(w) = w[1]
         /\ \A i \in 1 .. Len(w) - 1 : Tail(w)[i] = w[i + 1]
<1>1. w \in Seq(Range(w)) /\ Len(w) \in Nat
  BY SeqFacts DEF IsSeq
<1>2. /\ Head(w) = w[1] /\ Tail(w) \in Seq(Range(w)) /\ Len(Tail(w)) = Len(w) - 1
      /\ \A i \in 1 .. Len(Tail(w)) : Tail(w)[i] = w[i + 1]
  BY <1>1, HeadTailProperties
<1>3. Len(Tail(w)) \in Nat /\ DOMAIN Tail(w) = 1 .. Len(Tail(w))
  BY <1>2, LenProperties
<1>4. Tail(w) = [i \in 1 .. Len(Tail(w)) |-> Tail(w)[i]]
  BY <1>2, LenProperties
<1>5. IsSeq(Tail(w))
  BY <1>3, <1>4, FunctionIsSeq
<1> QED
  BY <1>1, <1>2, <1>3, <1>5

------------------------------------------------------------------------------
(* The flash after some of the writes *)

LEMMA AfterDomain ==
  ASSUME NEW f, NEW w, NEW k
  PROVE  /\ DOMAIN After(f, w, k) = DOMAIN f
         /\ After(f, w, k) = [s \in DOMAIN f |-> After(f, w, k)[s]]
BY DEF After

\* Are none of the first k writes to sector s?  Is write m the last that is?
NoneTo(w, k, s) == \A i \in 1 .. k : w[i].sect # s
LastTo(w, k, s, m) == m \in 1 .. k /\ w[m].sect = s /\ \A i \in m + 1 .. k : w[i].sect # s

LEMMA AfterNone ==
  ASSUME NEW f, NEW w, NEW k \in Nat, NEW s \in DOMAIN f, NoneTo(w, k, s)
  PROVE  After(f, w, k)[s] = f[s]
BY DEF After, NoneTo

LEMMA AfterLast ==
  ASSUME NEW f, NEW w, NEW k \in Nat, NEW s \in DOMAIN f, NEW m, LastTo(w, k, s, m)
  PROVE  After(f, w, k)[s] = w[m].content
<1> USE DEF LastTo
<1> DEFINE to == {i \in 1 .. k : w[i].sect = s}
           Last1(i) == \A j \in to : j <= i
<1>1. m \in to /\ Last1(m)
  <2>1. ASSUME NEW j \in to PROVE j <= m
    <3>1. j \in 1 .. k /\ w[j].sect = s
      OBVIOUS
    <3>2. ~(j \in m + 1 .. k)
      BY <3>1
    <3> QED
      BY <3>1, <3>2
  <2> QED
    BY <2>1
<1>2. ASSUME NEW i \in to, Last1(i) PROVE i = m
  <2>1. i \in Int /\ m \in Int /\ m <= i /\ i <= m
    BY <1>1, <1>2
  <2> QED
    BY <2>1
<1>3. (CHOOSE i \in to : Last1(i)) = m
  <2> HIDE DEF to, Last1
  <2> QED
    BY <1>1, <1>2
<1>4. to # {}
  BY <1>1
<1>5. After(f, w, k)[s] = w[CHOOSE i \in to : Last1(i)].content
  BY <1>4 DEF After
<1> HIDE DEF to, Last1
<1> QED
  BY <1>3, <1>5

LEMMA NoneOrLast ==
  ASSUME NEW w, NEW k \in Nat, NEW s
  PROVE  NoneTo(w, k, s) \/ \E m : LastTo(w, k, s, m)
<1> DEFINE to == {i \in 1 .. k : w[i].sect = s}
<1>1. CASE to = {}
  BY <1>1 DEF NoneTo
<1>2. CASE to # {}
  <2>1. to \in SUBSET (1 .. k)
    OBVIOUS
  <2>2. PICK m \in to : \A j \in to : j <= m
    <3> HIDE DEF to
    <3> QED
      BY <1>2, <2>1, LargestBelow
  <2>3. ASSUME NEW i \in m + 1 .. k PROVE w[i].sect # s
    <3>1. i \in 1 .. k /\ ~(i <= m)
      BY <2>2
    <3> QED
      BY <2>2, <3>1
  <2>4. LastTo(w, k, s, m)
    BY <2>2, <2>3 DEF LastTo
  <2> QED
    BY <2>4
<1> QED
  BY <1>1, <1>2

LEMMA AfterZero ==
  ASSUME NEW D, NEW f, f = [s \in D |-> f[s]], NEW w
  PROVE  After(f, w, 0) = f
<1>1. ASSUME NEW s \in D PROVE After(f, w, 0)[s] = f[s]
  BY AfterNone DEF NoneTo
<1> QED
  BY <1>1, AfterDomain

LEMMA AfterStep ==
  ASSUME NEW f, NEW w, NEW k \in Nat
  PROVE  After(f, w, k + 1) = [After(f, w, k) EXCEPT ![w[k + 1].sect] = w[k + 1].content]
<1> DEFINE g == [After(f, w, k) EXCEPT ![w[k + 1].sect] = w[k + 1].content]
<1>0. DOMAIN g = DOMAIN f /\ k + 1 \in Nat
  BY AfterDomain
<1>1. ASSUME NEW s \in DOMAIN f PROVE After(f, w, k + 1)[s] = g[s]
  <2>1. CASE w[k + 1].sect = s
    <3>1. LastTo(w, k + 1, s, k + 1)
      BY <2>1 DEF LastTo
    <3>2. After(f, w, k + 1)[s] = w[k + 1].content
      BY <1>0, <3>1, AfterLast
    <3> QED
      BY <2>1, <3>2, AfterDomain
  <2>2. CASE w[k + 1].sect # s
    <3>1. g[s] = After(f, w, k)[s]
      BY <2>2, AfterDomain
    <3>2. CASE NoneTo(w, k, s)
      <4>1. NoneTo(w, k + 1, s)
        BY <2>2, <3>2 DEF NoneTo
      <4> QED
        BY <1>0, <3>1, <3>2, <4>1, AfterNone
    <3>3. ASSUME NEW m, LastTo(w, k, s, m) PROVE After(f, w, k + 1)[s] = g[s]
      <4>1. LastTo(w, k + 1, s, m)
        BY <2>2, <3>3 DEF LastTo
      <4> QED
        BY <1>0, <3>1, <3>3, <4>1, AfterLast
    <3> QED
      BY <3>2, <3>3, NoneOrLast
  <2> QED
    BY <2>1, <2>2
<1>2. After(f, w, k + 1) = [s \in DOMAIN f |-> After(f, w, k + 1)[s]]
  BY AfterDomain
<1>3. g = [s \in DOMAIN f |-> g[s]]
  BY AfterDomain
<1> HIDE DEF g
<1>4. After(f, w, k + 1) = g
  BY <1>1, <1>2, <1>3
<1> QED
  BY <1>4 DEF g

\* The writes done do not depend on those to come.
LEMMA AfterSame ==
  ASSUME NEW f, NEW w, NEW x, NEW k \in Nat, \A i \in 1 .. k : w[i] = x[i]
  PROVE  After(f, w, k) = After(f, x, k)
<1>1. ASSUME NEW s \in DOMAIN f PROVE After(f, w, k)[s] = After(f, x, k)[s]
  <2>1. CASE NoneTo(w, k, s)
    <3>1. NoneTo(x, k, s)
      BY <2>1 DEF NoneTo
    <3> QED
      BY <2>1, <3>1, AfterNone
  <2>2. ASSUME NEW m, LastTo(w, k, s, m) PROVE After(f, w, k)[s] = After(f, x, k)[s]
    <3>1. LastTo(x, k, s, m) /\ w[m] = x[m]
      BY <2>2 DEF LastTo
    <3> QED
      BY <2>2, <3>1, AfterLast
  <2> QED
    BY <2>1, <2>2, NoneOrLast
<1> QED
  BY <1>1, AfterDomain

\* When the first write is done, the others do the rest.
LEMMA AfterTail ==
  ASSUME NEW f, NEW w, IsSeq(w), w # <<>>, NEW k \in 0 .. Len(w) - 1
  PROVE  After([f EXCEPT ![w[1].sect] = w[1].content], Tail(w), k) = After(f, w, k + 1)
<1> DEFINE g == [f EXCEPT ![w[1].sect] = w[1].content]
           t == Tail(w)
<1>0. k \in Nat /\ k + 1 \in Nat /\ \A i \in 1 .. k : t[i] = w[i + 1]
  BY TailFacts, SeqFacts
<1>1. DOMAIN g = DOMAIN f /\ \A s \in DOMAIN f : g[s] = IF s = w[1].sect THEN w[1].content ELSE f[s]
  OBVIOUS
<1> HIDE DEF t, g
<1>2. ASSUME NEW s \in DOMAIN f PROVE After(g, t, k)[s] = After(f, w, k + 1)[s]
  <2>1. CASE NoneTo(t, k, s)
    <3>1. After(g, t, k)[s] = g[s]
      BY <1>0, <1>1, <2>1, AfterNone
    <3>2. ASSUME NEW i \in 2 .. k + 1 PROVE w[i].sect # s
      <4>1. i - 1 \in 1 .. k /\ (i - 1) + 1 = i
        BY <1>0
      <4>2. t[i - 1] = w[i]
        BY <1>0, <4>1
      <4> QED
        BY <2>1, <4>1, <4>2 DEF NoneTo
    <3>3. CASE w[1].sect = s
      <4>1. LastTo(w, k + 1, s, 1)
        BY <1>0, <3>2, <3>3 DEF LastTo
      <4> QED
        BY <1>0, <1>1, <3>1, <3>3, <4>1, AfterLast
    <3>4. CASE w[1].sect # s
      <4>1. NoneTo(w, k + 1, s)
        BY <1>0, <3>2, <3>4 DEF NoneTo
      <4> QED
        BY <1>0, <1>1, <3>1, <3>4, <4>1, AfterNone
    <3> QED
      BY <3>3, <3>4
  <2>2. ASSUME NEW m, LastTo(t, k, s, m) PROVE After(g, t, k)[s] = After(f, w, k + 1)[s]
    <3>1. m \in 1 .. k /\ m + 1 \in 1 .. k + 1 /\ t[m] = w[m + 1] /\ w[m + 1].sect = s
      BY <1>0, <2>2 DEF LastTo
    <3>2. ASSUME NEW i \in (m + 1) + 1 .. k + 1 PROVE w[i].sect # s
      <4>1. i - 1 \in m + 1 .. k /\ i - 1 \in 1 .. k /\ (i - 1) + 1 = i
        BY <1>0, <3>1
      <4>2. t[i - 1] = w[i]
        BY <1>0, <4>1
      <4> QED
        BY <2>2, <4>1, <4>2 DEF LastTo
    <3>3. LastTo(w, k + 1, s, m + 1)
      BY <3>1, <3>2 DEF LastTo
    <3>4. After(g, t, k)[s] = t[m].content
      BY <1>0, <1>1, <2>2, AfterLast
    <3>5. After(f, w, k + 1)[s] = w[m + 1].content
      BY <1>0, <3>3, AfterLast
    <3> QED
      BY <3>1, <3>4, <3>5
  <2> QED
    BY <1>0, <2>1, <2>2, NoneOrLast
<1>3. After(g, t, k) = After(f, w, k + 1)
  BY <1>1, <1>2, AfterDomain
<1> QED
  BY <1>3 DEF g, t

\* The first write hides what its sector held.
LEMMA AfterTorn ==
  ASSUME NEW f, NEW w, NEW x, NEW k \in Nat \ {0}
  PROVE  After([f EXCEPT ![w[1].sect] = x], w, k) = After(f, w, k)
<1> DEFINE g == [f EXCEPT ![w[1].sect] = x]
<1>0. k \in Nat /\ 1 \in 1 .. k
  OBVIOUS
<1>1. DOMAIN g = DOMAIN f /\ \A s \in DOMAIN f : s # w[1].sect => g[s] = f[s]
  OBVIOUS
<1> HIDE DEF g
<1>2. ASSUME NEW s \in DOMAIN f PROVE After(g, w, k)[s] = After(f, w, k)[s]
  <2>1. CASE NoneTo(w, k, s)
    <3>1. w[1].sect # s
      BY <1>0, <2>1 DEF NoneTo
    <3> QED
      BY <1>0, <1>1, <2>1, <3>1, AfterNone
  <2>2. ASSUME NEW m, LastTo(w, k, s, m) PROVE After(g, w, k)[s] = After(f, w, k)[s]
    BY <1>0, <1>1, <2>2, AfterLast
  <2> QED
    BY <1>0, <2>1, <2>2, NoneOrLast
<1>3. After(g, w, k) = After(f, w, k)
  BY <1>1, <1>2, AfterDomain
<1> QED
  BY <1>3 DEF g

------------------------------------------------------------------------------
(* The sectors of a volume with n tables *)

Disk == 0 .. Sectors - 1
L(n) == [n_fats |-> n]
DirSects(n) == n + 1 .. n + RootSectors

Links == {0, Eoc} \cup Cluster
IsTable(x) == x = Erased \/ \E next \in [Cluster -> Links] : x = Table(next)
IsDir(x) ==
  /\ x = Erased \/ x = Entries(x.slots)
  /\ SlotsIn(x) = [i \in SlotIndex |-> SlotsIn(x)[i]]
  /\ \A i \in SlotIndex : SlotsIn(x)[i].clust \in {0} \cup Cluster

LEMMA NextInType ==
  ASSUME NEW x, IsTable(x)
  PROVE  NextIn(x) \in [Cluster -> Links]
<1>1. CASE x = Erased
  BY <1>1 DEF NextIn, Links
<1>2. ASSUME NEW next \in [Cluster -> Links], x = Table(next)
      PROVE  NextIn(x) \in [Cluster -> Links]
  <2>1. x.kind = "table" /\ Erased.kind = "erased" /\ x.next = next
    BY <1>2 DEF Table, Erased
  <2>2. x # Erased
    BY <2>1
  <2> QED
    BY <2>1, <2>2 DEF NextIn
<1> QED
  BY <1>1, <1>2 DEF IsTable

LEMMA TableFacts ==
  ASSUME NEW next \in [Cluster -> Links]
  PROVE  IsTable(Table(next)) /\ NextIn(Table(next)) = next
<1>1. Table(next).kind = "table" /\ Erased.kind = "erased" /\ Table(next).next = next
  BY DEF Table, Erased
<1>2. Table(next) # Erased
  BY <1>1
<1> QED
  BY <1>1, <1>2 DEF NextIn, IsTable

LEMMA EntriesFacts ==
  ASSUME NEW slots, slots = [i \in SlotIndex |-> slots[i]]
  PROVE  /\ SlotsIn(Entries(slots)) = slots
         /\ (\A i \in SlotIndex : slots[i].clust \in {0} \cup Cluster) => IsDir(Entries(slots))
<1>1. Entries(slots).kind = "entries" /\ Erased.kind = "erased" /\ Entries(slots).slots = slots
  BY DEF Entries, Erased
<1>2. Entries(slots) # Erased
  BY <1>1
<1>3. SlotsIn(Entries(slots)) = slots
  BY <1>1, <1>2 DEF SlotsIn
<1> QED
  BY <1>1, <1>3 DEF IsDir

LEMMA ErasedFacts ==
  /\ IsTable(Erased) /\ IsDir(Erased)
  /\ SlotsIn(Erased) = [i \in SlotIndex |-> EmptyEntry(Blank)]
  /\ NextIn(Erased) = [c \in Cluster |-> Eoc]
BY DEF IsTable, IsDir, SlotsIn, EmptyEntry, Entry, NextIn

LEMMA BootFacts ==
  ASSUME NEW n
  PROVE  /\ Boot(n) # Erased /\ Boot(n).kind = "boot" /\ Boot(n).n_fats = n
         /\ Erased.kind = "erased"
BY DEF Boot, Erased

LEMMA Numbers ==
  ASSUME NEW n \in {1, 2}
  PROVE  /\ Sectors \in Nat /\ RootSectors \in Nat \ {0} /\ SectorSlots \in Nat \ {0}
         /\ 0 \in Disk /\ 1 \in Disk /\ 2 \in Disk
         /\ DirSects(n) \subseteq Disk /\ 0 \notin DirSects(n) /\ 1 \notin DirSects(n)
         /\ n = 2 => 2 \notin DirSects(n)
BY FatFsAssumption DEF FatFsAssumption, Disk, DirSects

LEMMA SlotPlace ==
  ASSUME NEW n \in {1, 2}, NEW v, v.n_fats = n, NEW s \in RootSlot
  PROVE  /\ SlotSect(v, s) = n + 1 + s \div SectorSlots
         /\ SlotSect(v, s) = SlotSect(L(n), s)
         /\ SlotSect(v, s) \in DirSects(n)
         /\ s % SectorSlots \in SlotIndex
         /\ s = (s \div SectorSlots) * SectorSlots + (s % SectorSlots)
<1>0. RootSectors \in Nat \ {0} /\ SectorSlots \in Nat \ {0} /\ s \in 0 .. RootSectors * SectorSlots - 1
  BY Numbers DEF RootSlot
<1>1. /\ s \div SectorSlots \in 0 .. RootSectors - 1
      /\ s % SectorSlots \in 0 .. SectorSlots - 1
      /\ s = (s \div SectorSlots) * SectorSlots + (s % SectorSlots)
  BY <1>0
<1>2. SlotSect(v, s) = n + 1 + s \div SectorSlots
  BY <1>1 DEF SlotSect, dirbase, fatbase
<1>3. SlotSect(L(n), s) = n + 1 + s \div SectorSlots
  BY <1>1 DEF SlotSect, dirbase, fatbase, L
<1>4. n + 1 + s \div SectorSlots \in DirSects(n)
  BY <1>0, <1>1 DEF DirSects
<1> QED
  BY <1>1, <1>2, <1>3, <1>4 DEF SlotIndex

\* Two slots are not in one place.
LEMMA SlotsApart ==
  ASSUME NEW n \in {1, 2}, NEW s \in RootSlot, NEW t \in RootSlot,
         SlotSect(L(n), s) = SlotSect(L(n), t), s % SectorSlots = t % SectorSlots
  PROVE  s = t
<1>0. L(n).n_fats = n
  BY DEF L
<1>1. n + 1 + s \div SectorSlots = n + 1 + t \div SectorSlots
  BY <1>0, SlotPlace
<1>2. s \div SectorSlots \in Int /\ t \div SectorSlots \in Int
  BY Numbers DEF RootSlot
<1>3. s \div SectorSlots = t \div SectorSlots
  BY <1>1, <1>2
<1>4. s = (s \div SectorSlots) * SectorSlots + (s % SectorSlots)
      /\ t = (t \div SectorSlots) * SectorSlots + (t % SectorSlots)
  BY <1>0, SlotPlace
<1> QED
  BY <1>3, <1>4

LEMMA LinkFacts ==
  ASSUME NEW n \in {1, 2}, NEW v, v.n_fats = n, NEW c \in Links
  PROVE  /\ IsLink(v, c) <=> IsLink(L(n), c)
         /\ IsLink(v, c) => c \in Cluster
         /\ IsLink(v, c) => clst2sect(v, c) \in n + RootSectors + 1 .. Sectors - 1
         /\ ~IsLink(v, 0) /\ ~IsLink(v, Eoc) /\ ~IsLink(v, 1)
         /\ IsLink(v, c) <=> (c >= 2 /\ c < n_fatent(v))
<1>0. /\ Sectors \in Nat /\ RootSectors \in Nat \ {0} /\ Sectors > 3 + RootSectors
      /\ Sectors < 4095
  BY FatFsAssumption DEF FatFsAssumption, Eoc
<1>1. n_fatent(v) = Sectors - (1 + n + RootSectors) + 2
      /\ n_fatent(L(n)) = Sectors - (1 + n + RootSectors) + 2
  BY DEF n_fatent, database, dirbase, fatbase, L
<1>2. c \in Int
  BY <1>0 DEF Links, Cluster, Eoc
<1>3. IsLink(v, c) <=> (c >= 2 /\ c < Sectors - (1 + n + RootSectors) + 2)
  BY <1>1 DEF IsLink
<1>4. ~IsLink(v, 0) /\ ~IsLink(v, Eoc) /\ ~IsLink(v, 1)
  BY <1>0, <1>1 DEF IsLink, Eoc
<1>5. IsLink(v, c) => c \in Cluster
  BY <1>0, <1>2, <1>3 DEF Cluster
<1>6. clst2sect(v, c) = 1 + n + RootSectors + c - 2
  BY DEF clst2sect, database, dirbase, fatbase
<1>7. IsLink(v, c) => clst2sect(v, c) \in n + RootSectors + 1 .. Sectors - 1
  BY <1>0, <1>2, <1>3, <1>6
<1> QED
  BY <1>1, <1>3, <1>4, <1>5, <1>7 DEF IsLink

------------------------------------------------------------------------------
(* Who owns which clusters.  Each slot of the directory does, and so does  *)
(* the file that is being saved, which has no entry yet: NoSlot.           *)

EntryIn(sector, s) == SlotsIn(sector)[s % SectorSlots]
SlotsAt(n, f) == [s \in RootSlot |-> EntryIn(f[SlotSect(L(n), s)], s)]

Owner == RootSlot \cup {NoSlot}
Starts(slots, first) == [o \in Owner |-> IF o = NoSlot THEN first ELSE slots[o].clust]

\* The sets of clusters hold what the owners' chains begin with, the table does not
\* lead out of them, and they are allocated and apart.
Owns(n, next, start, own) ==
  /\ own \in [Owner -> SUBSET Cluster]
  /\ \A o \in Owner :
       /\ IsLink(L(n), start[o]) => start[o] \in own[o]
       /\ Closed(L(n), next, own[o])
       /\ \A c \in own[o] : next[c] # 0
  /\ \A o, p \in Owner : o # p => own[o] \cap own[p] = {}
Kept(n, next, start) == \E own : Owns(n, next, start, own)

LEMMA ChainInside ==
  ASSUME NEW n \in {1, 2}, NEW v, v.n_fats = n, NEW next \in [Cluster -> Links],
         NEW c, NEW set \in SUBSET Cluster, IsLink(v, c) => c \in set,
         Closed(L(n), next, set)
  PROVE  Chain(v, next, c) \subseteq set
<1>1. Closed(v, next, set)
  BY LinkFacts DEF Closed
<1>2. CASE ~IsLink(v, c)
  BY <1>2 DEF Chain
<1>3. CASE IsLink(v, c)
  BY <1>1, <1>3 DEF Chain
<1> QED
  BY <1>2, <1>3

LEMMA NoOwner == NoSlot \in Owner /\ NoSlot \notin RootSlot
BY Numbers DEF Owner, NoSlot, RootSlot

\* An entry that refers to nothing, or no longer does.
LEMMA OwnBlank ==
  ASSUME NEW n \in {1, 2}, NEW next, NEW start, NEW own, Owns(n, next, start, own),
         NEW begin, \A o \in Owner : begin[o] \in {start[o], 0}
  PROVE  Owns(n, next, begin, own)
<1>1. ~IsLink(L(n), 0)
  BY LinkFacts DEF L, Links
<1>2. ASSUME NEW o \in Owner, IsLink(L(n), begin[o]) PROVE begin[o] \in own[o]
  BY <1>1, <1>2 DEF Owns
<1> QED
  BY <1>2 DEF Owns

\* A table that has been erased leads from no cluster to another.
LEMMA OwnErased ==
  ASSUME NEW n \in {1, 2}, NEW next \in [Cluster -> Links], NEW start, NEW own,
         Owns(n, next, start, own)
  PROVE  Kept(n, [c \in Cluster |-> Eoc], start)
<1> DEFINE eoc == [c \in Cluster |-> Eoc]
           firsts == [o \in Owner |-> own[o] \cap {start[o]}]
<1>1. ~IsLink(L(n), Eoc) /\ Eoc # 0
  BY LinkFacts DEF L, Links, Eoc
<1>2. firsts \in [Owner -> SUBSET Cluster] /\ \A o \in Owner : firsts[o] \subseteq own[o]
  BY DEF Owns
<1>3. \A o \in Owner : IsLink(L(n), start[o]) => start[o] \in firsts[o]
  BY DEF Owns
<1>4. ASSUME NEW o \in Owner
      PROVE  Closed(L(n), eoc, firsts[o]) /\ \A c \in firsts[o] : eoc[c] # 0
  <2>1. \A c \in firsts[o] : eoc[c] = Eoc
    BY <1>2
  <2> HIDE DEF eoc, firsts
  <2> QED
    BY <1>1, <2>1 DEF Closed
<1>5. \A o, p \in Owner : o # p => firsts[o] \cap firsts[p] = {}
  <2>1. \A o, p \in Owner : o # p => own[o] \cap own[p] = {}
    BY DEF Owns
  <2> HIDE DEF firsts
  <2> QED
    BY <1>2, <2>1
<1> HIDE DEF firsts, eoc
<1>6. Owns(n, eoc, start, firsts)
  BY <1>2, <1>3, <1>4, <1>5 DEF Owns
<1>7. Kept(n, eoc, start)
  BY <1>6 DEF Kept
<1> QED
  BY <1>7 DEF eoc

\* A table with another entry, and other clusters for an owner.
Put(next, c, d) == [next EXCEPT ![c] = d]
Give(own, o, set) == [own EXCEPT ![o] = set]
Swap(own, o, p) == [own EXCEPT ![o] = own[p], ![p] = own[o]]

LEMMA OwnType ==
  ASSUME NEW n, NEW next, NEW start, NEW own, Owns(n, next, start, own)
  PROVE  /\ own \in [Owner -> SUBSET Cluster]
         /\ \A p, q \in Owner : p # q => own[p] \cap own[q] = {}
         /\ \A o \in Owner : /\ IsLink(L(n), start[o]) => start[o] \in own[o]
                             /\ Closed(L(n), next, own[o])
                             /\ \A c \in own[o] : next[c] # 0
BY DEF Owns

\* Changes to what no one owns, or to one owner's own.
LEMMA OwnChange ==
  ASSUME NEW n \in {1, 2}, NEW next \in [Cluster -> Links], NEW start, NEW own,
         Owns(n, next, start, own), NEW o \in Owner,
         NEW after, NEW begin, NEW set \in SUBSET Cluster,
         \A p \in Owner \ {o} : begin[p] = start[p],
         \A p \in Owner \ {o} : set \cap own[p] = {},
         \A p \in Owner \ {o} : \A c \in own[p] : after[c] = next[c],
         IsLink(L(n), begin[o]) => begin[o] \in set,
         Closed(L(n), after, set), \A c \in set : after[c] # 0
  PROVE  Owns(n, after, begin, Give(own, o, set))
<1> DEFINE now == Give(own, o, set)
<1>0. own \in [Owner -> SUBSET Cluster] /\ \A p, q \in Owner : p # q => own[p] \cap own[q] = {}
  BY OwnType
<1>1. now \in [Owner -> SUBSET Cluster] /\ now[o] = set
      /\ \A p \in Owner : p # o => now[p] = own[p]
  BY <1>0 DEF Give
<1> HIDE DEF now
<1>2. ASSUME NEW p \in Owner
      PROVE  /\ IsLink(L(n), begin[p]) => begin[p] \in now[p]
             /\ Closed(L(n), after, now[p])
             /\ \A c \in now[p] : after[c] # 0
  <2>1. CASE p = o
    BY <1>1, <2>1
  <2>2. CASE p # o
    <3>1. now[p] = own[p] /\ begin[p] = start[p] /\ \A c \in own[p] : after[c] = next[c]
      BY <1>1, <2>2
    <3> QED
      BY <3>1 DEF Owns, Closed
  <2> QED
    BY <2>1, <2>2
<1>3. ASSUME NEW p \in Owner, NEW q \in Owner, p # q PROVE now[p] \cap now[q] = {}
  BY <1>0, <1>1, <1>3
<1>4. Owns(n, after, begin, now)
  BY <1>1, <1>2, <1>3 DEF Owns
<1> QED
  BY <1>4 DEF now

\* Clusters are freed that their owner no longer refers to.
LEMMA OwnFree ==
  ASSUME NEW n \in {1, 2}, NEW next \in [Cluster -> Links], NEW start, NEW own,
         Owns(n, next, start, own), NEW o \in Owner, ~IsLink(L(n), start[o]),
         NEW set, set \subseteq own[o]
  PROVE  Owns(n, Without(next, set), start, Give(own, o, {}))
<1> DEFINE after == Without(next, set)
<1>0. own \in [Owner -> SUBSET Cluster] /\ \A p, q \in Owner : p # q => own[p] \cap own[q] = {}
  BY OwnType
<1>1. ASSUME NEW p \in Owner \ {o}, NEW c \in own[p] PROVE after[c] = next[c]
  <2>1. c \in Cluster /\ c \notin own[o]
    BY <1>0
  <2> QED
    BY <2>1 DEF Without
<1> HIDE DEF after
<1>2. Closed(L(n), after, {})
  BY DEF Closed
<1>3. Owns(n, after, start, Give(own, o, {}))
  BY <1>1, <1>2, OwnChange
<1> QED
  BY <1>3 DEF after

\* A cluster that no one owns is marked.
LEMMA OwnMark ==
  ASSUME NEW n \in {1, 2}, NEW next \in [Cluster -> Links], NEW start,
         NEW own, Owns(n, next, start, own), NEW c \in Cluster, next[c] = 0
  PROVE  Owns(n, Put(next, c, Eoc), start, own)
<1> DEFINE after == Put(next, c, Eoc)
<1>1. own \in [Owner -> SUBSET Cluster] /\ \A p \in Owner : c \notin own[p]
  BY DEF Owns
<1>2. \A d \in Cluster : d # c => after[d] = next[d]
  BY DEF Put
<1> HIDE DEF after
<1>3. \A p \in Owner : \A d \in own[p] : after[d] = next[d]
  BY <1>1, <1>2
<1>4. \A p \in Owner : Closed(L(n), after, own[p]) /\ \A d \in own[p] : after[d] # 0
  BY <1>3 DEF Owns, Closed
<1>5. Owns(n, after, start, own)
  BY <1>4 DEF Owns
<1> QED
  BY <1>5 DEF after

\* A new chain of one cluster.
LEMMA OwnAlloc ==
  ASSUME NEW n \in {1, 2}, NEW next \in [Cluster -> Links], NEW start,
         NEW own, Owns(n, next, start, own), NEW o \in Owner, NEW c \in Cluster, next[c] = 0,
         NEW begin, begin[o] = c, \A p \in Owner \ {o} : begin[p] = start[p]
  PROVE  Owns(n, Put(next, c, Eoc), begin, Give(own, o, {c}))
<1> DEFINE after == Put(next, c, Eoc)
           set == {c}
<1>1. after[c] = Eoc /\ \A d \in Cluster : d # c => after[d] = next[d]
  BY DEF Put
<1>2. ~IsLink(L(n), Eoc) /\ Eoc # 0
  BY LinkFacts DEF L, Links, Eoc
<1> HIDE DEF after
<1>3. \A p \in Owner : c \notin own[p] /\ own[p] \subseteq Cluster
  BY DEF Owns
<1>4. Closed(L(n), after, set)
  BY <1>1, <1>2 DEF Closed
<1>5. set \in SUBSET Cluster /\ (IsLink(L(n), begin[o]) => begin[o] \in set)
  OBVIOUS
<1>6. ASSUME NEW p \in Owner \ {o}
      PROVE  set \cap own[p] = {} /\ \A d \in own[p] : after[d] = next[d]
  BY <1>1, <1>3
<1>7. \A d \in set : after[d] # 0
  BY <1>1, <1>2
<1> HIDE DEF set
<1>8. Owns(n, after, begin, Give(own, o, set))
  BY <1>4, <1>5, <1>6, <1>7, OwnChange
<1> QED
  BY <1>8 DEF after, set

\* One more cluster for a chain.
LEMMA OwnExtend ==
  ASSUME NEW n \in {1, 2}, NEW next \in [Cluster -> Links], NEW start,
         NEW own, Owns(n, next, start, own), NEW o \in Owner, NEW d \in own[o],
         NEW c \in Cluster, next[c] = 0
  PROVE  Owns(n, Put(Put(next, c, Eoc), d, c), start, Give(own, o, own[o] \cup {c}))
<1> DEFINE after == Put(Put(next, c, Eoc), d, c)
           set == own[o] \cup {c}
<1>0. own \in [Owner -> SUBSET Cluster] /\ d \in Cluster /\ c # d
      /\ \A p, q \in Owner : p # q => own[p] \cap own[q] = {}
  BY DEF Owns
<1>1. /\ after[c] = Eoc /\ after[d] = c
      /\ \A e \in Cluster : e # c /\ e # d => after[e] = next[e]
  BY <1>0 DEF Put
<1>2. c # 0
  BY Numbers DEF Cluster
<1>3. ~IsLink(L(n), Eoc) /\ Eoc # 0
  BY LinkFacts DEF L, Links, Eoc
<1> HIDE DEF after
<1>4. \A p \in Owner : c \notin own[p] /\ own[p] \subseteq Cluster
  BY DEF Owns
<1>5. Closed(L(n), after, set)
  BY <1>0, <1>1, <1>3 DEF Closed, Owns
<1>6. \A e \in set : after[e] # 0
  BY <1>0, <1>1, <1>2, <1>3 DEF Owns
<1>7. set \in SUBSET Cluster /\ (IsLink(L(n), start[o]) => start[o] \in set)
  BY <1>0 DEF Owns
<1>8. ASSUME NEW p \in Owner \ {o}
      PROVE  set \cap own[p] = {} /\ \A e \in own[p] : after[e] = next[e]
  BY <1>0, <1>1, <1>4
<1> HIDE DEF set
<1>9. Owns(n, after, start, Give(own, o, set))
  BY <1>5, <1>6, <1>7, <1>8, OwnChange
<1> QED
  BY <1>9 DEF after, set

\* Two owners exchange their chains, of which one need not be referred to.
LEMMA OwnSwap ==
  ASSUME NEW n \in {1, 2}, NEW next \in [Cluster -> Links], NEW start,
         NEW own, Owns(n, next, start, own), NEW o \in Owner, NEW p \in Owner, o # p,
         NEW begin, begin[p] = start[o], begin[o] = 0,
         \A q \in Owner \ {o, p} : begin[q] = start[q]
  PROVE  Owns(n, next, begin, Swap(own, o, p))
<1> DEFINE now == Swap(own, o, p)
<1>0. own \in [Owner -> SUBSET Cluster] /\ \A q, r \in Owner : q # r => own[q] \cap own[r] = {}
  BY OwnType
<1>1. now \in [Owner -> SUBSET Cluster] /\ now[o] = own[p] /\ now[p] = own[o]
      /\ \A q \in Owner : q # o /\ q # p => now[q] = own[q]
  BY <1>0 DEF Swap
<1>2. ~IsLink(L(n), 0)
  BY LinkFacts DEF L, Links
<1> HIDE DEF now
<1>3. ASSUME NEW q \in Owner
      PROVE  /\ IsLink(L(n), begin[q]) => begin[q] \in now[q]
             /\ Closed(L(n), next, now[q])
             /\ \A c \in now[q] : next[c] # 0
  <2>1. CASE q = o
    BY <1>1, <1>2, <2>1, OwnType
  <2>2. CASE q = p
    BY <1>1, <2>2, OwnType
  <2>3. CASE q # o /\ q # p
    BY <1>1, <2>3, OwnType
  <2> QED
    BY <2>1, <2>2, <2>3
<1>4. ASSUME NEW q \in Owner, NEW r \in Owner, q # r PROVE now[q] \cap now[r] = {}
  BY <1>0, <1>1, <1>4
<1>5. Owns(n, next, begin, now)
  BY <1>1, <1>3, <1>4 DEF Owns
<1> QED
  BY <1>5 DEF now

------------------------------------------------------------------------------
(* A flash with n tables on which every file is whole, or lost as a whole  *)

Placed(n, f) ==
  /\ f = [s \in Disk |-> f[s]]
  /\ f[0] \in {Erased, Boot(n)}
  /\ IsTable(f[1])
  /\ \A s \in DirSects(n) : IsDir(f[s])
  /\ f[0] = Erased => \A s \in Disk : f[s] = Erased

Sound(n, f) == Placed(n, f) /\ Kept(n, NextIn(f[1]), Starts(SlotsAt(n, f), 0))

LEMMA PlacedFacts ==
  ASSUME NEW n \in {1, 2}, NEW f, Placed(n, f)
  PROVE  /\ DOMAIN f = Disk
         /\ NextIn(f[1]) \in [Cluster -> Links]
         /\ \A s \in RootSlot : SlotsAt(n, f)[s].clust \in {0} \cup Cluster
<1>1. NextIn(f[1]) \in [Cluster -> Links]
  BY NextInType DEF Placed
<1>2. ASSUME NEW s \in RootSlot PROVE SlotsAt(n, f)[s].clust \in {0} \cup Cluster
  <2>1. L(n).n_fats = n
    BY DEF L
  <2>2. SlotSect(L(n), s) \in DirSects(n) /\ s % SectorSlots \in SlotIndex
    BY <2>1, SlotPlace
  <2>3. IsDir(f[SlotSect(L(n), s)])
    BY <2>2 DEF Placed
  <2> QED
    BY <2>2, <2>3 DEF SlotsAt, IsDir, EntryIn
<1> QED
  BY <1>1, <1>2 DEF Placed

LEMMA SlotsAtIs ==
  ASSUME NEW n \in {1, 2}, NEW f, NEW v, v.n_fats = n, NEW s \in RootSlot
  PROVE  SlotsAt(n, f)[s] = EntryIn(f[SlotSect(v, s)], s)
BY SlotPlace DEF SlotsAt

\* Nothing but the boot sector, the first table and the directory is looked at.
LEMMA SoundSame ==
  ASSUME NEW n \in {1, 2}, NEW f, NEW g, f[0] # Erased,
         g = [s \in Disk |-> g[s]], g[0] = f[0], g[1] = f[1],
         \A s \in DirSects(n) : g[s] = f[s]
  PROVE  /\ Placed(n, f) => Placed(n, g)
         /\ SlotsAt(n, g) = SlotsAt(n, f)
         /\ Sound(n, f) => Sound(n, g)
<1>1. Placed(n, f) => Placed(n, g)
  BY DEF Placed
<1>2. ASSUME NEW s \in RootSlot
      PROVE  EntryIn(g[SlotSect(L(n), s)], s) = EntryIn(f[SlotSect(L(n), s)], s)
  <2>1. L(n).n_fats = n
    BY DEF L
  <2>2. SlotSect(L(n), s) \in DirSects(n)
    BY <2>1, SlotPlace
  <2> QED
    BY <2>2
<1>3. SlotsAt(n, g) = SlotsAt(n, f)
  BY <1>2 DEF SlotsAt
<1> QED
  BY <1>1, <1>3 DEF Sound

\* A sector of data, or the second table.
LEMMA SoundData ==
  ASSUME NEW n \in {1, 2}, NEW f, Sound(n, f), f[0] # Erased, NEW s \in Disk, s # 0, s # 1,
         s \notin DirSects(n), NEW x
  PROVE  Sound(n, [f EXCEPT ![s] = x])
<1> DEFINE g == [f EXCEPT ![s] = x]
<1>1. DOMAIN f = Disk
  BY PlacedFacts DEF Sound
<1>2. g = [t \in Disk |-> g[t]] /\ g[s] = x /\ \A t \in Disk : t # s => g[t] = f[t]
  BY <1>1
<1> HIDE DEF g
<1>3. g[0] = f[0] /\ g[1] = f[1] /\ \A t \in DirSects(n) : g[t] = f[t]
  BY <1>2, Numbers
<1>4. Sound(n, g)
  BY <1>2, <1>3, SoundSame
<1> QED
  BY <1>4 DEF g

\* The table.
LEMMA SoundTable ==
  ASSUME NEW n \in {1, 2}, NEW f, Placed(n, f), f[0] # Erased, NEW x, IsTable(x),
         Kept(n, NextIn(x), Starts(SlotsAt(n, f), 0))
  PROVE  Sound(n, [f EXCEPT ![1] = x]) /\ SlotsAt(n, [f EXCEPT ![1] = x]) = SlotsAt(n, f)
<1> DEFINE g == [f EXCEPT ![1] = x]
<1>1. DOMAIN f = Disk
  BY PlacedFacts
<1>2. g = [t \in Disk |-> g[t]] /\ g[1] = x /\ \A t \in Disk : t # 1 => g[t] = f[t]
  BY <1>1, Numbers
<1> HIDE DEF g
<1>3. g[0] = f[0] /\ \A t \in DirSects(n) : g[t] = f[t]
  BY <1>2, Numbers
<1>4. Placed(n, g)
  BY <1>2, <1>3 DEF Placed
<1>5. ASSUME NEW s \in RootSlot
      PROVE  EntryIn(g[SlotSect(L(n), s)], s) = EntryIn(f[SlotSect(L(n), s)], s)
  <2>1. L(n).n_fats = n
    BY DEF L
  <2>2. SlotSect(L(n), s) \in DirSects(n)
    BY <2>1, SlotPlace
  <2> QED
    BY <1>3, <2>2
<1>6. SlotsAt(n, g) = SlotsAt(n, f)
  BY <1>5 DEF SlotsAt
<1>7. Sound(n, g)
  BY <1>2, <1>4, <1>6 DEF Sound
<1> QED
  BY <1>6, <1>7 DEF g

\* A sector of the directory.
LEMMA SlotsOfDir ==
  ASSUME NEW n \in {1, 2}, NEW f, Placed(n, f), f[0] # Erased, NEW sect \in DirSects(n),
         NEW g, g = [t \in Disk |-> g[t]], IsDir(g[sect]),
         \A t \in Disk \ {sect} : g[t] = f[t]
  PROVE  /\ Placed(n, g) /\ g[1] = f[1] /\ g[0] = f[0]
         /\ \A s \in RootSlot :
              /\ SlotSect(L(n), s) = sect => SlotsAt(n, g)[s] = EntryIn(g[sect], s)
              /\ SlotSect(L(n), s) # sect => SlotsAt(n, g)[s] = SlotsAt(n, f)[s]
<1>1. sect \in Disk /\ sect # 0 /\ sect # 1 /\ 0 \in Disk /\ 1 \in Disk
  BY Numbers
<1>2. g[0] = f[0] /\ g[1] = f[1]
  BY <1>1
<1>3. \A s \in DirSects(n) : IsDir(g[s])
  BY Numbers DEF Placed
<1>4. Placed(n, g)
  BY <1>2, <1>3 DEF Placed
<1>5. ASSUME NEW s \in RootSlot
      PROVE  /\ SlotSect(L(n), s) = sect => SlotsAt(n, g)[s] = EntryIn(g[sect], s)
             /\ SlotSect(L(n), s) # sect => SlotsAt(n, g)[s] = SlotsAt(n, f)[s]
  <2>1. L(n).n_fats = n
    BY DEF L
  <2>2. SlotSect(L(n), s) \in Disk
    BY <2>1, SlotPlace, Numbers
  <2> QED
    BY <2>2 DEF SlotsAt
<1> QED
  BY <1>2, <1>4, <1>5

\* Some of whose entries are gone.
LEMMA SoundBlanked ==
  ASSUME NEW n \in {1, 2}, NEW f, Sound(n, f), f[0] # Erased, NEW sect \in DirSects(n),
         NEW x, IsDir(x),
         \A i \in SlotIndex : SlotsIn(x)[i].clust \in {SlotsIn(f[sect])[i].clust, 0}
  PROVE  Sound(n, [f EXCEPT ![sect] = x])
<1> DEFINE g == [f EXCEPT ![sect] = x]
           begin == Starts(SlotsAt(n, g), 0)
           start == Starts(SlotsAt(n, f), 0)
<1>0. Placed(n, f) /\ DOMAIN f = Disk /\ sect \in Disk
  BY PlacedFacts, Numbers DEF Sound
<1>1. g = [t \in Disk |-> g[t]] /\ g[sect] = x /\ \A t \in Disk \ {sect} : g[t] = f[t]
  BY <1>0
<1> HIDE DEF g
<1>2. /\ Placed(n, g) /\ g[1] = f[1]
      /\ \A s \in RootSlot :
              /\ SlotSect(L(n), s) = sect => SlotsAt(n, g)[s] = EntryIn(x, s)
              /\ SlotSect(L(n), s) # sect => SlotsAt(n, g)[s] = SlotsAt(n, f)[s]
  BY <1>0, <1>1, SlotsOfDir
<1>3. ASSUME NEW o \in Owner PROVE begin[o] \in {start[o], 0}
  <2>1. CASE o = NoSlot
    BY <2>1 DEF Starts
  <2>2. CASE o # NoSlot
    <3>1. o \in RootSlot /\ L(n).n_fats = n
      BY <2>2 DEF Owner, L
    <3>2. begin[o] = SlotsAt(n, g)[o].clust /\ start[o] = SlotsAt(n, f)[o].clust
      BY <2>2 DEF Starts
    <3>3. CASE SlotSect(L(n), o) = sect
      <4>1. SlotsAt(n, g)[o] = EntryIn(x, o) /\ o % SectorSlots \in SlotIndex
        BY <1>2, <3>1, <3>3, SlotPlace
      <4>2. SlotsAt(n, f)[o] = EntryIn(f[sect], o)
        BY <3>1, <3>3 DEF SlotsAt
      <4> QED
        BY <3>2, <4>1, <4>2 DEF EntryIn
    <3>4. CASE SlotSect(L(n), o) # sect
      BY <1>2, <3>1, <3>2, <3>4
    <3> QED
      BY <3>3, <3>4
  <2> QED
    BY <2>1, <2>2
<1> HIDE DEF begin, start
<1>4. PICK own : Owns(n, NextIn(f[1]), start, own)
  BY DEF Sound, Kept, start
<1>5. Owns(n, NextIn(f[1]), begin, own)
  BY <1>3, <1>4, OwnBlank
<1>6. Kept(n, NextIn(g[1]), Starts(SlotsAt(n, g), 0))
  BY <1>2, <1>5 DEF Kept, begin
<1>7. Sound(n, g)
  BY <1>2, <1>6 DEF Sound
<1> QED
  BY <1>7 DEF g

\* A sector is erased before it is programmed.
LEMMA SoundTorn ==
  ASSUME NEW n \in {1, 2}, NEW f, Sound(n, f), NEW s \in Disk, f[0] = Erased \/ s # 0
  PROVE  Sound(n, [f EXCEPT ![s] = Erased])
<1>0. DOMAIN f = Disk /\ f = [t \in Disk |-> f[t]] /\ NextIn(f[1]) \in [Cluster -> Links]
  BY PlacedFacts DEF Sound, Placed
<1>1. CASE f[0] = Erased
  <2>1. \A t \in Disk : f[t] = Erased
    BY <1>1 DEF Sound, Placed
  <2>2. [f EXCEPT ![s] = Erased] = f
    BY <1>0, <2>1
  <2> QED
    BY <2>2
<1>2. CASE f[0] # Erased /\ s = 1
  <2>1. PICK own : Owns(n, NextIn(f[1]), Starts(SlotsAt(n, f), 0), own)
    BY DEF Sound, Kept
  <2>2. Kept(n, NextIn(Erased), Starts(SlotsAt(n, f), 0))
    BY <1>0, <2>1, OwnErased, ErasedFacts
  <2> QED
    BY <1>2, <2>2, SoundTable, ErasedFacts DEF Sound
<1>3. CASE f[0] # Erased /\ s \in DirSects(n)
  <2>1. \A i \in SlotIndex : SlotsIn(Erased)[i].clust = 0
    BY ErasedFacts DEF EmptyEntry, Entry
  <2> QED
    BY <1>3, <2>1, SoundBlanked, ErasedFacts
<1>4. CASE f[0] # Erased /\ s # 1 /\ s \notin DirSects(n)
  BY <1>4, SoundData
<1> QED
  BY <1>1, <1>2, <1>3, <1>4

LEMMA LayoutOf ==
  ASSUME NEW n \in {1, 2}, NEW f, f[0] = Boot(n)
  PROVE  /\ Layout(f) = L(n) /\ Layout(f).n_fats = n
         /\ TableOf(f) = NextIn(f[1])
         /\ SlotsOf(f) = SlotsAt(n, f)
<1>1. Boot(n) # Erased /\ Boot(n).n_fats = n
  BY BootFacts
<1>2. Layout(f) = L(n) /\ L(n).n_fats = n
  BY <1>1 DEF Layout, L
<1>3. SlotsOf(f) = SlotsAt(n, f)
  BY <1>2 DEF SlotsOf, SlotOf, SlotsAt, EntryIn
<1> QED
  BY <1>2, <1>3 DEF TableOf, fatbase

LEMMA SoundIntact ==
  ASSUME NEW n \in {1, 2}, Sound(n, flash)
  PROVE  Intact
<1>1. SUFFICES ASSUME flash[0] # Erased PROVE Intact
  BY DEF Intact
<1> DEFINE next == NextIn(flash[1])
           slots == SlotsAt(n, flash)
           Owned(s) == Chain(L(n), next, slots[s].clust)
<1>2. flash[0] = Boot(n) /\ next \in [Cluster -> Links] /\ L(n).n_fats = n
  BY <1>1, PlacedFacts DEF Sound, Placed, L
<1>3. PICK own : Owns(n, next, Starts(slots, 0), own)
  BY DEF Sound, Kept
<1>4. own \in [Owner -> SUBSET Cluster] /\ \A o, p \in Owner : o # p => own[o] \cap own[p] = {}
  BY <1>3 DEF Owns
<1> HIDE DEF next, slots
<1>5. ASSUME NEW s \in RootSlot
      PROVE  s \in Owner /\ Owned(s) \subseteq own[s] /\ \A c \in own[s] : next[c] # 0
  <2>1. s \in Owner /\ Starts(slots, 0)[s] = slots[s].clust
    BY NoOwner DEF Starts, Owner
  <2>2. /\ IsLink(L(n), slots[s].clust) => slots[s].clust \in own[s]
        /\ Closed(L(n), next, own[s]) /\ \A c \in own[s] : next[c] # 0
    BY <1>3, <2>1 DEF Owns
  <2>3. own[s] \in SUBSET Cluster
    BY <1>4, <2>1
  <2>4. Chain(L(n), next, slots[s].clust) \subseteq own[s]
    BY <1>2, <2>2, <2>3, ChainInside
  <2> QED
    BY <2>1, <2>2, <2>4
<1>6. ASSUME NEW s \in RootSlot, NEW c \in Owned(s)
      PROVE  next[c] # 0 /\ \A t \in RootSlot : s # t => c \notin Owned(t)
  <2> HIDE DEF Owned
  <2> QED
    BY <1>4, <1>5
<1>7. Layout(flash) = L(n) /\ TableOf(flash) = next /\ SlotsOf(flash) = slots
  BY <1>2, LayoutOf DEF next, slots
<1> QED
  BY <1>6, <1>7 DEF Intact

------------------------------------------------------------------------------
(* Writes that have been asked for, of which any number may get done *)

Final(f, w) == After(f, w, Len(w))

Pending(n, f, w) ==
  /\ IsSeq(w)
  /\ \A i \in 1 .. Len(w) :
       w[i].sect \in Disk /\ (w[i].sect = 0 => i = 1 /\ f[0] = Erased)
  /\ \A k \in 0 .. Len(w) : Sound(n, After(f, w, k))

LEMMA PendingNone ==
  ASSUME NEW n \in {1, 2}, NEW f, Sound(n, f)
  PROVE  Pending(n, f, <<>>) /\ Final(f, <<>>) = f
<1>1. IsSeq(<<>>) /\ Len(<<>>) = 0
  BY EmptyIsSeq
<1>2. After(f, <<>>, 0) = f
  BY AfterZero DEF Sound, Placed
<1> QED
  BY <1>1, <1>2 DEF Pending, Final

LEMMA PendingFirst ==
  ASSUME NEW n \in {1, 2}, NEW f, NEW w, Pending(n, f, w), f = [s \in Disk |-> f[s]]
  PROVE  /\ Sound(n, f) /\ Sound(n, Final(f, w))
         /\ w = <<>> => Final(f, w) = f
<1>1. Len(w) \in Nat
  BY SeqFacts DEF Pending
<1>2. After(f, w, 0) = f
  BY AfterZero
<1>3. w = <<>> => Len(w) = 0
  BY EmptyIsSeq
<1> QED
  BY <1>1, <1>2, <1>3 DEF Pending, Final

LEMMA PendingTail ==
  ASSUME NEW n \in {1, 2}, NEW f, NEW w, Pending(n, f, w), w # <<>>
  PROVE  /\ Pending(n, [f EXCEPT ![w[1].sect] = w[1].content], Tail(w))
         /\ Final([f EXCEPT ![w[1].sect] = w[1].content], Tail(w)) = Final(f, w)
<1> DEFINE g == [f EXCEPT ![w[1].sect] = w[1].content]
           t == Tail(w)
<1>1. /\ IsSeq(w) /\ IsSeq(t) /\ Len(w) \in Nat /\ Len(w) >= 1 /\ Len(t) = Len(w) - 1
      /\ \A i \in 1 .. Len(w) - 1 : t[i] = w[i + 1]
  BY TailFacts, SeqFacts DEF Pending
<1>2. \A k \in 0 .. Len(w) - 1 : After(g, t, k) = After(f, w, k + 1)
  BY <1>1, AfterTail
<1> HIDE DEF g, t
<1>3. ASSUME NEW i \in 1 .. Len(t) PROVE t[i].sect \in Disk /\ t[i].sect # 0
  <2>1. i + 1 \in 1 .. Len(w) /\ i + 1 # 1 /\ t[i] = w[i + 1]
    BY <1>1
  <2> QED
    BY <2>1 DEF Pending
<1>4. ASSUME NEW k \in 0 .. Len(t) PROVE Sound(n, After(g, t, k))
  <2>1. k \in 0 .. Len(w) - 1 /\ k + 1 \in 0 .. Len(w)
    BY <1>1
  <2> QED
    BY <1>2, <2>1 DEF Pending
<1>5. Pending(n, g, t)
  BY <1>1, <1>3, <1>4 DEF Pending
<1>6. After(g, t, Len(t)) = After(f, w, (Len(w) - 1) + 1) /\ (Len(w) - 1) + 1 = Len(w)
  BY <1>1, <1>2
<1>7. Final(g, t) = Final(f, w)
  BY <1>6 DEF Final
<1> QED
  BY <1>5, <1>7 DEF g, t

\* A sector of which the write is not yet done.
LEMMA PendingTorn ==
  ASSUME NEW n \in {1, 2}, NEW f, NEW w, Pending(n, f, w), w # <<>>, NEW x,
         Sound(n, [f EXCEPT ![w[1].sect] = x]), w[1].sect = 0 => x = Erased
  PROVE  /\ Pending(n, [f EXCEPT ![w[1].sect] = x], w)
         /\ Final([f EXCEPT ![w[1].sect] = x], w) = Final(f, w)
<1> DEFINE g == [f EXCEPT ![w[1].sect] = x]
<1>1. IsSeq(w) /\ Len(w) \in Nat /\ Len(w) >= 1
  BY TailFacts, SeqFacts DEF Pending
<1>2. \A k \in Nat \ {0} : After(g, w, k) = After(f, w, k)
  BY AfterTorn
<1>3. g = [s \in Disk |-> g[s]]
  BY DEF Sound, Placed
<1>4. w[1].sect = 0 => g[0] = Erased
  <2>1. 0 \in DOMAIN g /\ DOMAIN g = DOMAIN f
    BY <1>3, Numbers
  <2> QED
    BY <2>1
<1>5. Sound(n, g)
  OBVIOUS
<1> HIDE DEF g
<1>6. After(g, w, 0) = g
  BY <1>3, AfterZero
<1>7. ASSUME NEW k \in 0 .. Len(w) PROVE Sound(n, After(g, w, k))
  BY <1>1, <1>2, <1>5, <1>6 DEF Pending
<1>8. ASSUME NEW i \in 1 .. Len(w)
      PROVE  w[i].sect \in Disk /\ (w[i].sect = 0 => i = 1 /\ g[0] = Erased)
  BY <1>1, <1>4 DEF Pending
<1>9. Pending(n, g, w)
  BY <1>1, <1>7, <1>8 DEF Pending
<1>10. Final(g, w) = Final(f, w)
  BY <1>1, <1>2 DEF Final
<1> QED
  BY <1>9, <1>10 DEF g

\* One more.
LEMMA PendingMore ==
  ASSUME NEW n \in {1, 2}, NEW f, NEW w, Pending(n, f, w), NEW x, x.sect \in Disk \ {0},
         Sound(n, [Final(f, w) EXCEPT ![x.sect] = x.content])
  PROVE  /\ Pending(n, f, Append(w, x))
         /\ Final(f, Append(w, x)) = [Final(f, w) EXCEPT ![x.sect] = x.content]
<1> DEFINE y == Append(w, x)
<1>1. /\ IsSeq(w) /\ Len(w) \in Nat /\ IsSeq(y) /\ Len(y) = Len(w) + 1
      /\ \A i \in 1 .. Len(w) : y[i] = w[i]
      /\ y[Len(w) + 1] = x
  BY AppendFacts, SeqFacts DEF Pending
<1> HIDE DEF y
<1>2. ASSUME NEW k \in 0 .. Len(w) PROVE After(f, y, k) = After(f, w, k)
  BY <1>1, AfterSame
<1>3. After(f, y, Len(w) + 1) = [Final(f, w) EXCEPT ![x.sect] = x.content]
  <2>1. After(f, y, Len(w)) = Final(f, w)
    BY <1>1, <1>2 DEF Final
  <2> QED
    BY <1>1, <2>1, AfterStep
<1>4. ASSUME NEW k \in 0 .. Len(y) PROVE Sound(n, After(f, y, k))
  <2>1. CASE k \in 0 .. Len(w)
    BY <1>2, <2>1 DEF Pending
  <2>2. CASE k = Len(w) + 1
    BY <1>3, <2>2
  <2> QED
    BY <1>1, <2>1, <2>2
<1>5. ASSUME NEW i \in 1 .. Len(y)
      PROVE  y[i].sect \in Disk /\ (y[i].sect = 0 => i = 1 /\ f[0] = Erased)
  <2>1. CASE i \in 1 .. Len(w)
    BY <1>1, <2>1 DEF Pending
  <2>2. CASE i = Len(w) + 1
    BY <1>1, <2>2
  <2> QED
    BY <1>1, <2>1, <2>2
<1>6. Pending(n, f, y)
  BY <1>1, <1>4, <1>5 DEF Pending
<1> QED
  BY <1>1, <1>3, <1>6 DEF Final, y

------------------------------------------------------------------------------
(* Drives *)

IsDrive(v) ==
  v = [type |-> v.type, n_fats |-> v.n_fats, winsect |-> v.winsect, win |-> v.win,
       wflag |-> v.wflag, last_clst |-> v.last_clst, disk |-> v.disk, out |-> v.out]
\* But for their windows, and whether those are dirty.
SameBut(v, w) ==
  /\ w.type = v.type /\ w.n_fats = v.n_fats /\ w.winsect = v.winsect
  /\ w.last_clst = v.last_clst /\ w.disk = v.disk /\ w.out = v.out

LEMMA DriveIs ==
  ASSUME NEW g, NEW f
  PROVE  /\ IsDrive(Drive(g, f))
         /\ Drive(g, f).type = g.type /\ Drive(g, f).n_fats = g.n_fats
         /\ Drive(g, f).winsect = g.winsect /\ Drive(g, f).win = g.win
         /\ Drive(g, f).wflag = g.wflag /\ Drive(g, f).last_clst = g.last_clst
         /\ Drive(g, f).disk = f /\ Drive(g, f).out = <<>>
BY DEF IsDrive, Drive

LEMMA FsOfIs ==
  ASSUME NEW v
  PROVE  /\ FsOf(v).type = v.type /\ FsOf(v).n_fats = v.n_fats
         /\ FsOf(v).winsect = v.winsect /\ FsOf(v).win = v.win
         /\ FsOf(v).wflag = v.wflag /\ FsOf(v).last_clst = v.last_clst
BY DEF FsOf, Unmounted

LEMMA SetWin ==
  ASSUME NEW v, IsDrive(v), NEW x
  PROVE  LET w == [v EXCEPT !.win = x] IN
         IsDrive(w) /\ SameBut(v, w) /\ w.win = x /\ w.wflag = v.wflag
BY DEF IsDrive, SameBut

LEMMA SetFlag ==
  ASSUME NEW v, IsDrive(v), NEW x
  PROVE  LET w == [v EXCEPT !.wflag = x] IN
         IsDrive(w) /\ SameBut(v, w) /\ w.win = v.win /\ w.wflag = x
BY DEF IsDrive, SameBut

LEMMA SetWinsect ==
  ASSUME NEW v, IsDrive(v), NEW x
  PROVE  LET w == [v EXCEPT !.winsect = x] IN
         /\ IsDrive(w)
         /\ w.type = v.type /\ w.n_fats = v.n_fats /\ w.winsect = x /\ w.win = v.win
         /\ w.wflag = v.wflag /\ w.last_clst = v.last_clst /\ w.disk = v.disk /\ w.out = v.out
BY DEF IsDrive

LEMMA SetType ==
  ASSUME NEW v, IsDrive(v), NEW x
  PROVE  LET w == [v EXCEPT !.type = x] IN
         /\ IsDrive(w)
         /\ w.type = x /\ w.n_fats = v.n_fats /\ w.winsect = v.winsect /\ w.win = v.win
         /\ w.wflag = v.wflag /\ w.last_clst = v.last_clst /\ w.disk = v.disk /\ w.out = v.out
BY DEF IsDrive

LEMMA SetFats ==
  ASSUME NEW v, IsDrive(v), NEW x
  PROVE  LET w == [v EXCEPT !.n_fats = x] IN
         /\ IsDrive(w)
         /\ w.type = v.type /\ w.n_fats = x /\ w.winsect = v.winsect /\ w.win = v.win
         /\ w.wflag = v.wflag /\ w.last_clst = v.last_clst /\ w.disk = v.disk /\ w.out = v.out
BY DEF IsDrive

LEMMA SetLast ==
  ASSUME NEW v, IsDrive(v), NEW x
  PROVE  LET w == [v EXCEPT !.last_clst = x] IN
         /\ IsDrive(w)
         /\ w.type = v.type /\ w.n_fats = v.n_fats /\ w.winsect = v.winsect /\ w.win = v.win
         /\ w.wflag = v.wflag /\ w.last_clst = x /\ w.disk = v.disk /\ w.out = v.out
BY DEF IsDrive

LEMMA SetDisk ==
  ASSUME NEW v, IsDrive(v), NEW x
  PROVE  LET w == [v EXCEPT !.disk = x] IN
         /\ IsDrive(w)
         /\ w.type = v.type /\ w.n_fats = v.n_fats /\ w.winsect = v.winsect /\ w.win = v.win
         /\ w.wflag = v.wflag /\ w.last_clst = v.last_clst /\ w.disk = x /\ w.out = v.out
BY DEF IsDrive

LEMMA SetOut ==
  ASSUME NEW v, IsDrive(v), NEW x
  PROVE  LET w == [v EXCEPT !.out = x] IN
         /\ IsDrive(w)
         /\ w.type = v.type /\ w.n_fats = v.n_fats /\ w.winsect = v.winsect /\ w.win = v.win
         /\ w.wflag = v.wflag /\ w.last_clst = v.last_clst /\ w.disk = v.disk /\ w.out = x
BY DEF IsDrive

LEMMA DiskWriteIs ==
  ASSUME NEW v, IsDrive(v), NEW s, NEW x
  PROVE  LET w == disk_write(v, s, x) IN
         /\ IsDrive(w)
         /\ w.type = v.type /\ w.n_fats = v.n_fats /\ w.winsect = v.winsect /\ w.win = v.win
         /\ w.wflag = v.wflag /\ w.last_clst = v.last_clst
         /\ w.disk = [v.disk EXCEPT ![s] = x]
         /\ w.out = Append(v.out, [sect |-> s, content |-> x])
<1> DEFINE u == [v EXCEPT !.disk = [v.disk EXCEPT ![s] = x]]
           y == Append(v.out, [sect |-> s, content |-> x])
           w == [u EXCEPT !.out = y]
<1>1. /\ IsDrive(u) 
      /\ u.type = v.type /\ u.n_fats = v.n_fats /\ u.winsect = v.winsect /\ u.win = v.win
      /\ u.wflag = v.wflag /\ u.last_clst = v.last_clst 
      /\ u.disk = [v.disk EXCEPT ![s] = x] /\ u.out = v.out
  BY SetDisk
<1>2. disk_write(v, s, x) = w
  <2>1. disk_write(v, s, x) = [u EXCEPT !.out = Append(@, [sect |-> s, content |-> x])]
    BY DEF disk_write
  <2> HIDE DEF u
  <2>2. [u EXCEPT !.out = Append(@, [sect |-> s, content |-> x])] =
          [u EXCEPT !.out = Append(u.out, [sect |-> s, content |-> x])]
    OBVIOUS
  <2>3. u.out = v.out
    BY <1>1
  <2> QED
    BY <2>1, <2>2, <2>3
<1>y. y = Append(v.out, [sect |-> s, content |-> x])
  OBVIOUS
<1> HIDE DEF u, y
<1>3. /\ IsDrive(w) /\ w.type = u.type /\ w.n_fats = u.n_fats /\ w.winsect = u.winsect
      /\ w.win = u.win /\ w.wflag = u.wflag /\ w.last_clst = u.last_clst /\ w.disk = u.disk
      /\ w.out = y
  BY <1>1, SetOut
<1> HIDE DEF w
<1> QED
  BY <1>1, <1>2, <1>3, <1>y

Shown(v, s, x) == [v EXCEPT !.win = x, !.winsect = s]
LEMMA ShownIs ==
  ASSUME NEW v, IsDrive(v), NEW s, NEW x
  PROVE  LET w == Shown(v, s, x) IN
         /\ IsDrive(w)
         /\ w.type = v.type /\ w.n_fats = v.n_fats /\ w.winsect = s /\ w.win = x
         /\ w.wflag = v.wflag /\ w.last_clst = v.last_clst /\ w.disk = v.disk /\ w.out = v.out
<1> DEFINE u == [v EXCEPT !.win = x]
           w == [u EXCEPT !.winsect = s]
<1>1. IsDrive(u) /\ SameBut(v, u) /\ u.win = x /\ u.wflag = v.wflag
  BY SetWin
<1>2. Shown(v, s, x) = w
  BY DEF Shown
<1> HIDE DEF u
<1>3. /\ IsDrive(w) /\ w.type = u.type /\ w.n_fats = u.n_fats /\ w.winsect = s
      /\ w.win = u.win /\ w.wflag = u.wflag /\ w.last_clst = u.last_clst /\ w.disk = u.disk
      /\ w.out = u.out
  BY <1>1, SetWinsect
<1> HIDE DEF w
<1> QED
  BY <1>1, <1>2, <1>3 DEF SameBut

Dirtied(v, x) == [v EXCEPT !.win = x, !.wflag = TRUE]
LEMMA DirtiedIs ==
  ASSUME NEW v, IsDrive(v), NEW x
  PROVE  LET w == Dirtied(v, x) IN
         IsDrive(w) /\ SameBut(v, w) /\ w.win = x /\ w.wflag = TRUE
<1> DEFINE u == [v EXCEPT !.win = x]
           w == [u EXCEPT !.wflag = TRUE]
<1>1. IsDrive(u) /\ SameBut(v, u) /\ u.win = x
  BY SetWin
<1>2. Dirtied(v, x) = w
  BY DEF Dirtied
<1> HIDE DEF u
<1>3. IsDrive(w) /\ SameBut(u, w) /\ w.win = u.win /\ w.wflag = TRUE
  BY <1>1, SetFlag
<1> HIDE DEF w
<1> QED
  BY <1>1, <1>2, <1>3 DEF SameBut

------------------------------------------------------------------------------
(* What the program sees of the flash, through the window and its writes   *)

Meta(n) == {0, 1} \cup DirSects(n)
Seen(v) == [s \in Disk |-> IF s = v.winsect THEN v.win ELSE v.disk[s]]
Alike(n, f, g) == \A s \in Meta(n) : g[s] = f[s]
Tab(v) == NextIn(Seen(v)[1])
Dir(n, v) == SlotsAt(n, Seen(v))

\* A mounted drive that asks for no write, from flash on, that could lose a file.
Ready(n, flash0, v) ==
  /\ IsDrive(v) /\ v.type = 12 /\ v.n_fats = n
  /\ v.winsect \in Meta(n) /\ v.last_clst \in Int /\ v.wflag \in BOOLEAN
  /\ v.wflag => v.winsect # 0
  /\ ~v.wflag => v.win = v.disk[v.winsect]
  /\ Pending(n, flash0, v.out) /\ v.disk = Final(flash0, v.out)
  /\ v.disk[0] = Boot(n) /\ Sound(n, Seen(v))

LEMMA MetaFacts ==
  ASSUME NEW n \in {1, 2}
  PROVE  /\ Meta(n) \subseteq Disk /\ 0 \in Meta(n) /\ 1 \in Meta(n)
         /\ \A s \in DirSects(n) : s \in Meta(n) /\ s # 0 /\ s # 1
         /\ n = 2 => 2 \in Disk \ Meta(n)
         /\ \A s \in n + RootSectors + 1 .. Sectors - 1 : s \in Disk \ Meta(n)
<1>1. /\ Sectors \in Nat /\ RootSectors \in Nat \ {0}
      /\ 0 \in Disk /\ 1 \in Disk /\ 2 \in Disk
      /\ DirSects(n) \subseteq Disk /\ 0 \notin DirSects(n) /\ 1 \notin DirSects(n)
      /\ n = 2 => 2 \notin DirSects(n)
  BY Numbers
<1>2. \A s \in n + RootSectors + 1 .. Sectors - 1 :
        s \in Disk /\ s # 0 /\ s # 1 /\ s \notin DirSects(n)
  BY <1>1 DEF Disk, DirSects
<1> QED
  BY <1>1, <1>2 DEF Meta

LEMMA ReadyFacts ==
  ASSUME NEW n \in {1, 2}, NEW F, NEW v, Ready(n, F, v)
  PROVE  /\ Sound(n, v.disk) /\ DOMAIN v.disk = Disk /\ v.disk = [s \in Disk |-> v.disk[s]]
         /\ v.winsect \in Disk
         /\ Seen(v)[0] = Boot(n) /\ Seen(v)[0] # Erased
         /\ Seen(v)[v.winsect] = v.win
         /\ ~v.wflag => Seen(v) = v.disk
         /\ Seen(v) = [s \in Disk |-> Seen(v)[s]]
         /\ Tab(v) \in [Cluster -> Links]
         /\ \A s \in RootSlot : Dir(n, v)[s].clust \in {0} \cup Cluster
         /\ Dir(n, v) = [s \in RootSlot |-> Dir(n, v)[s]]
<1>1. Sound(n, v.disk)
  <2>1. Len(v.out) \in Nat
    BY SeqFacts DEF Ready, Pending
  <2> QED
    BY <2>1 DEF Ready, Pending, Final
<1>2. DOMAIN v.disk = Disk /\ v.disk = [s \in Disk |-> v.disk[s]]
  BY <1>1, PlacedFacts DEF Sound, Placed
<1>3. v.winsect \in Disk /\ 0 \in Disk /\ v.wflag \in BOOLEAN
  BY MetaFacts DEF Ready
<1>4. Seen(v)[0] = Boot(n)
  <2>1. CASE v.winsect = 0
    <3>1. ~v.wflag
      BY <2>1 DEF Ready
    <3>2. v.win = v.disk[0]
      BY <2>1, <3>1 DEF Ready
    <3> QED
      BY <1>3, <2>1, <3>2 DEF Seen, Ready
  <2>2. CASE v.winsect # 0
    BY <1>3, <2>2 DEF Seen, Ready
  <2> QED
    BY <2>1, <2>2
<1>5. Boot(n) # Erased
  BY BootFacts
<1>6. ~v.wflag => Seen(v) = v.disk
  <2>1. SUFFICES ASSUME ~v.wflag PROVE Seen(v) = v.disk
    OBVIOUS
  <2>2. v.win = v.disk[v.winsect]
    BY <2>1 DEF Ready
  <2>3. \A s \in Disk : (IF s = v.winsect THEN v.win ELSE v.disk[s]) = v.disk[s]
    BY <2>2
  <2> QED
    BY <1>2, <2>3 DEF Seen
<1>7. Placed(n, Seen(v))
  BY DEF Ready, Sound
<1>8. /\ Tab(v) \in [Cluster -> Links]
      /\ \A s \in RootSlot : Dir(n, v)[s].clust \in {0} \cup Cluster
  BY <1>7, PlacedFacts DEF Tab, Dir
<1>9. Seen(v) = [s \in Disk |-> Seen(v)[s]] /\ Seen(v)[v.winsect] = v.win
  BY <1>3 DEF Seen
<1>10. Dir(n, v) = [s \in RootSlot |-> Dir(n, v)[s]]
  BY DEF Dir, SlotsAt
<1> QED
  BY <1>1, <1>2, <1>3, <1>4, <1>5, <1>6, <1>8, <1>9, <1>10

LEMMA ReadySeen ==
  ASSUME NEW n \in {1, 2}, NEW F, NEW v, Ready(n, F, v)
  PROVE  /\ Seen(v)[0] = Boot(n) /\ Seen(v)[0] # Erased
         /\ Placed(n, Seen(v)) /\ Sound(n, Seen(v)) /\ DOMAIN Seen(v) = Disk
<1>1. Sound(n, Seen(v)) /\ Placed(n, Seen(v))
  BY DEF Ready, Sound
<1>2. Seen(v)[0] = Boot(n)
  BY ReadyFacts, ZenonT(30)
<1>3. Seen(v)[0] # Erased
  BY ReadyFacts, ZenonT(30)
<1> QED
  BY <1>1, <1>2, <1>3, PlacedFacts

LEMMA AlikeFacts ==
  ASSUME NEW n \in {1, 2}, NEW v, NEW w, Alike(n, Seen(v), Seen(w)), Seen(v)[0] # Erased
  PROVE  Tab(w) = Tab(v) /\ Dir(n, w) = Dir(n, v) /\ (Sound(n, Seen(v)) => Sound(n, Seen(w)))
<1>1. /\ Seen(w)[0] = Seen(v)[0] /\ Seen(w)[1] = Seen(v)[1]
      /\ \A s \in DirSects(n) : Seen(w)[s] = Seen(v)[s]
  BY MetaFacts DEF Alike
<1>2. Seen(w) = [s \in Disk |-> Seen(w)[s]]
  BY DEF Seen
<1>3. /\ SlotsAt(n, Seen(w)) = SlotsAt(n, Seen(v))
      /\ Sound(n, Seen(v)) => Sound(n, Seen(w))
  BY <1>1, <1>2, SoundSame
<1> QED
  BY <1>1, <1>3 DEF Tab, Dir

\* Data, and the second table, are not looked at.
LEMMA DataReady ==
  ASSUME NEW n \in {1, 2}, NEW F, NEW v, Ready(n, F, v), NEW s \in Disk \ Meta(n), NEW x
  PROVE  LET w == disk_write(v, s, x) IN
         /\ Ready(n, F, w)
         /\ w.winsect = v.winsect /\ w.win = v.win /\ w.wflag = v.wflag
         /\ w.last_clst = v.last_clst
         /\ Alike(n, Seen(v), Seen(w))
<1> DEFINE w == disk_write(v, s, x)
           wr == [sect |-> s, content |-> x]
<1>1. /\ IsDrive(w) /\ w.type = v.type /\ w.n_fats = v.n_fats
      /\ w.winsect = v.winsect /\ w.win = v.win /\ w.wflag = v.wflag
      /\ w.last_clst = v.last_clst
      /\ w.disk = [v.disk EXCEPT ![s] = x] /\ w.out = Append(v.out, wr)
  BY DiskWriteIs, SMTT(30) DEF Ready
<1>2. wr.sect = s /\ wr.content = x
  OBVIOUS
<1>3. s \in Disk /\ s # 0 /\ s # 1 /\ s \notin DirSects(n) /\ s # v.winsect
  BY MetaFacts DEF Meta, Ready
<1>4. v.disk[0] # Erased /\ Sound(n, v.disk) /\ DOMAIN v.disk = Disk
  BY ReadyFacts, BootFacts DEF Ready
<1>5. Sound(n, [v.disk EXCEPT ![s] = x])
  BY <1>3, <1>4, SoundData
<1> HIDE DEF w, wr
<1>6. /\ Pending(n, F, w.out)
      /\ Final(F, w.out) = w.disk
  <2>1. /\ Pending(n, F, v.out) /\ v.disk = Final(F, v.out)
    BY DEF Ready
  <2>2. Sound(n, [Final(F, v.out) EXCEPT ![wr.sect] = wr.content]) /\ wr.sect \in Disk \ {0}
    BY <1>2, <1>3, <1>5, <2>1
  <2>3. /\ Pending(n, F, Append(v.out, wr))
        /\ Final(F, Append(v.out, wr)) = [Final(F, v.out) EXCEPT ![wr.sect] = wr.content]
    BY <2>1, <2>2, PendingMore
  <2> QED
    BY <1>1, <1>2, <2>1, <2>3
<1>7. \A t \in Disk : t # s => w.disk[t] = v.disk[t]
  BY <1>1, <1>4
<1>8. Alike(n, Seen(v), Seen(w))
  <2>1. ASSUME NEW t \in Meta(n) PROVE Seen(w)[t] = Seen(v)[t]
    <3>1. t \in Disk /\ t # s
      BY MetaFacts
    <3> QED
      BY <1>1, <1>7, <3>1 DEF Seen
  <2> QED
    BY <2>1 DEF Alike
<1>9. Sound(n, Seen(w))
  <2>1. Seen(v)[0] # Erased
    BY ReadyFacts, ZenonT(30)
  <2>2. Sound(n, Seen(v))
    BY DEF Ready
  <2> QED
    BY <1>8, <2>1, <2>2, AlikeFacts
<1>10. w.disk[0] = Boot(n) /\ w.disk[w.winsect] = v.disk[v.winsect]
  <2>1. v.winsect \in Disk /\ 0 \in Disk
    BY MetaFacts DEF Ready
  <2> QED
    BY <1>1, <1>3, <1>7, <2>1 DEF Ready
<1>11. Ready(n, F, w)
  BY <1>1, <1>6, <1>9, <1>10 DEF Ready
<1> QED
  BY <1>1, <1>8, <1>11 DEF w

LEMMA SyncReady ==
  ASSUME NEW n \in {1, 2}, NEW F, NEW v, Ready(n, F, v)
  PROVE  LET w == sync_window(v) IN
         /\ Ready(n, F, w) /\ ~w.wflag
         /\ w.winsect = v.winsect /\ w.win = v.win /\ w.last_clst = v.last_clst
         /\ Alike(n, Seen(v), Seen(w))
         /\ ~v.wflag => w = v
<1> DEFINE w == sync_window(v)
           wr == [sect |-> v.winsect, content |-> v.win]
           u == disk_write(v, v.winsect, v.win)
           x == [u EXCEPT !.wflag = FALSE]
<1>0. v.wflag \in BOOLEAN /\ IsDrive(v)
  BY DEF Ready
<1>1. CASE ~v.wflag
  <2>1. w = v
    BY <1>1 DEF sync_window
  <2> HIDE DEF w
  <2>2. Alike(n, Seen(v), Seen(w))
    BY <2>1 DEF Alike
  <2>3. /\ Ready(n, F, w) /\ ~w.wflag
        /\ w.winsect = v.winsect /\ w.win = v.win /\ w.last_clst = v.last_clst
        /\ Alike(n, Seen(v), Seen(w))
        /\ ~v.wflag => w = v
    BY <1>1, <2>1, <2>2
  <2> QED
    BY <2>3 DEF w
<1>2. CASE v.wflag
  <2>1. /\ IsDrive(u) /\ u.type = v.type /\ u.n_fats = v.n_fats
        /\ u.winsect = v.winsect /\ u.win = v.win /\ u.last_clst = v.last_clst
        /\ u.disk = [v.disk EXCEPT ![v.winsect] = v.win] /\ u.out = Append(v.out, wr)
    BY <1>0, DiskWriteIs
  <2>2. wr.sect = v.winsect /\ wr.content = v.win
    OBVIOUS
  <2>3. w = IF InFat(v.winsect) /\ v.n_fats = 2 THEN disk_write(x, v.winsect + 1, v.win) ELSE x
    BY <1>2 DEF sync_window
  <2> HIDE DEF w, wr, u
  <2>4. IsDrive(x) /\ SameBut(u, x) /\ x.win = u.win /\ x.wflag = FALSE
    BY <2>1, SetFlag, SMTT(30)
  <2> HIDE DEF x
  <2>5. DOMAIN v.disk = Disk /\ v.winsect \in Disk /\ Seen(v)[0] = Boot(n)
    BY ReadyFacts, ZenonT(30)
  <2>6. x.disk = Seen(v)
    <3>1. [v.disk EXCEPT ![v.winsect] = v.win] =
            [s \in Disk |-> IF s = v.winsect THEN v.win ELSE v.disk[s]]
      BY <2>5
    <3> QED
      BY <2>1, <2>4, <3>1 DEF Seen, SameBut
  <2>7. Pending(n, F, x.out) /\ Final(F, x.out) = x.disk
    <3>1. Pending(n, F, v.out) /\ v.disk = Final(F, v.out) /\ v.winsect # 0
      BY <1>2 DEF Ready
    <3>2. x.disk = [v.disk EXCEPT ![v.winsect] = v.win] /\ x.out = Append(v.out, wr)
      BY <2>1, <2>4 DEF SameBut
    <3>3. Sound(n, [Final(F, v.out) EXCEPT ![wr.sect] = wr.content]) /\ wr.sect \in Disk \ {0}
      BY <2>2, <2>5, <2>6, <3>1, <3>2 DEF Ready
    <3>4. /\ Pending(n, F, Append(v.out, wr))
          /\ Final(F, Append(v.out, wr)) = [Final(F, v.out) EXCEPT ![wr.sect] = wr.content]
      BY <3>1, <3>3, PendingMore
    <3> QED
      BY <2>2, <3>1, <3>2, <3>4
  <2>8. /\ x.type = 12 /\ x.n_fats = n /\ x.winsect = v.winsect /\ x.win = v.win
        /\ x.last_clst = v.last_clst
    BY <2>1, <2>4 DEF SameBut, Ready
  <2>9. Seen(x) = Seen(v)
    BY <2>6, <2>8 DEF Seen
  <2>10. Ready(n, F, x)
    <3>1. x.win = x.disk[x.winsect]
      BY <2>5, <2>6, <2>8 DEF Seen
    <3> QED
      BY <2>4, <2>5, <2>6, <2>7, <2>8, <2>9, <3>1 DEF Ready
  <2>11. CASE InFat(v.winsect) /\ v.n_fats = 2
    <3>1. v.winsect + 1 \in Disk \ Meta(n)
      BY <2>11, MetaFacts DEF InFat, fatbase, Ready
    <3>2. w = disk_write(x, v.winsect + 1, v.win)
      BY <2>3, <2>11
    <3>3. /\ Ready(n, F, w)
          /\ w.winsect = x.winsect /\ w.win = x.win /\ w.wflag = x.wflag
          /\ w.last_clst = x.last_clst
          /\ Alike(n, Seen(x), Seen(w))
      BY <2>10, <3>1, <3>2, DataReady
    <3>4. /\ Ready(n, F, w) /\ ~w.wflag
          /\ w.winsect = v.winsect /\ w.win = v.win /\ w.last_clst = v.last_clst
          /\ Alike(n, Seen(v), Seen(w))
      BY <2>4, <2>8, <2>9, <3>3
    <3> QED
      BY <1>2, <3>4 DEF w
  <2>12. CASE ~(InFat(v.winsect) /\ v.n_fats = 2)
    <3>1. w = x
      BY <2>3, <2>12
    <3>2. /\ Ready(n, F, w) /\ ~w.wflag
          /\ w.winsect = v.winsect /\ w.win = v.win /\ w.last_clst = v.last_clst
          /\ Alike(n, Seen(v), Seen(w))
      BY <2>4, <2>8, <2>9, <2>10, <3>1 DEF Alike
    <3> QED
      BY <1>2, <3>2 DEF w
  <2> QED
    BY <2>11, <2>12
<1> QED
  BY <1>0, <1>1, <1>2

LEMMA MoveReady ==
  ASSUME NEW n \in {1, 2}, NEW F, NEW v, Ready(n, F, v), NEW s \in Meta(n)
  PROVE  LET w == move_window(v, s) IN
         /\ Ready(n, F, w)
         /\ w.winsect = s /\ w.win = Seen(v)[s] /\ w.last_clst = v.last_clst
         /\ Alike(n, Seen(v), Seen(w))
         /\ Tab(w) = Tab(v) /\ Dir(n, w) = Dir(n, v)
<1> DEFINE w == move_window(v, s)
           u == sync_window(v)
<1>1. SUFFICES /\ Ready(n, F, w)
               /\ w.winsect = s /\ w.win = Seen(v)[s] /\ w.last_clst = v.last_clst
               /\ Alike(n, Seen(v), Seen(w))
  <2>1. Seen(v)[0] # Erased
    BY ReadyFacts, ZenonT(30)
  <2>2. Alike(n, Seen(v), Seen(w)) => Tab(w) = Tab(v) /\ Dir(n, w) = Dir(n, v)
    BY <2>1, AlikeFacts
  <2> QED
    BY <2>2 DEF w
<1>2. CASE s = v.winsect
  <2>1. w = v
    BY <1>2 DEF move_window
  <2> HIDE DEF w
  <2>2. Seen(v)[s] = v.win
    BY <1>2, ReadyFacts, ZenonT(30)
  <2> QED
    BY <1>2, <2>1, <2>2 DEF Alike
<1>3. CASE s # v.winsect
  <2>1. w = [u EXCEPT !.win = u.disk[s], !.winsect = s]
    BY <1>3 DEF move_window
  <2>2. /\ Ready(n, F, u) /\ ~u.wflag /\ u.winsect = v.winsect
        /\ u.last_clst = v.last_clst /\ Alike(n, Seen(v), Seen(u))
    BY SyncReady
  <2> HIDE DEF u, w
  <2>3. /\ IsDrive(w) /\ w.type = u.type /\ w.n_fats = u.n_fats /\ w.winsect = s
        /\ w.win = u.disk[s] /\ w.wflag = u.wflag /\ w.last_clst = u.last_clst
        /\ w.disk = u.disk /\ w.out = u.out
    <3>1. IsDrive(u)
      BY <2>2 DEF Ready
    <3>2. w = Shown(u, s, u.disk[s])
      BY <2>1 DEF Shown
    <3> QED
      BY <3>1, <3>2, ShownIs
  <2>4. Seen(u) = u.disk /\ u.disk = [t \in Disk |-> u.disk[t]] /\ s \in Disk
    BY <2>2, ReadyFacts, MetaFacts
  <2>5. Seen(w) = u.disk
    BY <2>3, <2>4 DEF Seen
  <2>6. w.win = Seen(v)[s]
    BY <2>2, <2>3, <2>4 DEF Alike
  <2>7. Ready(n, F, w)
    BY <2>2, <2>3, <2>4, <2>5 DEF Ready
  <2> QED
    BY <2>2, <2>3, <2>4, <2>5, <2>6, <2>7
<1> QED
  BY <1>2, <1>3

------------------------------------------------------------------------------
(* The table and the directory, read and written through the window        *)

\* What the slots own, and the file being saved, whose first cluster is first.
Holds(n, v, first, own) == Owns(n, Tab(v), Starts(Dir(n, v), first), own)

LEMMA GetReady ==
  ASSUME NEW n \in {1, 2}, NEW F, NEW v, Ready(n, F, v), NEW c
  PROVE  get_fat(v, c) = Tab(v)[c]
<1>1. move_window(v, 1).win = Seen(v)[1]
  BY MetaFacts, MoveReady
<1> QED
  BY <1>1 DEF get_fat, fatbase, Tab

LEMMA SlotReady ==
  ASSUME NEW n \in {1, 2}, NEW F, NEW v, Ready(n, F, v), NEW s \in RootSlot
  PROVE  Slot(v, s) = Dir(n, v)[s]
<1>1. SlotSect(v, s) = SlotSect(L(n), s) /\ SlotSect(v, s) \in Meta(n)
  BY SlotPlace, MetaFacts DEF Ready
<1>2. move_window(v, SlotSect(v, s)).win = Seen(v)[SlotSect(v, s)]
  BY <1>1, MoveReady
<1> QED
  BY <1>1, <1>2 DEF Slot, Dir, SlotsAt, EntryIn

LEMMA LowestIs ==
  ASSUME NEW slots \in SUBSET RootSlot
  PROVE  Lowest(slots) \in RootSlot \cup {NoSlot} /\ (slots # {} => Lowest(slots) \in slots)
<1>1. CASE slots = {}
  BY <1>1 DEF Lowest
<1>2. CASE slots # {}
  <2>1. slots \in SUBSET Nat
    BY Numbers DEF RootSlot
  <2>2. \E s \in slots : \A t \in slots : s <= t
    BY <1>2, <2>1, LeastNumber
  <2>3. Lowest(slots) \in slots
    BY <1>2, <2>2 DEF Lowest
  <2> QED
    BY <2>3
<1> QED
  BY <1>1, <1>2

LEMMA FirstSlotIs ==
  ASSUME NEW v, NEW names
  PROVE  FirstSlot(v, names) \in RootSlot \cup {NoSlot}
<1>1. {s \in RootSlot : Slot(v, s).name \in names} \in SUBSET RootSlot
  OBVIOUS
<1> QED
  BY <1>1, LowestIs DEF FirstSlot

\* Reading the directory moves the window, and no more.
Moved(n, F, v, w) ==
  /\ Ready(n, F, w) /\ w.last_clst = v.last_clst /\ Tab(w) = Tab(v) /\ Dir(n, w) = Dir(n, v)

LEMMA AtReady ==
  ASSUME NEW n \in {1, 2}, NEW F, NEW v, Ready(n, F, v), NEW s \in RootSlot \cup {NoSlot}
  PROVE  /\ Moved(n, F, v, At(v, s))
         /\ s # NoSlot => /\ At(v, s).winsect = SlotSect(L(n), s)
                          /\ Alike(n, Seen(v), Seen(At(v, s)))
<1>1. /\ RootSectors * SectorSlots - 1 \in RootSlot /\ NoSlot \notin RootSlot
  BY Numbers DEF RootSlot, NoSlot
<1> DEFINE t == IF s = NoSlot THEN RootSectors * SectorSlots - 1 ELSE s
<1>2. t \in RootSlot
  BY <1>1
<1>3. At(v, s) = move_window(v, SlotSect(v, t))
  BY DEF At
<1>4. s # NoSlot => t = s
  OBVIOUS
<1> HIDE DEF t
<1>5. SlotSect(v, t) = SlotSect(L(n), t) /\ SlotSect(v, t) \in Meta(n)
  BY <1>2, SlotPlace, MetaFacts DEF Ready
<1> QED
  BY <1>3, <1>4, <1>5, MoveReady DEF Moved

LEMMA DirFindReady ==
  ASSUME NEW n \in {1, 2}, NEW F, NEW v, Ready(n, F, v), NEW name
  PROVE  /\ Moved(n, F, v, dir_find(v, name).v)
         /\ dir_find(v, name).slot \in RootSlot \cup {NoSlot}
<1> DEFINE slot == FirstSlot(v, {name, Ended})
<1>1. slot \in RootSlot \cup {NoSlot}
  BY FirstSlotIs
<1>2. /\ dir_find(v, name).v = At(v, slot)
      /\ dir_find(v, name).slot \in {slot, NoSlot}
  BY DEF dir_find
<1> HIDE DEF slot
<1> QED
  BY <1>1, <1>2, AtReady

LEMMA DirAllocReady ==
  ASSUME NEW n \in {1, 2}, NEW F, NEW v, Ready(n, F, v)
  PROVE  /\ Moved(n, F, v, dir_alloc(v).v)
         /\ dir_alloc(v).slot \in RootSlot \cup {NoSlot}
<1> DEFINE slot == FirstSlot(v, {Ended, Deleted})
<1>1. slot \in RootSlot \cup {NoSlot}
  BY FirstSlotIs
<1>2. dir_alloc(v).v = At(v, slot) /\ dir_alloc(v).slot = slot
  BY DEF dir_alloc
<1> HIDE DEF slot
<1> QED
  BY <1>1, <1>2, AtReady

\* A new entry in a slot, after which the owners are those that start with begin.
LEMMA SetSlotReady ==
  ASSUME NEW n \in {1, 2}, NEW F, NEW v, Ready(n, F, v), NEW slot \in RootSlot,
         NEW entry, entry.clust \in {0} \cup Cluster,
         NEW begin, NEW own, Owns(n, Tab(v), begin, own), begin[slot] = entry.clust,
         \A s \in RootSlot \ {slot} : begin[s] = Dir(n, v)[s].clust
  PROVE  LET w == SetSlot(v, slot, entry) IN
         /\ Ready(n, F, w) /\ w.last_clst = v.last_clst /\ Tab(w) = Tab(v)
         /\ w.wflag /\ Dir(n, w)[slot] = entry
         /\ \A s \in RootSlot \ {slot} : Dir(n, w)[s] = Dir(n, v)[s]
         /\ Holds(n, w, begin[NoSlot], own)
<1> DEFINE a == At(v, slot)
           w == SetSlot(v, slot, entry)
           now == [SlotsIn(a.win) EXCEPT ![slot % SectorSlots] = entry]
           x == Entries(now)
           sect == SlotSect(L(n), slot)
<1>1. w = Dirtied(a, x)
  BY DEF SetSlot, Dirtied
<1>2. Moved(n, F, v, a) /\ a.winsect = sect /\ Alike(n, Seen(v), Seen(a))
  BY AtReady, NoOwner
<1>3. /\ sect \in DirSects(n) /\ sect \in Meta(n) /\ sect # 0 /\ sect # 1
      /\ slot % SectorSlots \in SlotIndex /\ sect \in Disk
  <2>1. L(n).n_fats = n
    BY DEF L
  <2> QED
    BY <2>1, SlotPlace, MetaFacts
<1> HIDE DEF a, sect, w
<1>4. Ready(n, F, a) /\ Tab(a) = Tab(v) /\ Dir(n, a) = Dir(n, v) /\ a.last_clst = v.last_clst
  BY <1>2 DEF Moved
<1>5. a.win = Seen(a)[sect] /\ Placed(n, Seen(a)) /\ Seen(a)[0] # Erased /\ Seen(a)[0] = Boot(n)
  <2>1. Ready(n, F, a)
    BY <1>4
  <2> QED
    BY <1>2, <2>1, ReadyFacts, ZenonT(30) DEF Ready, Sound
<1>6. IsDir(a.win)
  BY <1>3, <1>5 DEF Placed
<1>7. /\ now = [i \in SlotIndex |-> now[i]] /\ now[slot % SectorSlots] = entry
      /\ \A i \in SlotIndex : i # slot % SectorSlots => now[i] = SlotsIn(a.win)[i]
      /\ \A i \in SlotIndex : now[i].clust \in {0} \cup Cluster
  BY <1>3, <1>6 DEF IsDir
<1> HIDE DEF now
<1>8. SlotsIn(x) = now /\ IsDir(x)
  BY <1>7, EntriesFacts
<1> HIDE DEF x
<1>9. IsDrive(w) /\ SameBut(a, w) /\ w.win = x /\ w.wflag = TRUE
  <2>1. IsDrive(a)
    BY <1>4 DEF Ready
  <2> QED
    BY <1>1, <2>1, DirtiedIs
<1>10. /\ Seen(w) = [t \in Disk |-> Seen(w)[t]] /\ Seen(w)[sect] = x
       /\ \A t \in Disk \ {sect} : Seen(w)[t] = Seen(a)[t]
  BY <1>2, <1>3, <1>9 DEF Seen, SameBut
<1>11. /\ Placed(n, Seen(w)) /\ Seen(w)[1] = Seen(a)[1] /\ Seen(w)[0] = Seen(a)[0]
       /\ \A s \in RootSlot :
              /\ SlotSect(L(n), s) = sect => SlotsAt(n, Seen(w))[s] = EntryIn(x, s)
              /\ SlotSect(L(n), s) # sect => SlotsAt(n, Seen(w))[s] = SlotsAt(n, Seen(a))[s]
  BY <1>3, <1>5, <1>8, <1>10, SlotsOfDir
<1>12. Dir(n, w)[slot] = entry
  <2>1. EntryIn(x, slot) = entry
    BY <1>7, <1>8 DEF EntryIn
  <2> QED
    BY <1>11, <2>1 DEF Dir, sect
<1>13. ASSUME NEW s \in RootSlot, s # slot PROVE Dir(n, w)[s] = Dir(n, v)[s]
  <2>1. CASE SlotSect(L(n), s) = sect
    <3>1. s % SectorSlots # slot % SectorSlots
      BY <1>13, <2>1, SlotsApart DEF sect
    <3>2. s % SectorSlots \in SlotIndex
      <4>1. L(n).n_fats = n
        BY DEF L
      <4> QED
        BY <4>1, SlotPlace
    <3>3. EntryIn(x, s) = EntryIn(a.win, s)
      BY <1>7, <1>8, <3>1, <3>2 DEF EntryIn
    <3>4. Dir(n, a)[s] = EntryIn(a.win, s)
      BY <1>5, <2>1 DEF Dir, SlotsAt
    <3> QED
      BY <1>4, <1>11, <2>1, <3>3, <3>4 DEF Dir
  <2>2. CASE SlotSect(L(n), s) # sect
    BY <1>4, <1>11, <2>2 DEF Dir
  <2> QED
    BY <2>1, <2>2
<1>14. Tab(w) = Tab(v)
  BY <1>4, <1>11 DEF Tab
<1>15. Holds(n, w, begin[NoSlot], own) /\ Owns(n, Tab(w), Starts(Dir(n, w), 0), own)
  <2>1. \A o \in Owner : /\ Starts(Dir(n, w), begin[NoSlot])[o] \in {begin[o], 0}
                         /\ Starts(Dir(n, w), 0)[o] \in {begin[o], 0}
    BY <1>12, <1>13 DEF Starts, Owner
  <2> QED
    BY <1>14, <2>1, OwnBlank DEF Holds
<1>16. Sound(n, Seen(w))
  BY <1>11, <1>15 DEF Sound, Kept, Tab, Dir
<1>17. Ready(n, F, w)
  BY <1>2, <1>3, <1>4, <1>9, <1>16 DEF Ready, SameBut
<1>18. w.last_clst = v.last_clst /\ w.wflag
  BY <1>4, <1>9 DEF SameBut
<1> QED
  BY <1>12, <1>13, <1>14, <1>15, <1>17, <1>18 DEF w

\* A new table, in the window.
LEMMA TableReady ==
  ASSUME NEW n \in {1, 2}, NEW F, NEW v, Ready(n, F, v), v.winsect = 1,
         NEW next \in [Cluster -> Links],
         NEW begin, NEW own, Owns(n, next, begin, own),
         \A s \in RootSlot : begin[s] = Dir(n, v)[s].clust
  PROVE  LET w == Dirtied(v, Table(next)) IN
         /\ Ready(n, F, w) /\ w.last_clst = v.last_clst /\ Tab(w) = next
         /\ w.winsect = 1 /\ Dir(n, w) = Dir(n, v)
         /\ Holds(n, w, begin[NoSlot], own)
<1> DEFINE x == Table(next)
           w == Dirtied(v, Table(next))
<1>1. IsTable(x) /\ NextIn(x) = next
  BY TableFacts
<1>2. IsDrive(w) /\ SameBut(v, w) /\ w.win = x /\ w.wflag = TRUE
  BY DirtiedIs DEF Ready
<1> HIDE DEF w, x
<1>3. /\ Placed(n, Seen(v)) /\ Seen(v)[0] # Erased /\ Seen(v)[0] = Boot(n)
      /\ DOMAIN Seen(v) = Disk
  BY ReadySeen
<1>4. Seen(w) = [Seen(v) EXCEPT ![1] = x]
  <2>1. 1 \in Disk
    BY MetaFacts
  <2> QED
    BY <1>2, <2>1 DEF Seen, SameBut
<1>5. \A o \in Owner : Starts(Dir(n, v), begin[NoSlot])[o] \in {begin[o], 0}
                    /\ Starts(Dir(n, v), 0)[o] \in {begin[o], 0}
  BY DEF Starts, Owner
<1>6. /\ Owns(n, next, Starts(Dir(n, v), begin[NoSlot]), own)
      /\ Owns(n, next, Starts(Dir(n, v), 0), own)
  BY <1>5, OwnBlank
<1>7. Kept(n, NextIn(x), Starts(SlotsAt(n, Seen(v)), 0))
  BY <1>1, <1>6 DEF Kept, Dir
<1>8. Sound(n, Seen(w)) /\ SlotsAt(n, Seen(w)) = SlotsAt(n, Seen(v))
  <2>1. /\ Sound(n, [Seen(v) EXCEPT ![1] = x])
        /\ SlotsAt(n, [Seen(v) EXCEPT ![1] = x]) = SlotsAt(n, Seen(v))
    BY <1>1, <1>3, <1>7, SoundTable
  <2> QED
    BY <1>4, <2>1
<1>9. Tab(w) = next /\ Dir(n, w) = Dir(n, v)
  <2>1. 1 \in Disk
    BY MetaFacts
  <2>2. Seen(w)[1] = x
    BY <1>3, <1>4, <2>1
  <2> QED
    BY <1>1, <1>8, <2>2 DEF Tab, Dir
<1>10. Ready(n, F, w)
  <2>1. w.winsect # 0 /\ w.winsect \in Meta(n) /\ w.wflag \in BOOLEAN
    BY <1>2, MetaFacts DEF SameBut
  <2> QED
    BY <1>2, <1>8, <2>1 DEF Ready, SameBut
<1>11. w.last_clst = v.last_clst /\ w.winsect = 1 /\ Holds(n, w, begin[NoSlot], own)
  BY <1>2, <1>6, <1>9 DEF SameBut, Holds
<1> QED
  BY <1>9, <1>10, <1>11 DEF w, x

------------------------------------------------------------------------------
(* Chains of clusters, made and freed *)

LEMMA PutReady ==
  ASSUME NEW n \in {1, 2}, NEW F, NEW v, Ready(n, F, v), NEW clst, NEW val,
         Put(Tab(v), clst, val) \in [Cluster -> Links],
         NEW begin, NEW own, Owns(n, Put(Tab(v), clst, val), begin, own),
         \A s \in RootSlot : begin[s] = Dir(n, v)[s].clust
  PROVE  LET w == put_fat(v, clst, val) IN
         /\ Ready(n, F, w) /\ w.last_clst = v.last_clst /\ Tab(w) = Put(Tab(v), clst, val)
         /\ Dir(n, w) = Dir(n, v) /\ Holds(n, w, begin[NoSlot], own)
<1> DEFINE a == move_window(v, 1)
           w == put_fat(v, clst, val)
           next == Put(Tab(v), clst, val)
<1>1. /\ Ready(n, F, a) /\ a.winsect = 1 /\ a.win = Seen(v)[1] /\ a.last_clst = v.last_clst
      /\ Dir(n, a) = Dir(n, v)
  BY MetaFacts, MoveReady
<1>2. w = Dirtied(a, Table([NextIn(a.win) EXCEPT ![clst] = val]))
  BY DEF put_fat, Dirtied, fatbase
<1> HIDE DEF a, w
<1>3. [NextIn(a.win) EXCEPT ![clst] = val] = next
  BY <1>1 DEF Tab, Put
<1> HIDE DEF next
<1>4. w = Dirtied(a, Table(next))
  BY <1>2, <1>3
<1>5. \A s \in RootSlot : begin[s] = Dir(n, a)[s].clust
  BY <1>1
<1>6. next \in [Cluster -> Links] /\ Owns(n, next, begin, own)
  BY DEF next
<1>7. /\ Ready(n, F, w) /\ w.last_clst = a.last_clst /\ Tab(w) = next
      /\ Dir(n, w) = Dir(n, a) /\ Holds(n, w, begin[NoSlot], own)
  BY <1>1, <1>4, <1>5, <1>6, TableReady
<1> QED
  BY <1>1, <1>7 DEF w, next

LEMMA SizeFacts ==
  ASSUME NEW n \in {1, 2}, NEW v, v.n_fats = n
  PROVE  n_fatent(v) \in Nat /\ n_fatent(v) > 2 /\ n_fatent(v) < Eoc
<1>1. n_fatent(v) = Sectors - (1 + n + RootSectors) + 2
  BY DEF n_fatent, database, dirbase, fatbase
<1>2. /\ Sectors \in Nat /\ RootSectors \in Nat
      /\ Sectors > 3 + RootSectors /\ Sectors < Eoc /\ Eoc \in Nat
  BY FatFsAssumption DEF FatFsAssumption, Eoc
<1>3. 1 + n \in {2, 3}
  OBVIOUS
<1> HIDE DEF Eoc
<1>4. Sectors - (1 + n + RootSectors) + 2 > 2 /\ Sectors - (1 + n + RootSectors) + 2 < Eoc
      /\ Sectors - (1 + n + RootSectors) + 2 \in Nat
  BY <1>2, <1>3
<1> QED
  BY <1>1, <1>4

LEMMA ClusterInt == Cluster \subseteq Nat /\ 0 \notin Cluster /\ Eoc \notin Cluster
BY FatFsAssumption DEF FatFsAssumption, Cluster, Eoc

LEMMA FreeFromIs ==
  ASSUME NEW n \in {1, 2}, NEW F, NEW v, Ready(n, F, v), NEW scl \in Int
  PROVE  LET c == FreeFrom(v, scl) IN
         c = 0 \/ (c \in Cluster /\ IsLink(v, c) /\ Tab(v)[c] = 0)
<1> DEFINE free == {c \in Cluster : IsLink(v, c) /\ get_fat(v, c) = 0}
           rounds == {Rounds(v, scl, c) : c \in free}
           Best(c) == \A d \in free : Rounds(v, scl, c) <= Rounds(v, scl, d)
<1>1. CASE free = {}
  BY <1>1 DEF FreeFrom
<1>2. CASE free # {}
  <2>1. ASSUME NEW c \in free PROVE Rounds(v, scl, c) \in Nat
    <3>1. n_fatent(v) \in Nat /\ n_fatent(v) > 2
      BY SizeFacts DEF Ready
    <3>2. c \in Int
      BY Numbers DEF Cluster
    <3> QED
      BY <3>1, <3>2 DEF Rounds
  <2>2. rounds \in SUBSET Nat /\ rounds # {}
    BY <1>2, <2>1
  <2>3. PICK m \in rounds : \A k \in rounds : m <= k
    <3> HIDE DEF rounds
    <3> QED
      BY <2>2, LeastNumber
  <2>4. PICK c \in free : m = Rounds(v, scl, c)
    BY <2>3
  <2>5. Best(c)
    BY <2>3, <2>4
  <2>6. (CHOOSE d \in free : Best(d)) \in free
    <3> HIDE DEF free, Best
    <3> QED
      BY <2>5
  <2>7. FreeFrom(v, scl) = CHOOSE d \in free : Best(d)
    BY <1>2 DEF FreeFrom
  <2> HIDE DEF Best
  <2>8. FreeFrom(v, scl) \in free
    BY <2>6, <2>7
  <2> QED
    BY <2>8, GetReady
<1> QED
  BY <1>1, <1>2

\* A hint of where to search next.
LEMMA LastReady ==
  ASSUME NEW n \in {1, 2}, NEW F, NEW v, Ready(n, F, v), NEW x \in Int
  PROVE  LET w == [v EXCEPT !.last_clst = x] IN
         /\ Ready(n, F, w) /\ Tab(w) = Tab(v) /\ Dir(n, w) = Dir(n, v)
         /\ Seen(w) = Seen(v) /\ w.winsect = v.winsect
<1> DEFINE w == [v EXCEPT !.last_clst = x]
<1>1. /\ IsDrive(w)
      /\ w.type = v.type /\ w.n_fats = v.n_fats /\ w.winsect = v.winsect /\ w.win = v.win
      /\ w.wflag = v.wflag /\ w.last_clst = x /\ w.disk = v.disk /\ w.out = v.out
  BY SetLast DEF Ready
<1> HIDE DEF w
<1>2. Seen(w) = Seen(v)
  BY <1>1 DEF Seen
<1>3. Ready(n, F, w)
  BY <1>1, <1>2 DEF Ready
<1>4. Tab(w) = Tab(v) /\ Dir(n, w) = Dir(n, v) /\ w.winsect = v.winsect
  BY <1>1, <1>2 DEF Tab, Dir
<1> QED
  BY <1>2, <1>3, <1>4 DEF w

\* What create_chain does: nothing but move the window, or give its file a cluster
\* that was free.
Full(n, F, v, d) == d.clust = 0 /\ Moved(n, F, v, d.v)
Given(n, F, v, clst, first, d) ==
  /\ d.clust \in Cluster /\ IsLink(v, d.clust)
  /\ Ready(n, F, d.v) /\ Tab(d.v)[d.clust] = Eoc /\ Dir(n, d.v) = Dir(n, v)
  /\ \E own : /\ d.clust \in own[NoSlot]
              /\ clst = 0 => Holds(n, d.v, d.clust, own)
              /\ clst # 0 => Holds(n, d.v, first, own)

LEMMA LinkedReady ==
  ASSUME NEW n \in {1, 2}, NEW F, NEW v, Ready(n, F, v), NEW first, NEW own,
         Holds(n, v, first, own), NEW clst, clst = 0 \/ clst \in own[NoSlot],
         NEW ncl, ncl = 0 \/ (ncl \in Cluster /\ IsLink(v, ncl) /\ Tab(v)[ncl] = 0)
  PROVE  LET d == Linked(v, clst, ncl) IN
         Full(n, F, v, d) \/ Given(n, F, v, clst, first, d)
<1> DEFINE d == Linked(v, clst, ncl)
           start == Starts(Dir(n, v), first)
           begin == Starts(Dir(n, v), ncl)
           own1 == Give(own, NoSlot, {ncl})
           own2 == Give(own, NoSlot, own[NoSlot] \cup {ncl})
           next1 == Put(Tab(v), ncl, Eoc)
           next2 == Put(next1, clst, ncl)
           u == put_fat(v, ncl, Eoc)
           w == put_fat(u, clst, ncl)
<1>1. CASE ncl = 0
  <2>1. d.clust = 0 /\ d.v = move_window(v, 1)
    BY <1>1 DEF Linked, fatbase
  <2>2. Moved(n, F, v, move_window(v, 1))
    BY MetaFacts, MoveReady DEF Moved
  <2> QED
    BY <2>1, <2>2 DEF Full
<1>2. CASE ncl # 0
  <2>1. ncl \in Cluster /\ IsLink(v, ncl) /\ Tab(v)[ncl] = 0
    BY <1>2
  <2>2. Tab(v) \in [Cluster -> Links] /\ Owns(n, Tab(v), start, own) /\ NoSlot \in Owner
    BY ReadyFacts, NoOwner DEF Holds
  <2>3. next1 \in [Cluster -> Links] /\ next1[ncl] = Eoc
    BY <2>1, <2>2 DEF Links, Put
  <2>4. /\ \A s \in RootSlot : start[s] = Dir(n, v)[s].clust
        /\ \A s \in RootSlot : begin[s] = Dir(n, v)[s].clust
        /\ start[NoSlot] = first /\ begin[NoSlot] = ncl
        /\ \A o \in Owner \ {NoSlot} : begin[o] = start[o]
    BY NoOwner DEF Starts, Owner
  <2>5. own \in [Owner -> SUBSET Cluster]
    BY <2>2 DEF Owns
  <2>6. CASE clst = 0
    <3>1. d.v = [u EXCEPT !.last_clst = ncl] /\ d.clust = ncl
      BY <1>2, <2>6 DEF Linked
    <3>2. ncl \in own1[NoSlot]
      BY <2>2, <2>5 DEF Give
    <3> HIDE DEF next1, u, begin, start, own1, d
    <3>3. Owns(n, next1, begin, own1)
      BY <2>1, <2>2, <2>4, OwnAlloc DEF next1, own1
    <3>4. /\ Ready(n, F, u) /\ u.last_clst = v.last_clst /\ Tab(u) = next1
          /\ Dir(n, u) = Dir(n, v) /\ Holds(n, u, begin[NoSlot], own1)
      BY <2>3, <2>4, <3>3, PutReady DEF next1, u
    <3>5. Ready(n, F, d.v) /\ Tab(d.v) = Tab(u) /\ Dir(n, d.v) = Dir(n, u)
      BY <2>1, <3>1, <3>4, ClusterInt, LastReady
    <3>6. Holds(n, d.v, ncl, own1)
      BY <2>4, <3>4, <3>5 DEF Holds
    <3>7. Given(n, F, v, clst, first, d)
      BY <2>1, <2>3, <2>6, <3>1, <3>2, <3>4, <3>5, <3>6 DEF Given
    <3> QED
      BY <3>7 DEF d
  <2>7. CASE clst # 0
    <3>0. clst \in own[NoSlot] /\ clst \in Cluster /\ clst # ncl
      BY <2>1, <2>2, <2>5, <2>7, OwnType
    <3>1. d.v = [w EXCEPT !.last_clst = ncl] /\ d.clust = ncl
      BY <1>2, <2>7 DEF Linked
    <3>2. ncl \in own2[NoSlot]
      BY <2>2, <2>5 DEF Give
    <3>3. next2 \in [Cluster -> Links] /\ next2[ncl] = Eoc
      BY <2>1, <2>3, <3>0 DEF Links, Put
    <3> HIDE DEF next1, u, begin, start, own2, d
    <3>4. Owns(n, next1, start, own)
      BY <2>1, <2>2, OwnMark DEF next1
    <3>5. /\ Ready(n, F, u) /\ Tab(u) = next1 /\ Dir(n, u) = Dir(n, v)
      BY <2>3, <2>4, <3>4, PutReady DEF next1, u
    <3>6. Owns(n, next2, start, own2)
      BY <2>1, <2>2, <3>0, OwnExtend DEF next1, next2, own2
    <3>7. Put(Tab(u), clst, ncl) = next2 /\ \A s \in RootSlot : start[s] = Dir(n, u)[s].clust
      BY <2>4, <3>5 DEF next2
    <3> HIDE DEF next2, w
    <3>8. /\ Ready(n, F, w) /\ Tab(w) = next2
          /\ Dir(n, w) = Dir(n, u) /\ Holds(n, w, start[NoSlot], own2)
      BY <3>3, <3>5, <3>6, <3>7, PutReady DEF w
    <3>9. Ready(n, F, d.v) /\ Tab(d.v) = Tab(w) /\ Dir(n, d.v) = Dir(n, w)
      BY <2>1, <3>1, <3>8, ClusterInt, LastReady
    <3>10. Holds(n, d.v, first, own2)
      BY <2>4, <3>8, <3>9 DEF Holds
    <3>11. Given(n, F, v, clst, first, d)
      BY <2>1, <2>7, <3>1, <3>2, <3>3, <3>5, <3>8, <3>9, <3>10 DEF Given
    <3> QED
      BY <3>11 DEF d
  <2> QED
    BY <2>6, <2>7
<1> QED
  BY <1>1, <1>2

LEMMA CreateReady ==
  ASSUME NEW n \in {1, 2}, NEW F, NEW v, Ready(n, F, v), NEW first, NEW own,
         Holds(n, v, first, own), NEW clst,
         clst = 0 \/ (clst \in own[NoSlot] /\ Tab(v)[clst] = Eoc)
  PROVE  LET d == create_chain(v, clst) IN
         Full(n, F, v, d) \/ Given(n, F, v, clst, first, d)
<1>0. /\ n_fatent(v) \in Nat /\ n_fatent(v) > 2 /\ n_fatent(v) < Eoc
      /\ v.n_fats = n /\ v.last_clst \in Int
  BY SizeFacts DEF Ready
<1>1. CASE clst = 0
  <2> DEFINE ncl == FreeFrom(v, Suggested(v, 1))
  <2>1. create_chain(v, clst) = Linked(v, clst, ncl)
    BY <1>1 DEF create_chain
  <2>2. Suggested(v, 1) \in Int
    BY <1>0 DEF Suggested
  <2>3. ncl = 0 \/ (ncl \in Cluster /\ IsLink(v, ncl) /\ Tab(v)[ncl] = 0)
    BY <2>2, FreeFromIs
  <2> HIDE DEF ncl
  <2> QED
    BY <1>1, <2>1, <2>3, LinkedReady
<1>2. CASE clst # 0
  <2> DEFINE after == IF clst + 1 < n_fatent(v) THEN clst + 1 ELSE 2
             ncl == IF get_fat(v, after) = 0 THEN after ELSE FreeFrom(v, Suggested(v, clst))
  <2>1. clst \in own[NoSlot] /\ Tab(v)[clst] = Eoc /\ clst \in Cluster /\ clst \in Nat /\ clst > 1
    <3>1. own \in [Owner -> SUBSET Cluster] /\ NoSlot \in Owner
      BY OwnType, NoOwner DEF Holds
    <3> QED
      BY <1>2, <3>1, ClusterInt DEF Cluster
  <2>2. create_chain(v, clst) = Linked(v, clst, ncl)
    <3>1. get_fat(v, clst) = Eoc
      BY <2>1, GetReady
    <3>2. ~(Eoc < n_fatent(v))
      BY <1>0 DEF Eoc
    <3> QED
      BY <1>2, <3>1, <3>2 DEF create_chain
  <2>3. Suggested(v, clst) \in Int
    BY <1>0, <2>1 DEF Suggested
  <2>4. IsLink(v, after) /\ after \in Cluster
    <3>1. after >= 2 /\ after < n_fatent(v) /\ after \in Nat
      BY <1>0, <2>1
    <3>2. n_fatent(v) = Sectors - (1 + n + RootSectors) + 2
      BY <1>0 DEF n_fatent, database, dirbase, fatbase
    <3>3. Sectors \in Nat /\ RootSectors \in Nat
      BY Numbers
    <3>4. after \in Cluster
      <4> HIDE DEF after
      <4> QED
        BY <3>1, <3>2, <3>3 DEF Cluster
    <3> HIDE DEF after
    <3> QED
      BY <3>1, <3>4 DEF IsLink
  <2> HIDE DEF after
  <2>5. ncl = 0 \/ (ncl \in Cluster /\ IsLink(v, ncl) /\ Tab(v)[ncl] = 0)
    <3>1. CASE get_fat(v, after) = 0
      BY <2>4, <3>1, GetReady
    <3>2. CASE get_fat(v, after) # 0
      BY <2>3, <3>2, FreeFromIs
    <3> QED
      BY <3>1, <3>2
  <2> HIDE DEF ncl
  <2> QED
    BY <2>1, <2>2, <2>5, LinkedReady
<1> QED
  BY <1>1, <1>2

LEMMA FreedSame ==
  ASSUME NEW v, IsDrive(v), v.wflag \in BOOLEAN
  PROVE  [v EXCEPT !.win = v.win, !.wflag = @ \/ FALSE] = v
BY DEF IsDrive

\* The chain is freed that an owner no longer refers to.
LEMMA RemoveReady ==
  ASSUME NEW n \in {1, 2}, NEW F, NEW v, Ready(n, F, v), NEW first, NEW own,
         Holds(n, v, first, own), NEW o \in Owner,
         ~IsLink(L(n), Starts(Dir(n, v), first)[o]),
         NEW clst \in Cluster, IsLink(v, clst) => clst \in own[o]
  PROVE  LET w == remove_chain(v, clst) IN
         /\ Ready(n, F, w) /\ Dir(n, w) = Dir(n, v)
         /\ Holds(n, w, first, Give(own, o, {}))
<1> DEFINE a == move_window(v, 1)
           w == remove_chain(v, clst)
           start == Starts(Dir(n, v), first)
           old == Chain(v, Tab(v), clst)
           next == Without(Tab(v), old)
           left == Give(own, o, {})
<1>1. /\ Ready(n, F, a) /\ a.winsect = 1 /\ a.win = Seen(v)[1]
      /\ Dir(n, a) = Dir(n, v) /\ Tab(a) = Tab(v)
  BY MetaFacts, MoveReady
<1>2. w = [a EXCEPT !.win = Table(next), !.wflag = @ \/ Tab(v)[clst] # 0]
  <2>1. NextIn(a.win) = Tab(v)
    BY <1>1 DEF Tab
  <2> HIDE DEF a
  <2> QED
    BY <2>1 DEF remove_chain, fatbase, a
<1>3. /\ Owns(n, Tab(v), start, own) /\ Tab(v) \in [Cluster -> Links] /\ v.n_fats = n
      /\ ~IsLink(L(n), start[o])
  BY ReadyFacts DEF Holds, Ready
<1> HIDE DEF a, w
<1>4. Closed(L(n), Tab(v), own[o]) /\ own[o] \in SUBSET Cluster
  BY <1>3, OwnType
<1>5. old \subseteq own[o]
  BY <1>3, <1>4, ChainInside
<1>6. next \in [Cluster -> Links]
  BY <1>3 DEF Without, Links
<1>7. start[NoSlot] = first /\ \A s \in RootSlot : start[s] = Dir(n, v)[s].clust
  BY NoOwner DEF Starts, Owner
<1> HIDE DEF old, start
<1>8. Owns(n, next, start, left)
  BY <1>3, <1>5, OwnFree
<1> HIDE DEF left
<1>9. CASE Tab(v)[clst] # 0
  <2>1. a.wflag \in BOOLEAN
    BY <1>1 DEF Ready
  <2>2. w = Dirtied(a, Table(next))
    BY <1>2, <1>9, <2>1 DEF Dirtied
  <2>3. \A s \in RootSlot : start[s] = Dir(n, a)[s].clust
    BY <1>1, <1>7
  <2> HIDE DEF next
  <2>4. /\ Ready(n, F, w) /\ Dir(n, w) = Dir(n, a) /\ Holds(n, w, start[NoSlot], left)
    BY <1>1, <1>6, <1>8, <2>2, <2>3, TableReady
  <2> QED
    BY <1>1, <1>7, <2>4 DEF w, left
<1>10. CASE Tab(v)[clst] = 0
  <2>1. ~IsLink(v, clst)
    BY <1>3, <1>10, OwnType
  <2>2. old = {}
    BY <2>1 DEF Chain, old
  <2>3. next = Tab(v)
    BY <1>3, <2>2 DEF Without
  <2>4. a.win = Table(next)
    <3>1. IsTable(a.win) /\ NextIn(a.win) = Tab(v)
      BY <1>1, ReadySeen DEF Placed, Tab
    <3>2. a.win # Erased
      <4>1. a.win = Erased => Tab(v)[clst] = Eoc
        BY <3>1 DEF NextIn
      <4> QED
        BY <1>10, <4>1 DEF Eoc
    <3>3. PICK nx \in [Cluster -> Links] : a.win = Table(nx)
      BY <3>1, <3>2 DEF IsTable
    <3> QED
      BY <2>3, <3>1, <3>3, TableFacts
  <2>5. w = a
    <3>1. w = [a EXCEPT !.win = a.win, !.wflag = @ \/ FALSE]
      BY <1>2, <1>10, <2>4
    <3>2. IsDrive(a) /\ a.wflag \in BOOLEAN
      BY <1>1 DEF Ready
    <3> QED
      BY <3>1, <3>2, FreedSame
  <2>6. Holds(n, w, first, left)
    <3>1. Starts(Dir(n, w), first) = start
      BY <1>1, <2>5 DEF start
    <3> QED
      BY <1>1, <1>8, <2>3, <2>5, <3>1 DEF Holds
  <2> QED
    BY <1>1, <2>5, <2>6 DEF w, left
<1> QED
  BY <1>9, <1>10

------------------------------------------------------------------------------
(* Mounting, and what only reads *)

\* A drive, mounted or not, with nothing to write.
Calm(n, f, v) ==
  /\ IsDrive(v) /\ v.wflag = FALSE /\ v.out = <<>> /\ v.disk = f
  /\ v.type # 0 =>
       /\ v.type = 12 /\ v.n_fats = n /\ f[0] = Boot(n) /\ v.last_clst \in Int
       /\ v.winsect \in Meta(n) /\ v.win = f[v.winsect]

LEMMA CalmReady ==
  ASSUME NEW n \in {1, 2}, NEW f, Sound(n, f), NEW v, Calm(n, f, v), v.type # 0
  PROVE  Ready(n, f, v)
<1>1. /\ IsDrive(v) /\ v.wflag = FALSE /\ v.out = <<>> /\ v.disk = f
      /\ v.type = 12 /\ v.n_fats = n /\ f[0] = Boot(n) /\ v.last_clst \in Int
      /\ v.winsect \in Meta(n) /\ v.win = f[v.winsect]
  BY DEF Calm
<1>2. Pending(n, f, v.out) /\ v.disk = Final(f, v.out)
  BY <1>1, PendingNone
<1>3. Seen(v) = f
  <2>1. f = [s \in Disk |-> f[s]]
    BY DEF Sound, Placed
  <2>2. \A s \in Disk : (IF s = v.winsect THEN v.win ELSE v.disk[s]) = f[s]
    BY <1>1
  <2> QED
    BY <2>1, <2>2 DEF Seen
<1> QED
  BY <1>1, <1>2, <1>3 DEF Ready

LEMMA MoveCalm ==
  ASSUME NEW n \in {1, 2}, NEW f, NEW v, Calm(n, f, v), v.type # 0, NEW s \in Meta(n)
  PROVE  Calm(n, f, move_window(v, s)) /\ move_window(v, s).type # 0
<1> DEFINE w == move_window(v, s)
<1>1. CASE s = v.winsect
  BY <1>1 DEF move_window
<1>2. CASE s # v.winsect
  <2>1. sync_window(v) = v /\ IsDrive(v)
    BY DEF sync_window, Calm
  <2>2. w = Shown(v, s, v.disk[s])
    BY <1>2, <2>1 DEF move_window, Shown
  <2> HIDE DEF w
  <2>3. /\ IsDrive(w)
        /\ w.type = v.type /\ w.n_fats = v.n_fats /\ w.winsect = s /\ w.win = v.disk[s]
        /\ w.wflag = v.wflag /\ w.last_clst = v.last_clst /\ w.disk = v.disk /\ w.out = v.out
    BY <2>1, <2>2, ShownIs
  <2>4. Calm(n, f, w) /\ w.type # 0
    BY <2>3 DEF Calm
  <2> QED
    BY <2>4 DEF w
<1> QED
  BY <1>1, <1>2

\* Mounting forgets the window; the boot sector tells how many tables there are.
Forgot(v) == [v EXCEPT !.wflag = FALSE, !.winsect = Nowhere]
Known(w) == [w EXCEPT !.type = 12, !.n_fats = w.win.n_fats, !.last_clst = 0]

LEMMA ForgotIs ==
  ASSUME NEW v, IsDrive(v)
  PROVE  LET w == Forgot(v) IN
         /\ IsDrive(w)
         /\ w.type = v.type /\ w.n_fats = v.n_fats /\ w.winsect = Nowhere /\ w.win = v.win
         /\ w.wflag = FALSE /\ w.last_clst = v.last_clst /\ w.disk = v.disk /\ w.out = v.out
<1> DEFINE u == [v EXCEPT !.wflag = FALSE]
           w == [u EXCEPT !.winsect = Nowhere]
<1>1. IsDrive(u) /\ SameBut(v, u) /\ u.win = v.win /\ u.wflag = FALSE
  BY SetFlag
<1>2. Forgot(v) = w
  BY DEF Forgot
<1> HIDE DEF u
<1>3. /\ IsDrive(w) /\ w.type = u.type /\ w.n_fats = u.n_fats /\ w.winsect = Nowhere
      /\ w.win = u.win /\ w.wflag = u.wflag /\ w.last_clst = u.last_clst /\ w.disk = u.disk
      /\ w.out = u.out
  BY <1>1, SetWinsect
<1> HIDE DEF w
<1> QED
  BY <1>1, <1>2, <1>3 DEF SameBut

LEMMA KnownIs ==
  ASSUME NEW v, IsDrive(v)
  PROVE  LET w == Known(v) IN
         /\ IsDrive(w)
         /\ w.type = 12 /\ w.n_fats = v.win.n_fats /\ w.winsect = v.winsect /\ w.win = v.win
         /\ w.wflag = v.wflag /\ w.last_clst = 0 /\ w.disk = v.disk /\ w.out = v.out
<1> DEFINE k == v.win.n_fats
           t == [v EXCEPT !.type = 12]
           u == [t EXCEPT !.n_fats = k]
           w == [u EXCEPT !.last_clst = 0]
<1>1. /\ IsDrive(t) /\ t.type = 12 /\ t.n_fats = v.n_fats /\ t.winsect = v.winsect
      /\ t.win = v.win /\ t.wflag = v.wflag /\ t.last_clst = v.last_clst
      /\ t.disk = v.disk /\ t.out = v.out
  BY SetType
<1>2. Known(v) = w
  BY DEF Known
<1>k. k = v.win.n_fats
  OBVIOUS
<1> HIDE DEF t, k
<1>3. /\ IsDrive(u) /\ u.type = t.type /\ u.n_fats = k /\ u.winsect = t.winsect
      /\ u.win = t.win /\ u.wflag = t.wflag /\ u.last_clst = t.last_clst
      /\ u.disk = t.disk /\ u.out = t.out
  BY <1>1, SetFats
<1> HIDE DEF u
<1>4. /\ IsDrive(w) /\ w.type = u.type /\ w.n_fats = u.n_fats /\ w.winsect = u.winsect
      /\ w.win = u.win /\ w.wflag = u.wflag /\ w.last_clst = 0
      /\ w.disk = u.disk /\ w.out = u.out
  BY <1>3, SetLast
<1> HIDE DEF w
<1> QED
  BY <1>1, <1>2, <1>3, <1>4, <1>k

LEMMA MountIs ==
  ASSUME NEW v, IsDrive(v)
  PROVE  LET w == mount_volume(v) IN
         /\ IsDrive(w) /\ w.wflag = FALSE /\ w.disk = v.disk /\ w.out = v.out
         /\ w.winsect = 0 /\ w.win = v.disk[0]
         /\ v.disk[0].kind = "boot" =>
              w.type = 12 /\ w.n_fats = v.disk[0].n_fats /\ w.last_clst = 0
         /\ v.disk[0].kind # "boot" => w.type = 0
<1> DEFINE u == Forgot(v)
           x == Shown(u, 0, u.disk[0])
           w == mount_volume(v)
<1>1. /\ IsDrive(u)
      /\ u.winsect = Nowhere /\ u.wflag = FALSE /\ u.disk = v.disk /\ u.out = v.out
  BY ForgotIs
<1>2. move_window(u, 0) = x
  <2>1. sync_window(u) = u /\ 0 # u.winsect
    BY <1>1 DEF sync_window, Nowhere
  <2> HIDE DEF u
  <2> QED
    BY <2>1 DEF move_window, Shown
<1>3. w = IF x.win.kind = "boot" THEN Known(x) ELSE [x EXCEPT !.type = 0]
  <2>1. mount_volume(v) = IF move_window(u, 0).win.kind = "boot" THEN Known(move_window(u, 0))
                          ELSE [move_window(u, 0) EXCEPT !.type = 0]
    BY DEF mount_volume, Known, Forgot
  <2> HIDE DEF x, u
  <2> QED
    BY <1>2, <2>1
<1> HIDE DEF u
<1>4. IsDrive(x) /\ x.winsect = 0 /\ x.win = u.disk[0] /\ x.wflag = u.wflag
      /\ x.disk = u.disk /\ x.out = u.out
  BY <1>1, ShownIs
<1> HIDE DEF x, w
<1>5. CASE x.win.kind = "boot"
  <2>1. w = Known(x)
    BY <1>3, <1>5
  <2>2. /\ IsDrive(w)
        /\ w.type = 12 /\ w.n_fats = x.win.n_fats /\ w.winsect = x.winsect /\ w.win = x.win
        /\ w.wflag = x.wflag /\ w.last_clst = 0 /\ w.disk = x.disk /\ w.out = x.out
    BY <1>4, <2>1, KnownIs
  <2> QED
    BY <1>1, <1>4, <1>5, <2>2 DEF w
<1>6. CASE x.win.kind # "boot"
  <2>1. w = [x EXCEPT !.type = 0]
    BY <1>3, <1>6
  <2>2. /\ IsDrive(w) /\ w.type = 0 /\ w.winsect = x.winsect /\ w.win = x.win
        /\ w.wflag = x.wflag /\ w.disk = x.disk /\ w.out = x.out
    BY <1>4, <2>1, SetType
  <2> QED
    BY <1>1, <1>4, <1>6, <2>2 DEF w
<1> QED
  BY <1>5, <1>6

LEMMA MountCalm ==
  ASSUME NEW n \in {1, 2}, NEW f, Sound(n, f), NEW v, IsDrive(v), v.disk = f, v.out = <<>>
  PROVE  /\ Calm(n, f, mount_volume(v))
         /\ mount_volume(v).type = 0 <=> f[0] = Erased
<1> DEFINE w == mount_volume(v)
<1>1. /\ IsDrive(w) /\ w.wflag = FALSE /\ w.disk = f /\ w.out = <<>>
      /\ w.winsect = 0 /\ w.win = f[0]
      /\ f[0].kind = "boot" => w.type = 12 /\ w.n_fats = f[0].n_fats /\ w.last_clst = 0
      /\ f[0].kind # "boot" => w.type = 0
  BY MountIs
<1> HIDE DEF w
<1>2. f[0] \in {Erased, Boot(n)}
  BY DEF Sound, Placed
<1>3. 0 \in Meta(n)
  BY MetaFacts
<1>4. CASE f[0] = Erased
  <2>1. w.type = 0
    BY <1>1, <1>4, BootFacts
  <2> QED
    BY <1>1, <1>4, <2>1 DEF Calm, w
<1>5. CASE f[0] = Boot(n) /\ f[0] # Erased
  <2>1. f[0].kind = "boot" /\ f[0].n_fats = n
    BY <1>5, BootFacts
  <2> QED
    BY <1>1, <1>3, <1>5, <2>1 DEF Calm, w
<1> QED
  BY <1>2, <1>4, <1>5

LEMMA RemountCalm ==
  ASSUME NEW n \in {1, 2}, NEW f, Sound(n, f), NEW v, IsDrive(v), v.disk = f, v.out = <<>>
  PROVE  /\ Calm(n, f, f_mount(v))
         /\ f_mount(v).type = 0 <=> f[0] = Erased
<1> DEFINE u == [v EXCEPT !.type = 0]
<1>1. IsDrive(u) /\ u.disk = f /\ u.out = <<>>
  BY SetType, SMTT(30)
<1>2. f_mount(v) = mount_volume(u)
  BY DEF f_mount
<1> HIDE DEF u
<1> QED
  BY <1>1, <1>2, MountCalm

LEMMA MountedCalm ==
  ASSUME NEW n \in {1, 2}, NEW f, Sound(n, f), NEW v, Calm(n, f, v)
  PROVE  Calm(n, f, Mounted(v))
<1>1. CASE v.type = 0
  <2>1. IsDrive(v) /\ v.disk = f /\ v.out = <<>>
    BY DEF Calm
  <2>2. Mounted(v) = mount_volume(v)
    BY <1>1 DEF Mounted
  <2> QED
    BY <2>1, <2>2, MountCalm
<1>2. CASE v.type # 0
  BY <1>2 DEF Mounted
<1> QED
  BY <1>1, <1>2

LEMMA OpenCalm ==
  ASSUME NEW n \in {1, 2}, NEW f, Sound(n, f), NEW v, Calm(n, f, v), NEW name
  PROVE  LET o == f_open(v, name) IN
         Calm(n, f, o.v) /\ (o.fp.slot # NoSlot => o.v.type # 0)
<1> DEFINE o == f_open(v, name)
           w == Mounted(v)
           d == dir_find(w, name)
<1>1. Calm(n, f, w)
  BY MountedCalm
<1>2. CASE w.type = 0
  <2>1. o.v = w /\ o.fp = NoFile
    BY <1>2 DEF f_open
  <2>2. o.fp.slot = NoSlot
    BY <2>1 DEF NoFile
  <2> HIDE DEF o, w
  <2> QED
    BY <1>1, <2>1, <2>2 DEF o
<1>3. CASE w.type # 0
  <2>1. o.v = d.v
    BY <1>3 DEF f_open
  <2> DEFINE slot == FirstSlot(w, {name, Ended})
  <2>2. d.v = At(w, slot) /\ slot \in RootSlot \cup {NoSlot}
    BY FirstSlotIs DEF dir_find
  <2> HIDE DEF o, w, d, slot
  <2>3. Calm(n, f, At(w, slot)) /\ At(w, slot).type # 0
    <3>1. RootSectors * SectorSlots - 1 \in RootSlot
      BY Numbers DEF RootSlot
    <3> DEFINE t == IF slot = NoSlot THEN RootSectors * SectorSlots - 1 ELSE slot
    <3>2. t \in RootSlot
      BY <2>2, <3>1
    <3>3. At(w, slot) = move_window(w, SlotSect(w, t))
      BY DEF At
    <3> HIDE DEF t
    <3>4. w.n_fats = n
      BY <1>1, <1>3 DEF Calm
    <3>5. SlotSect(w, t) \in Meta(n)
      BY <3>2, <3>4, SlotPlace, MetaFacts
    <3> QED
      BY <1>1, <1>3, <3>3, <3>5, MoveCalm
  <2> QED
    BY <2>1, <2>2, <2>3 DEF o
<1> QED
  BY <1>2, <1>3

LEMMA StatCalm ==
  ASSUME NEW n \in {1, 2}, NEW f, Sound(n, f), NEW v, Calm(n, f, v), NEW name
  PROVE  Calm(n, f, f_stat(v, name).v)
<1>1. f_stat(v, name).v = f_open(v, name).v
  BY DEF f_stat
<1> QED
  BY <1>1, OpenCalm

LEMMA TimestampCalm ==
  ASSUME NEW n \in {1, 2}, NEW f, Sound(n, f), NEW v, IsDrive(v), v.disk = f, v.out = <<>>
  PROVE  Calm(n, f, usbfs_timestamp(v).v)
<1>1. Calm(n, f, f_mount(v))
  BY RemountCalm
<1> QED
  BY <1>1, StatCalm DEF usbfs_timestamp, Remounted

LEMMA ReadCalm ==
  ASSUME NEW n \in {1, 2}, NEW f, NEW v, Calm(n, f, v), v.type # 0, NEW p
  PROVE  Calm(n, f, f_read(v, p).v)
<1>1. f_read(v, p).v \in {v, move_window(v, fatbase)}
  BY DEF f_read
<1>2. Calm(n, f, move_window(v, fatbase))
  BY MetaFacts, MoveCalm DEF fatbase
<1> QED
  BY <1>1, <1>2

LEMMA FetchCalm ==
  ASSUME NEW n \in {1, 2}, NEW f, Sound(n, f), NEW v, Calm(n, f, v), NEW r \in config_fetch(v)
  PROVE  Calm(n, f, r.v)
<1> DEFINE o == f_open(v, Config)
<1>1. Calm(n, f, o.v) /\ (o.fp.slot # NoSlot => o.v.type # 0)
  BY OpenCalm
<1>2. r.v \in {v, o.v} \/ (r.v = f_read(o.v, o.fp).v /\ o.fp.slot # NoSlot)
  <2>1. PICK all \in {IF o.fp.slot = NoSlot THEN [v |-> o.v, text |-> <<>>]
                      ELSE f_read(o.v, o.fp)} :
          r \in {[v |-> all.v, text |-> all.text, unread |-> FALSE],
                 [v |-> v, text |-> <<>>, unread |-> all.text # <<>>]}
    BY DEF config_fetch
  <2> HIDE DEF o
  <2>2. r.v \in {all.v, v}
    BY <2>1
  <2> QED
    BY <2>1, <2>2
<1> HIDE DEF o
<1> QED
  BY <1>1, <1>2, ReadCalm

------------------------------------------------------------------------------
(* Files, written *)

IsFile(p) ==
  p \in [slot : {p.slot}, sclust : {p.sclust}, objsize : {p.objsize}, fptr : {p.fptr},
         clust : {p.clust}, sect : {p.sect}, buf : {p.buf}, dirty : {p.dirty},
         modified : {p.modified}]

\* The file that is being saved to owns its clusters, the last of which is where it
\* is written next.
Saving(n, v, p) ==
  /\ IsFile(p) /\ p.slot \in RootSlot /\ p.fptr \in Nat
  /\ p.sclust \in {0} \cup Cluster /\ (p.fptr = 0 <=> p.sclust = 0)
  /\ p.dirty \in BOOLEAN /\ (p.dirty => p.sect \in Disk \ Meta(n))
  /\ \E own : /\ Holds(n, v, p.sclust, own)
              /\ p.fptr # 0 => p.clust \in own[NoSlot] /\ Tab(v)[p.clust] = Eoc

LEMMA ReadyHolds ==
  ASSUME NEW n \in {1, 2}, NEW F, NEW v, Ready(n, F, v)
  PROVE  \E own : Holds(n, v, 0, own)
BY DEF Ready, Sound, Kept, Holds, Tab, Dir

LEMMA HoldsSame ==
  ASSUME NEW n, NEW v, NEW w, Tab(w) = Tab(v), Dir(n, w) = Dir(n, v)
  PROVE  /\ \A first, own : Holds(n, v, first, own) => Holds(n, w, first, own)
         /\ \A p : Saving(n, v, p) => Saving(n, w, p)
BY DEF Holds, Saving

\* An entry that refers to nothing.
LEMMA BlankReady ==
  ASSUME NEW n \in {1, 2}, NEW F, NEW v, Ready(n, F, v), NEW slot \in RootSlot,
         NEW entry, entry.clust = 0, NEW first, NEW own, Holds(n, v, first, own)
  PROVE  LET w == SetSlot(v, slot, entry) IN
         /\ Ready(n, F, w) /\ Tab(w) = Tab(v) /\ Dir(n, w)[slot] = entry
         /\ Holds(n, w, first, own)
<1> DEFINE w == SetSlot(v, slot, entry)
           start == Starts(Dir(n, v), first)
           begin == [o \in Owner |-> IF o = slot THEN 0 ELSE start[o]]
<1>1. Owns(n, Tab(v), start, own)
  BY DEF Holds
<1>2. \A o \in Owner : begin[o] \in {start[o], 0}
  OBVIOUS
<1>3. /\ begin[slot] = entry.clust /\ begin[NoSlot] = first
      /\ \A s \in RootSlot \ {slot} : begin[s] = Dir(n, v)[s].clust
  BY NoOwner DEF Starts, Owner
<1> HIDE DEF begin, start
<1>4. Owns(n, Tab(v), begin, own)
  BY <1>1, <1>2, OwnBlank
<1>5. entry.clust \in {0} \cup Cluster
  OBVIOUS
<1>6. /\ Ready(n, F, w) /\ Tab(w) = Tab(v)
      /\ Dir(n, w)[slot] = entry
      /\ Holds(n, w, begin[NoSlot], own)
  BY <1>3, <1>4, <1>5, SetSlotReady
<1> QED
  BY <1>3, <1>6

LEMMA EntryIs ==
  ASSUME NEW name, NEW clust, NEW size, NEW stamp
  PROVE  /\ Entry(name, clust, size, stamp).clust = clust
         /\ EmptyEntry(name).clust = 0
BY DEF Entry, EmptyEntry

LEMMA RegisterReady ==
  ASSUME NEW n \in {1, 2}, NEW F, NEW v, Ready(n, F, v), NEW name
  PROVE  LET d == dir_register(v, name) IN
         Ready(n, F, d.v) /\ d.slot \in RootSlot \cup {NoSlot}
<1> DEFINE a == dir_alloc(v)
           d == dir_register(v, name)
<1>1. Ready(n, F, a.v) /\ a.slot \in RootSlot \cup {NoSlot}
  BY DirAllocReady DEF Moved
<1>2. CASE a.slot = NoSlot
  <2>1. d = a
    BY <1>2 DEF dir_register
  <2> HIDE DEF a, d
  <2> QED
    BY <1>1, <2>1 DEF d
<1>3. CASE a.slot # NoSlot
  <2>1. d.v = SetSlot(a.v, a.slot, EmptyEntry(name)) /\ d.slot = a.slot
    BY <1>3 DEF dir_register
  <2> HIDE DEF a, d
  <2>2. PICK own : Holds(n, a.v, 0, own)
    BY <1>1, ReadyHolds
  <2>3. a.slot \in RootSlot /\ EmptyEntry(name).clust = 0
    BY <1>1, <1>3, EntryIs
  <2>4. Ready(n, F, SetSlot(a.v, a.slot, EmptyEntry(name)))
    BY <1>1, <2>2, <2>3, BlankReady
  <2> QED
    BY <2>1, <2>3, <2>4 DEF d
<1> QED
  BY <1>2, <1>3

LEMMA EmptiedReady ==
  ASSUME NEW n \in {1, 2}, NEW F, NEW v, Ready(n, F, v), NEW slot \in RootSlot
  PROVE  LET w == Emptied(v, slot) IN
         Ready(n, F, w) /\ Dir(n, w)[slot].clust = 0 /\ \E own : Holds(n, w, 0, own)
<1> DEFINE w == Emptied(v, slot)
           cl == Slot(v, slot).clust
           b == Blanked(v, slot)
           r == remove_chain(b, cl)
           a == At(r, slot)
           entry == Entry(Slot(v, slot).name, 0, 0, Fixed)
<1>1. PICK own : Holds(n, v, 0, own)
  BY ReadyHolds
<1>2. entry.clust = 0 /\ b = SetSlot(v, slot, entry)
  BY EntryIs DEF Blanked
<1>3. cl = Dir(n, v)[slot].clust /\ cl \in {0} \cup Cluster
  <2>1. Slot(v, slot) = Dir(n, v)[slot]
    BY SlotReady
  <2>2. Dir(n, v)[slot].clust \in {0} \cup Cluster
    BY ReadyFacts
  <2> QED
    BY <2>1, <2>2
<1>4. w = IF cl = 0 THEN b ELSE [a EXCEPT !.last_clst = cl - 1]
  BY DEF Emptied
<1> HIDE DEF w, entry, b, cl
<1>5. Ready(n, F, b) /\ Tab(b) = Tab(v) /\ Dir(n, b)[slot] = entry /\ Holds(n, b, 0, own)
  BY <1>1, <1>2, BlankReady
<1>6. CASE cl = 0
  <2>1. w = b
    BY <1>4, <1>6
  <2> QED
    BY <1>2, <1>5, <2>1 DEF w
<1>7. CASE cl # 0
  <2>1. cl \in Cluster /\ cl - 1 \in Int
    BY <1>3, <1>7, ClusterInt
  <2>2. slot \in Owner /\ slot # NoSlot
    BY NoOwner DEF Owner
  <2>3. Starts(Dir(n, b), 0)[slot] = 0 /\ Starts(Dir(n, v), 0)[slot] = cl
    BY <1>2, <1>3, <1>5, <2>2 DEF Starts
  <2>4. IsLink(b, cl) => cl \in own[slot]
    <3>1. b.n_fats = n
      BY <1>5 DEF Ready
    <3>2. IsLink(b, cl) => IsLink(L(n), cl)
      BY <2>1, <3>1, LinkFacts DEF Links
    <3>3. IsLink(L(n), Starts(Dir(n, v), 0)[slot]) => Starts(Dir(n, v), 0)[slot] \in own[slot]
      BY <1>1, <2>2, OwnType DEF Holds
    <3> QED
      BY <2>3, <3>2, <3>3
  <2>5. ~IsLink(L(n), Starts(Dir(n, b), 0)[slot])
    BY <2>3, LinkFacts DEF L, Links
  <2>6. Ready(n, F, r) /\ Dir(n, r) = Dir(n, b) /\ Holds(n, r, 0, Give(own, slot, {}))
    BY <1>5, <2>1, <2>2, <2>4, <2>5, RemoveReady
  <2> HIDE DEF r
  <2>7. Ready(n, F, a) /\ Tab(a) = Tab(r) /\ Dir(n, a) = Dir(n, r)
    BY <2>6, AtReady DEF Moved
  <2> HIDE DEF a
  <2>8. w = [a EXCEPT !.last_clst = cl - 1]
    BY <1>4, <1>7
  <2>9. Ready(n, F, w) /\ Tab(w) = Tab(a) /\ Dir(n, w) = Dir(n, a)
    BY <2>1, <2>7, <2>8, LastReady
  <2>10. Holds(n, w, 0, Give(own, slot, {}))
    BY <2>6, <2>7, <2>9, HoldsSame
  <2>11. Dir(n, w)[slot].clust = 0
    BY <1>2, <1>5, <2>6, <2>7, <2>9
  <2> QED
    BY <2>9, <2>10, <2>11 DEF w
<1> QED
  BY <1>6, <1>7

\* A file that has been written to, or emptied.
Touched(p) == [p EXCEPT !.modified = TRUE]

LEMMA OpenedIs ==
  ASSUME NEW v, NEW slot
  PROVE  LET p == Touched(Opened(v, slot)) IN
         /\ IsFile(p)
         /\ p.slot = slot /\ p.sclust = Slot(v, slot).clust
         /\ p.fptr \in {0} /\ p.dirty \in {FALSE}
<1> DEFINE entry == Slot(v, slot)
           q == [NoFile EXCEPT !.slot = slot, !.sclust = entry.clust, !.objsize = entry.size]
           p == Touched(Opened(v, slot))
<1>1. Opened(v, slot) = q
  BY DEF Opened
<1> HIDE DEF entry
<1>2. /\ IsFile(q) /\ q.slot = slot /\ q.sclust = entry.clust /\ q.fptr = 0
      /\ q.dirty = FALSE
  BY DEF IsFile, NoFile
<1> HIDE DEF q
<1>3. IsFile(p) /\ p.slot = q.slot /\ p.sclust = q.sclust /\ p.fptr = q.fptr /\ p.dirty = q.dirty
  BY <1>1, <1>2 DEF IsFile, Touched
<1> HIDE DEF p
<1> QED
  BY <1>2, <1>3 DEF p, entry

\* config_save opens the file, or finds no place for it.
LEMMA CreateFileReady ==
  ASSUME NEW n \in {1, 2}, NEW f, Sound(n, f), NEW v, Calm(n, f, v), NEW name
  PROVE  LET o == f_create(v, name) IN
         /\ Pending(n, f, o.v.out)
         /\ o.fp.slot # NoSlot => Ready(n, f, o.v) /\ Saving(n, o.v, o.fp)
<1> DEFINE o == f_create(v, name)
           w == Mounted(v)
           a == dir_find(w, name)
           d == IF a.slot = NoSlot THEN dir_register(a.v, name) ELSE a
           e == Emptied(d.v, d.slot)
           p == Touched(Opened(e, d.slot))
<1>0. NoFile.slot = NoSlot
  BY DEF NoFile
<1>1. Calm(n, f, w)
  BY MountedCalm
<1>2. CASE w.type = 0
  <2>1. o.v = w /\ o.fp = NoFile
    BY <1>2 DEF f_create
  <2>2. w.out = <<>>
    BY <1>1 DEF Calm
  <2> HIDE DEF o, w
  <2>3. Pending(n, f, o.v.out)
    BY <2>1, <2>2, PendingNone
  <2> QED
    BY <1>0, <2>1, <2>3 DEF o
<1>3. CASE w.type # 0
  <2>1. Ready(n, f, w)
    BY <1>1, <1>3, CalmReady
  <2>2. o = IF d.slot = NoSlot THEN [v |-> d.v, fp |-> NoFile] ELSE [v |-> e, fp |-> p]
    BY <1>3 DEF f_create, Touched
  <2> HIDE DEF o, w
  <2>3. Ready(n, f, d.v) /\ d.slot \in RootSlot \cup {NoSlot}
    <3>1. Ready(n, f, a.v) /\ a.slot \in RootSlot \cup {NoSlot}
      BY <2>1, DirFindReady DEF Moved
    <3> HIDE DEF a
    <3>2. /\ Ready(n, f, dir_register(a.v, name).v)
          /\ dir_register(a.v, name).slot \in RootSlot \cup {NoSlot}
      BY <3>1, RegisterReady
    <3> QED
      BY <3>1, <3>2
  <2> HIDE DEF d
  <2>4. CASE d.slot = NoSlot
    <3>1. o.v = d.v /\ o.fp = NoFile
      BY <2>2, <2>4
    <3>2. Pending(n, f, o.v.out)
      BY <2>3, <3>1 DEF Ready
    <3> QED
      BY <1>0, <3>1, <3>2 DEF o
  <2>5. CASE d.slot # NoSlot
    <3>1. o.v = e /\ o.fp = p
      BY <2>2, <2>5
    <3>2. Ready(n, f, e) /\ Dir(n, e)[d.slot].clust = 0 /\ \E own : Holds(n, e, 0, own)
      BY <2>3, <2>5, EmptiedReady
    <3> HIDE DEF e
    <3>3. /\ IsFile(p) /\ p.slot = d.slot /\ p.sclust = Slot(e, d.slot).clust
          /\ p.fptr = 0 /\ p.dirty = FALSE
      <4> DEFINE t == d.slot
                 z == Touched(Opened(e, t))
      <4> HIDE DEF t
      <4>1. IsFile(z) /\ z.slot = t /\ z.sclust = Slot(e, t).clust
        BY OpenedIs, ZenonT(30)
      <4>2. z.fptr \in {0} /\ z.dirty \in {FALSE}
        BY OpenedIs
      <4> HIDE DEF z
      <4>3. p = z
        BY DEF z, t
      <4> HIDE DEF p
      <4> QED
        BY <4>1, <4>2, <4>3 DEF t
    <3>4. Slot(e, d.slot) = Dir(n, e)[d.slot]
      BY <2>3, <2>5, <3>2, SlotReady
    <3> HIDE DEF p
    <3>5. p.sclust = 0 /\ p.slot \in RootSlot
      BY <2>3, <2>5, <3>2, <3>3, <3>4
    <3>6. Saving(n, e, p)
      <4>1. p.dirty \in BOOLEAN /\ (p.dirty => p.sect \in Disk \ Meta(n))
        BY <3>3
      <4>2. p.fptr \in Nat /\ (p.fptr = 0 <=> p.sclust = 0) /\ ~(p.fptr # 0)
        BY <3>3, <3>5
      <4>3. \E own : Holds(n, e, p.sclust, own)
        BY <3>2, <3>5
      <4> QED
        BY <3>3, <3>5, <4>1, <4>2, <4>3 DEF Saving
    <3>7. Pending(n, f, o.v.out)
      BY <3>1, <3>2 DEF Ready
    <3> QED
      BY <3>1, <3>2, <3>6, <3>7 DEF o
  <2> QED
    BY <2>4, <2>5
<1> QED
  BY <1>2, <1>3

LEMMA WriteBackReady ==
  ASSUME NEW n \in {1, 2}, NEW F, NEW v, Ready(n, F, v), NEW p,
         p.dirty \in BOOLEAN, p.dirty => p.sect \in Disk \ Meta(n)
  PROVE  LET w == WriteBack(v, p) IN
         Ready(n, F, w) /\ Tab(w) = Tab(v) /\ Dir(n, w) = Dir(n, v)
<1>1. CASE p.dirty
  <2> DEFINE w == disk_write(v, p.sect, p.buf)
  <2>1. WriteBack(v, p) = w /\ p.sect \in Disk \ Meta(n)
    BY <1>1 DEF WriteBack
  <2>2. Ready(n, F, w) /\ Alike(n, Seen(v), Seen(w))
    BY <2>1, DataReady
  <2>3. Seen(v)[0] # Erased
    BY ReadySeen
  <2> HIDE DEF w
  <2>4. Tab(w) = Tab(v) /\ Dir(n, w) = Dir(n, v)
    BY <2>2, <2>3, AlikeFacts
  <2> QED
    BY <2>1, <2>2, <2>4
<1>2. CASE ~p.dirty
  BY <1>2 DEF WriteBack
<1> QED
  BY <1>1, <1>2

\* What a puts leaves of the file.
Filled(v, p, clst, unit) ==
  [p EXCEPT !.clust = clst, !.sect = clst2sect(v, clst),
            !.sclust = IF @ = 0 THEN clst ELSE @,
            !.buf = Data(unit), !.dirty = TRUE, !.modified = TRUE,
            !.fptr = @ + 1, !.objsize = IF p.fptr = @ THEN @ + 1 ELSE @]

LEMMA FilledIs ==
  ASSUME NEW v, NEW p, IsFile(p), NEW clst, NEW unit
  PROVE  LET q == Filled(v, p, clst, unit) IN
         IsFile(q) /\ q.slot = p.slot /\ q.clust = clst /\ q.sect = clst2sect(v, clst)
BY DEF IsFile, Filled

LEMMA FilledDirty ==
  ASSUME NEW v, NEW p, IsFile(p), NEW clst, NEW unit
  PROVE  Filled(v, p, clst, unit).dirty = TRUE
BY DEF IsFile, Filled

LEMMA FilledCount ==
  ASSUME NEW v, NEW p, IsFile(p), NEW clst, NEW unit, p.fptr \in Nat
  PROVE  Filled(v, p, clst, unit).fptr = p.fptr + 1
BY DEF IsFile, Filled

LEMMA FilledStart ==
  ASSUME NEW v, NEW p, IsFile(p), NEW clst, NEW unit, p.sclust \in Nat, clst \in Nat
  PROVE  Filled(v, p, clst, unit).sclust = IF p.sclust = 0 THEN clst ELSE p.sclust
BY DEF IsFile, Filled

LEMMA ModifiedIs ==
  ASSUME NEW p, IsFile(p)
  PROVE  LET q == Touched(p) IN
         /\ IsFile(q) /\ q.slot = p.slot /\ q.clust = p.clust /\ q.sect = p.sect
         /\ q.sclust = p.sclust /\ q.dirty = p.dirty /\ q.fptr = p.fptr
BY DEF IsFile, Touched

LEMMA WriteReady ==
  ASSUME NEW n \in {1, 2}, NEW F, NEW v, Ready(n, F, v), NEW p, Saving(n, v, p), NEW unit
  PROVE  LET o == f_write(v, p, unit) IN Ready(n, F, o.v) /\ Saving(n, o.v, o.fp)
<1> DEFINE o == f_write(v, p, unit)
           clst == IF p.fptr = 0 THEN 0 ELSE p.clust
           d == create_chain(v, clst)
           m == Touched(p)
           q == Filled(v, p, d.clust, unit)
           w == WriteBack(d.v, p)
<1>0. /\ IsFile(p) /\ p.slot \in RootSlot /\ p.fptr \in Nat
      /\ p.sclust \in {0} \cup Cluster /\ (p.fptr = 0 <=> p.sclust = 0)
      /\ p.dirty \in BOOLEAN /\ (p.dirty => p.sect \in Disk \ Meta(n))
  BY DEF Saving
<1>01. IsFile(p)
  BY DEF Saving
<1>1. PICK own : /\ Holds(n, v, p.sclust, own)
                 /\ p.fptr # 0 => p.clust \in own[NoSlot] /\ Tab(v)[p.clust] = Eoc
  BY DEF Saving
<1>2. o = IF d.clust < 2 THEN [v |-> d.v, fp |-> m, ok |-> FALSE]
          ELSE [v |-> w, fp |-> q, ok |-> TRUE]
  <2>1. ~(p.fptr = 0 /\ p.sclust # 0)
    BY <1>0
  <2> QED
    BY <2>1 DEF f_write, Filled, Touched
<1>3. clst = 0 \/ (clst \in own[NoSlot] /\ Tab(v)[clst] = Eoc)
  BY <1>1
<1>4. (clst = 0 => p.fptr = 0) /\ (clst # 0 => p.fptr # 0)
  <2>1. p.fptr # 0 => p.clust # 0
    <3>1. own[NoSlot] \in SUBSET Cluster
      BY <1>1, OwnType, NoOwner DEF Holds
    <3> QED
      BY <1>1, <3>1, ClusterInt
  <2> QED
    BY <2>1
<1> HIDE DEF o, clst
<1>5. Full(n, F, v, d) \/ Given(n, F, v, clst, p.sclust, d)
  BY <1>1, <1>3, CreateReady
<1> HIDE DEF d
<1>6. CASE Full(n, F, v, d)
  <2>1. o.v = d.v /\ o.fp = m
    BY <1>2, <1>6 DEF Full
  <2>2. Ready(n, F, d.v) /\ Tab(d.v) = Tab(v) /\ Dir(n, d.v) = Dir(n, v)
    BY <1>6 DEF Full, Moved
  <2>3. /\ IsFile(m) /\ m.slot = p.slot /\ m.clust = p.clust /\ m.sect = p.sect
        /\ m.sclust = p.sclust /\ m.dirty = p.dirty /\ m.fptr = p.fptr
    BY <1>01, ModifiedIs
  <2> HIDE DEF m
  <2>4. Saving(n, v, m)
    BY <1>0, <1>1, <2>3 DEF Saving
  <2>5. Saving(n, d.v, m)
    BY <2>2, <2>4, HoldsSame
  <2> QED
    BY <2>1, <2>2, <2>5 DEF o
<1>7. CASE Given(n, F, v, clst, p.sclust, d)
  <2>1. /\ d.clust \in Cluster /\ IsLink(v, d.clust) /\ Ready(n, F, d.v)
        /\ Tab(d.v)[d.clust] = Eoc
    BY <1>7 DEF Given
  <2>2. PICK own2 : /\ d.clust \in own2[NoSlot]
                    /\ clst = 0 => Holds(n, d.v, d.clust, own2)
                    /\ clst # 0 => Holds(n, d.v, p.sclust, own2)
    BY <1>7 DEF Given
  <2>3. d.clust \in Nat /\ d.clust # 0 /\ ~(d.clust < 2)
    BY <2>1, ClusterInt DEF Cluster
  <2>4. o.v = w /\ o.fp = q
    BY <1>2, <2>3
  <2>5. Ready(n, F, w) /\ Tab(w) = Tab(d.v) /\ Dir(n, w) = Dir(n, d.v)
    BY <1>0, <2>1, WriteBackReady
  <2>6. /\ IsFile(q) /\ q.slot = p.slot /\ q.clust = d.clust /\ q.sect = clst2sect(v, d.clust)
        /\ p.sclust = 0 => q.sclust = d.clust
        /\ p.sclust # 0 => q.sclust = p.sclust
        /\ q.dirty = TRUE /\ q.fptr = p.fptr + 1
    <3> DEFINE x == d.clust
               z == Filled(v, p, x, unit)
    <3>1. x \in Nat /\ x # 0 /\ p.sclust \in Nat /\ p.fptr \in Nat
      BY <1>0, <2>1, <2>3, ClusterInt
    <3> HIDE DEF x
    <3>2. IsFile(z) /\ z.slot = p.slot /\ z.clust = x /\ z.sect = clst2sect(v, x)
      BY <1>01, FilledIs
    <3>3. z.dirty = TRUE
      BY <1>01, FilledDirty
    <3>4. z.fptr = p.fptr + 1
      BY <1>01, <3>1, FilledCount
    <3>5. z.sclust = IF p.sclust = 0 THEN x ELSE p.sclust
      BY <1>01, <3>1, FilledStart
    <3> HIDE DEF z
    <3>6. q = z
      BY DEF z, x
    <3> HIDE DEF q
    <3> QED
      BY <3>2, <3>3, <3>4, <3>5, <3>6 DEF x
  <2> HIDE DEF w, q
  <2>7. Holds(n, d.v, q.sclust, own2)
    BY <1>0, <1>4, <2>2, <2>6
  <2>8. q.sect \in Disk \ Meta(n)
    <3>1. v.n_fats = n /\ d.clust \in Links
      BY <2>1 DEF Ready, Links
    <3>2. clst2sect(v, d.clust) \in n + RootSectors + 1 .. Sectors - 1
      BY <2>1, <3>1, LinkFacts
    <3> QED
      BY <2>6, <3>2, MetaFacts
  <2>9. q.fptr \in Nat /\ q.fptr # 0 /\ q.sclust \in Cluster /\ q.sclust # 0
    BY <1>0, <2>1, <2>3, <2>6, ClusterInt
  <2>10. Saving(n, d.v, q)
    BY <1>0, <2>1, <2>2, <2>6, <2>7, <2>8, <2>9 DEF Saving
  <2>11. Saving(n, w, q)
    BY <2>5, <2>10, HoldsSame
  <2> QED
    BY <2>4, <2>5, <2>11 DEF o
<1> QED
  BY <1>5, <1>6, <1>7

LEMMA CloseReady ==
  ASSUME NEW n \in {1, 2}, NEW F, NEW v, Ready(n, F, v), NEW p, Saving(n, v, p)
  PROVE  Ready(n, F, f_close(v, p))
<1> DEFINE w == WriteBack(v, p)
           entry == Entry(Slot(w, p.slot).name, p.sclust, p.objsize, Fixed)
           r == SetSlot(w, p.slot, entry)
<1>0. /\ p.slot \in RootSlot /\ p.sclust \in {0} \cup Cluster
      /\ p.dirty \in BOOLEAN /\ (p.dirty => p.sect \in Disk \ Meta(n))
  BY DEF Saving
<1>1. PICK own : Holds(n, v, p.sclust, own)
  BY DEF Saving
<1>2. f_close(v, p) = IF p.modified THEN sync_window(r) ELSE v
  BY DEF f_close, sync_fs
<1>3. Ready(n, F, w) /\ Tab(w) = Tab(v) /\ Dir(n, w) = Dir(n, v)
  BY <1>0, WriteBackReady
<1>4. entry.clust = p.sclust
  BY EntryIs
<1> HIDE DEF w, entry
<1>5. Holds(n, w, p.sclust, own)
  BY <1>1, <1>3, HoldsSame
<1> DEFINE start == Starts(Dir(n, w), p.sclust)
           begin == [o \in Owner |-> IF o = p.slot THEN p.sclust
                                     ELSE IF o = NoSlot THEN 0 ELSE start[o]]
<1>6. NoSlot \in Owner /\ p.slot \in Owner /\ NoSlot # p.slot
  BY <1>0, NoOwner DEF Owner
<1>7. Owns(n, Tab(w), start, own) /\ Tab(w) \in [Cluster -> Links]
  BY <1>3, <1>5, ReadyFacts DEF Holds
<1>8. /\ begin[p.slot] = start[NoSlot] /\ begin[NoSlot] = 0
      /\ \A q \in Owner \ {NoSlot, p.slot} : begin[q] = start[q]
      /\ begin[p.slot] = entry.clust
      /\ \A s \in RootSlot \ {p.slot} : begin[s] = Dir(n, w)[s].clust
  BY <1>4, <1>6, NoOwner DEF Starts, Owner
<1> HIDE DEF start, begin
<1>9. Owns(n, Tab(w), begin, Swap(own, NoSlot, p.slot))
  BY <1>6, <1>7, <1>8, OwnSwap
<1>10. Ready(n, F, r)
  BY <1>0, <1>3, <1>4, <1>8, <1>9, SetSlotReady
<1> HIDE DEF r
<1>11. Ready(n, F, sync_window(r))
  BY <1>10, SyncReady
<1> QED
  BY <1>2, <1>11

\* f_setlabel.
LEMMA LabelReady ==
  ASSUME NEW n \in {1, 2}, NEW f, Sound(n, f),
         NEW v, IsDrive(v), v.disk = f, v.out = <<>>, v.type = 0
  PROVE  LET w == f_setlabel(v) IN IsDrive(w) /\ Pending(n, f, w.out)
<1> DEFINE w == Mounted(v)
           slot == FirstSlot(w, {Label, Ended})
           d == IF slot # NoSlot /\ Slot(w, slot).name = Label THEN [v |-> w, slot |-> slot]
                ELSE dir_alloc(w)
           r == SetSlot(d.v, d.slot, EmptyEntry(Label))
<1>1. Calm(n, f, w)
  BY MountCalm DEF Mounted
<1>2. f_setlabel(v) = IF w.type = 0 THEN w ELSE IF d.slot = NoSlot THEN d.v ELSE sync_window(r)
  BY DEF f_setlabel, sync_fs
<1> HIDE DEF w
<1>3. CASE w.type = 0
  <2>1. f_setlabel(v) = w
    BY <1>2, <1>3
  <2>2. IsDrive(w) /\ w.out = <<>>
    BY <1>1 DEF Calm
  <2> QED
    BY <2>1, <2>2, PendingNone
<1>4. CASE w.type # 0
  <2>1. Ready(n, f, w)
    BY <1>1, <1>4, CalmReady
  <2>2. Ready(n, f, d.v) /\ d.slot \in RootSlot \cup {NoSlot}
    <3>1. slot \in RootSlot \cup {NoSlot}
      BY FirstSlotIs
    <3>2. Ready(n, f, dir_alloc(w).v) /\ dir_alloc(w).slot \in RootSlot \cup {NoSlot}
      BY <2>1, DirAllocReady DEF Moved
    <3> HIDE DEF slot
    <3>3. d \in {[v |-> w, slot |-> slot], dir_alloc(w)}
      OBVIOUS
    <3> HIDE DEF d
    <3>4. CASE d = [v |-> w, slot |-> slot]
      BY <2>1, <3>1, <3>4
    <3>5. CASE d = dir_alloc(w)
      BY <3>2, <3>5
    <3> QED
      BY <3>3, <3>4, <3>5
  <2> HIDE DEF d
  <2>3. d.slot # NoSlot => Ready(n, f, sync_window(r))
    <3>1. PICK own : Holds(n, d.v, 0, own)
      BY <2>2, ReadyHolds
    <3>2. EmptyEntry(Label).clust = 0
      BY EntryIs
    <3>3. d.slot # NoSlot => Ready(n, f, r)
      BY <2>2, <3>1, <3>2, BlankReady
    <3> HIDE DEF r
    <3> QED
      BY <3>3, SyncReady
  <2>4. Ready(n, f, f_setlabel(v))
    BY <1>2, <1>4, <2>2, <2>3
  <2> QED
    BY <2>4 DEF Ready
<1> QED
  BY <1>3, <1>4

------------------------------------------------------------------------------
(* Writes after writes *)

LEMMA ConcatFacts ==
  ASSUME NEW w, IsSeq(w), NEW x, IsSeq(x)
  PROVE  /\ IsSeq(w \o x)
         /\ Len(w \o x) = Len(w) + Len(x)
         /\ \A i \in 1 .. Len(w) : (w \o x)[i] = w[i]
         /\ \A i \in 1 .. Len(x) : (w \o x)[Len(w) + i] = x[i]
<1> DEFINE S == Range(w) \cup Range(x)
           y == w \o x
<1>1. w \in Seq(S) /\ x \in Seq(S)
  <2>1. w \in Seq(Range(w)) /\ x \in Seq(Range(x)) /\ Range(w) \subseteq S /\ Range(x) \subseteq S
    BY DEF IsSeq
  <2> HIDE DEF S
  <2> QED
    BY <2>1, SeqMonotonic
<1>2. Len(w) \in Nat /\ Len(x) \in Nat
  BY SeqFacts
<1> HIDE DEF S
<1>3. /\ y \in Seq(S) /\ Len(y) = Len(w) + Len(x)
      /\ \A i \in 1 .. Len(w) + Len(x) : y[i] = IF i <= Len(w) THEN w[i] ELSE x[i - Len(w)]
  BY <1>1, ConcatProperties
<1> HIDE DEF y
<1>4. DOMAIN y = 1 .. Len(y) /\ Len(y) \in Nat /\ y = [i \in 1 .. Len(y) |-> y[i]]
  BY <1>3, LenProperties
<1>5. IsSeq(y)
  BY <1>4, FunctionIsSeq
<1>6. \A i \in 1 .. Len(w) : y[i] = w[i]
  BY <1>2, <1>3
<1>7. ASSUME NEW i \in 1 .. Len(x) PROVE y[Len(w) + i] = x[i]
  <2>1. /\ Len(w) + i \in 1 .. Len(w) + Len(x) /\ ~(Len(w) + i <= Len(w))
        /\ (Len(w) + i) - Len(w) = i
    BY <1>2
  <2> QED
    BY <1>3, <2>1
<1> QED
  BY <1>3, <1>5, <1>6, <1>7 DEF y

LEMMA ConcatEmpty ==
  ASSUME NEW w, IsSeq(w)
  PROVE  <<>> \o w = w /\ w \o <<>> = w
<1> DEFINE S == Range(w)
<1>1. w \in Seq(S)
  BY DEF IsSeq
<1> HIDE DEF S
<1> QED
  BY <1>1, ConcatEmptySeq

LEMMA AfterConcat ==
  ASSUME NEW f, NEW w, IsSeq(w), NEW x, IsSeq(x), NEW k \in 0 .. Len(x)
  PROVE  After(f, w \o x, Len(w) + k) = After(Final(f, w), x, k)
<1> DEFINE y == w \o x
           b == Len(w)
           g == Final(f, w)
<1>00. b \in Nat /\ Len(x) \in Nat
  BY SeqFacts
<1>01. /\ \A i \in 1 .. b : y[i] = w[i]
       /\ \A i \in 1 .. Len(x) : y[b + i] = x[i]
  BY ConcatFacts
<1> HIDE DEF y, b
<1>0. /\ b \in Nat /\ k \in Nat /\ b + k \in Nat
      /\ \A i \in 1 .. b : y[i] = w[i]
      /\ \A i \in 1 .. k : y[b + i] = x[i]
  BY <1>00, <1>01
<1>1. DOMAIN g = DOMAIN f /\ g = After(f, w, b)
  BY AfterDomain DEF Final, b
<1> HIDE DEF g
<1>2. ASSUME NEW s \in DOMAIN f PROVE After(f, y, b + k)[s] = After(g, x, k)[s]
  <2>0. \A i \in b + 1 .. b + k : i - b \in 1 .. k /\ y[i] = x[i - b]
    <3>1. ASSUME NEW i \in b + 1 .. b + k PROVE i - b \in 1 .. k /\ b + (i - b) = i
      BY <1>0
    <3> QED
      BY <1>0, <3>1
  <2>1. CASE NoneTo(x, k, s)
    <3>1. After(g, x, k)[s] = After(f, w, b)[s]
      BY <1>0, <1>1, <2>1, AfterNone
    <3>2. \A i \in b + 1 .. b + k : y[i].sect # s
      BY <2>0, <2>1 DEF NoneTo
    <3>3. CASE NoneTo(w, b, s)
      <4>1. NoneTo(y, b + k, s)
        <5>1. ASSUME NEW i \in 1 .. b + k PROVE y[i].sect # s
          <6>1. i \in 1 .. b \/ i \in b + 1 .. b + k
            BY <1>0
          <6> QED
            BY <1>0, <3>2, <3>3, <6>1 DEF NoneTo
        <5> QED
          BY <5>1 DEF NoneTo
      <4> QED
        BY <1>0, <3>1, <3>3, <4>1, AfterNone
    <3>4. ASSUME NEW m, LastTo(w, b, s, m) PROVE After(f, y, b + k)[s] = After(g, x, k)[s]
      <4>1. m \in 1 .. b /\ y[m] = w[m] /\ w[m].sect = s
        BY <1>0, <3>4 DEF LastTo
      <4>2. ASSUME NEW i \in m + 1 .. b + k PROVE y[i].sect # s
        <5>1. i \in m + 1 .. b \/ i \in b + 1 .. b + k
          BY <1>0, <4>1
        <5>2. i \in m + 1 .. b => i \in 1 .. b
          BY <1>0, <4>1
        <5> QED
          BY <1>0, <3>2, <3>4, <5>1, <5>2 DEF LastTo
      <4>3. m \in 1 .. b + k
        BY <1>0, <4>1
      <4>4. LastTo(y, b + k, s, m)
        BY <4>1, <4>2, <4>3 DEF LastTo
      <4>5. After(f, y, b + k)[s] = y[m].content
        BY <1>0, <4>4, AfterLast
      <4>6. After(f, w, b)[s] = w[m].content
        BY <1>0, <3>4, AfterLast
      <4> QED
        BY <3>1, <4>1, <4>5, <4>6
    <3> QED
      BY <1>0, <3>3, <3>4, NoneOrLast
  <2>2. ASSUME NEW m, LastTo(x, k, s, m) PROVE After(f, y, b + k)[s] = After(g, x, k)[s]
    <3>1. m \in 1 .. k /\ b + m \in 1 .. b + k /\ y[b + m] = x[m] /\ x[m].sect = s
      BY <1>0, <2>2 DEF LastTo
    <3>2. ASSUME NEW i \in (b + m) + 1 .. b + k PROVE y[i].sect # s
      <4>1. i \in b + 1 .. b + k /\ i - b \in m + 1 .. k
        BY <1>0, <3>1
      <4> QED
        BY <2>0, <2>2, <4>1 DEF LastTo
    <3>3. LastTo(y, b + k, s, b + m)
      BY <3>1, <3>2 DEF LastTo
    <3>4. After(g, x, k)[s] = x[m].content
      BY <1>0, <1>1, <2>2, AfterLast
    <3>5. After(f, y, b + k)[s] = y[b + m].content
      BY <1>0, <3>3, AfterLast
    <3> QED
      BY <3>1, <3>4, <3>5
  <2> QED
    BY <1>0, <2>1, <2>2, NoneOrLast
<1>3. After(f, y, b + k) = After(g, x, k)
  BY <1>1, <1>2, AfterDomain
<1> QED
  BY <1>3 DEF y, b, g

\* Writes that lose nothing, and then others that do not.
LEMMA PendingConcat ==
  ASSUME NEW n \in {1, 2}, NEW f, NEW w, Pending(n, f, w), NEW x,
         Pending(n, Final(f, w), x), Final(f, w)[0] # Erased
  PROVE  Pending(n, f, w \o x) /\ Final(f, w \o x) = Final(Final(f, w), x)
<1> DEFINE y == w \o x
           b == Len(w)
<1>0. IsSeq(w) /\ IsSeq(x) /\ b \in Nat /\ Len(x) \in Nat
  BY SeqFacts DEF Pending
<1>1. /\ IsSeq(y) /\ Len(y) = b + Len(x)
      /\ \A i \in 1 .. b : y[i] = w[i]
      /\ \A i \in 1 .. Len(x) : y[b + i] = x[i]
  BY <1>0, ConcatFacts
<1>2. \A k \in 0 .. Len(x) : After(f, y, b + k) = After(Final(f, w), x, k)
  BY <1>0, AfterConcat
<1> HIDE DEF y
<1>3. \A k \in 0 .. b : After(f, y, k) = After(f, w, k)
  BY <1>0, <1>1, AfterSame
<1>4. ASSUME NEW k \in 0 .. Len(y) PROVE Sound(n, After(f, y, k))
  <2>1. CASE k \in 0 .. b
    BY <1>3, <2>1 DEF Pending
  <2>2. CASE k \notin 0 .. b
    <3>1. k - b \in 0 .. Len(x) /\ b + (k - b) = k
      BY <1>0, <1>1, <2>2
    <3> QED
      BY <1>2, <3>1 DEF Pending
  <2> QED
    BY <2>1, <2>2
<1>5. ASSUME NEW i \in 1 .. Len(y)
      PROVE  y[i].sect \in Disk /\ (y[i].sect = 0 => i = 1 /\ f[0] = Erased)
  <2>1. CASE i \in 1 .. b
    BY <1>1, <2>1 DEF Pending
  <2>2. CASE i \notin 1 .. b
    <3>1. i - b \in 1 .. Len(x) /\ b + (i - b) = i
      BY <1>0, <1>1, <2>2
    <3>2. y[i] = x[i - b]
      BY <1>1, <3>1
    <3> QED
      BY <3>1, <3>2 DEF Pending
  <2> QED
    BY <2>1, <2>2
<1>6. Pending(n, f, y)
  BY <1>1, <1>4, <1>5 DEF Pending
<1>7. Final(f, y) = Final(Final(f, w), x)
  BY <1>0, <1>1, <1>2 DEF Final
<1> QED
  BY <1>6, <1>7 DEF y

\* Sectors of data.
LEMMA PendingData ==
  ASSUME NEW n \in {1, 2}, NEW f, Sound(n, f), f[0] # Erased, NEW w, IsSeq(w),
         \A i \in 1 .. Len(w) : w[i].sect \in Disk \ Meta(n)
  PROVE  Pending(n, f, w) /\ \A s \in Meta(n) : Final(f, w)[s] = f[s]
<1>0. Len(w) \in Nat
  BY SeqFacts
<1>1. /\ DOMAIN f = Disk /\ Meta(n) \subseteq Disk /\ 0 \in Meta(n) /\ 1 \in Meta(n)
      /\ \A s \in DirSects(n) : s \in Meta(n)
  BY MetaFacts DEF Sound, Placed
<1>2. ASSUME NEW k \in 0 .. Len(w), NEW s \in Meta(n) PROVE After(f, w, k)[s] = f[s]
  <2>1. NoneTo(w, k, s)
    BY <1>0 DEF NoneTo
  <2> QED
    BY <1>0, <1>1, <2>1, AfterNone
<1>3. ASSUME NEW k \in 0 .. Len(w) PROVE Sound(n, After(f, w, k))
  <2> DEFINE g == After(f, w, k)
  <2>1. g = [s \in Disk |-> g[s]]
    BY <1>1, AfterDomain
  <2>2. g[0] = f[0] /\ g[1] = f[1] /\ \A s \in DirSects(n) : g[s] = f[s]
    BY <1>1, <1>2
  <2> HIDE DEF g
  <2>3. Sound(n, g)
    BY <2>1, <2>2, SoundSame
  <2> QED
    BY <2>3 DEF g
<1>4. ASSUME NEW i \in 1 .. Len(w)
      PROVE  w[i].sect \in Disk /\ (w[i].sect = 0 => i = 1 /\ f[0] = Erased)
  BY <1>1
<1>5. Pending(n, f, w)
  BY <1>3, <1>4 DEF Pending
<1>6. \A s \in Meta(n) : Final(f, w)[s] = f[s]
  BY <1>0, <1>2 DEF Final
<1> QED
  BY <1>5, <1>6

\* One sector.
LEMMA PendingOne ==
  ASSUME NEW n \in {1, 2}, NEW f, Sound(n, f), NEW x, x.sect \in Disk \ {0},
         Sound(n, [f EXCEPT ![x.sect] = x.content])
  PROVE  Pending(n, f, <<x>>) /\ Final(f, <<x>>) = [f EXCEPT ![x.sect] = x.content]
<1> DEFINE none == <<>>
<1>1. Append(none, x) = <<x>>
  OBVIOUS
<1>2. Pending(n, f, none) /\ Final(f, none) = f
  BY PendingNone
<1> HIDE DEF none
<1>3. /\ Pending(n, f, Append(none, x))
      /\ Final(f, Append(none, x)) = [f EXCEPT ![x.sect] = x.content]
  BY <1>2, PendingMore
<1> QED
  BY <1>1, <1>3

LEMMA WriteIs ==
  ASSUME NEW s, NEW x
  PROVE  Write(s, x).sect = s /\ Write(s, x).content = x
BY DEF Write

\* The table, twice if there are two.
LEMMA PendingTables ==
  ASSUME NEW n \in {1, 2}, NEW f, Sound(n, f), f[0] = Boot(n), NEW v, v.n_fats = n,
         NEW next \in [Cluster -> Links], Kept(n, next, Starts(SlotsAt(n, f), 0))
  PROVE  LET w == Tables(v, next) IN
         /\ Pending(n, f, w)
         /\ NextIn(Final(f, w)[1]) = next /\ SlotsAt(n, Final(f, w)) = SlotsAt(n, f)
         /\ \A s \in Meta(n) \ {1} : Final(f, w)[s] = f[s]
<1> DEFINE w == Tables(v, next)
           x == Table(next)
           g == [f EXCEPT ![1] = x]
           h == [g EXCEPT ![2] = x]
<1>1. /\ w = [i \in 1 .. n |-> w[i]] /\ DOMAIN w = 1 .. n
      /\ \A i \in 1 .. n : w[i].sect = i /\ w[i].content = x
  <2>1. w = [i \in 1 .. n |-> Write(fatbase + i - 1, x)]
    BY DEF Tables
  <2>2. \A i \in 1 .. n : fatbase + i - 1 = i
    BY DEF fatbase
  <2>3. \A i \in 1 .. n : w[i] = Write(fatbase + i - 1, x)
    BY <2>1
  <2> HIDE DEF w, x
  <2> QED
    BY <2>1, <2>2, <2>3, WriteIs
<1>2. IsSeq(w) /\ Len(w) = n
  <2> HIDE DEF w
  <2> QED
    BY <1>1, FunctionIsSeq
<1>3. IsTable(x) /\ NextIn(x) = next
  BY TableFacts
<1>4. f[0] # Erased /\ Placed(n, f) /\ DOMAIN f = Disk /\ f = [s \in Disk |-> f[s]]
  BY BootFacts, PlacedFacts DEF Sound, Placed
<1>5. 1 \in Disk /\ 1 # 0 /\ 0 \in Disk /\ 1 \in Meta(n) /\ (n = 2 => 2 \in Disk \ Meta(n))
      /\ Meta(n) \subseteq Disk
  BY MetaFacts
<1> HIDE DEF w, x
<1>6. Sound(n, g) /\ SlotsAt(n, g) = SlotsAt(n, f)
  BY <1>3, <1>4, SoundTable
<1>7. g[0] = f[0] /\ g[1] = x /\ DOMAIN g = Disk /\ \A s \in Meta(n) \ {1} : g[s] = f[s]
  BY <1>4, <1>5
<1>8. 1 \in 1 .. n /\ w[1].sect = 1 /\ w[1].content = x
  BY <1>1
<1>9. After(f, w, 0) = f
  BY <1>4, AfterZero
<1>10. After(f, w, 1) = g
  <2>0. PICK k \in Nat : k = 0
    OBVIOUS
  <2>1. After(f, w, k + 1) = [After(f, w, k) EXCEPT ![w[k + 1].sect] = w[k + 1].content]
    BY AfterStep
  <2> QED
    BY <1>8, <1>9, <2>0, <2>1
<1> HIDE DEF g
<1>11. CASE n = 1
  <2>1. Final(f, w) = g
    BY <1>2, <1>10, <1>11 DEF Final
  <2>2. \A i \in 1 .. Len(w) : w[i].sect \in Disk /\ w[i].sect # 0
    BY <1>1, <1>2, <1>5, <1>11
  <2>3. \A k \in 0 .. Len(w) : Sound(n, After(f, w, k))
    <3>1. 0 .. Len(w) = {0, 1}
      BY <1>2, <1>11
    <3> QED
      BY <1>6, <1>9, <1>10, <3>1
  <2>4. Pending(n, f, w)
    BY <1>2, <2>2, <2>3 DEF Pending
  <2> QED
    BY <1>3, <1>6, <1>7, <2>1, <2>4 DEF w
<1>12. CASE n = 2
  <2>1. w[2].sect = 2 /\ w[2].content = x
    BY <1>1, <1>12
  <2>2. After(f, w, 2) = h
    <3>0. PICK k \in Nat : k = 1
      OBVIOUS
    <3>1. After(f, w, k + 1) = [After(f, w, k) EXCEPT ![w[k + 1].sect] = w[k + 1].content]
      BY AfterStep
    <3> QED
      BY <1>10, <2>1, <3>0, <3>1
  <2>3. 2 \in Disk /\ 2 # 0 /\ 2 # 1 /\ 2 \notin DirSects(n)
    BY <1>12, Numbers
  <2>4. Sound(n, h)
    BY <1>4, <1>6, <1>7, <2>3, SoundData
  <2>5. \A s \in Meta(n) : h[s] = g[s]
    BY <1>5, <1>7, <1>12
  <2>6. h = [s \in Disk |-> h[s]]
    BY <1>7
  <2> HIDE DEF h
  <2>7. SlotsAt(n, h) = SlotsAt(n, g)
    <3>1. \A s \in DirSects(n) : h[s] = g[s]
      BY <2>5, MetaFacts
    <3>2. h[0] = g[0] /\ h[1] = g[1] /\ g[0] # Erased
      BY <1>4, <1>5, <1>7, <2>5, MetaFacts
    <3> QED
      BY <2>6, <3>1, <3>2, SoundSame
  <2>8. Final(f, w) = h
    BY <1>2, <1>12, <2>2 DEF Final
  <2>9. \A i \in 1 .. Len(w) : w[i].sect \in Disk /\ w[i].sect # 0
    BY <1>1, <1>2, <1>5, <1>12, <2>3
  <2>10. \A k \in 0 .. Len(w) : Sound(n, After(f, w, k))
    <3>1. 0 .. Len(w) = {0, 1, 2}
      BY <1>2, <1>12
    <3> QED
      BY <1>6, <1>9, <1>10, <2>2, <2>4, <3>1
  <2>11. Pending(n, f, w)
    BY <1>2, <2>9, <2>10 DEF Pending
  <2>12. h[1] = x
    BY <1>5, <1>7, <2>5
  <2>13. \A s \in Meta(n) \ {1} : h[s] = f[s]
    BY <1>7, <2>5
  <2> QED
    BY <1>3, <1>6, <2>7, <2>8, <2>11, <2>12, <2>13 DEF w
<1> QED
  BY <1>11, <1>12

\* f_mkfs begins with the boot sector, on flash that is erased.
LEMMA FormatPending ==
  ASSUME NEW n \in {1, 2}, NEW f, f = [s \in Disk |-> f[s]], \A s \in Disk : f[s] = Erased,
         NEW v, IsDrive(v), v.out = <<>>
  PROVE  LET w == f_mkfs(v, n) IN w.type = 0 /\ Pending(n, f, w.out)
<1> DEFINE next == [c \in Cluster |-> 0]
           Content(sect) == IF sect = 0 THEN Boot(n)
                            ELSE IF sect <= n THEN Table(next) ELSE NoEntries
           last == n + RootSectors
           w == [i \in 1 .. last + 1 |-> [sect |-> i - 1, content |-> Content(i - 1)]]
<1>0. last \in Nat /\ last + 1 \in Nat /\ \A s \in 0 .. last : s \in Disk
  BY Numbers, FatFsAssumption DEF Disk
<1>1. IsSeq(w) /\ Len(w) = last + 1
  <2>1. DOMAIN w = 1 .. last + 1 /\ w = [i \in 1 .. last + 1 |-> w[i]]
    OBVIOUS
  <2> HIDE DEF w, last
  <2> QED
    BY <1>0, <2>1, FunctionIsSeq
<1>2. f_mkfs(v, n).type = 0 /\ f_mkfs(v, n).out = w
  <2>1. f_mkfs(v, n).type = 0 /\ f_mkfs(v, n).out = v.out \o w
    <3>1. f_mkfs(v, n) = [v EXCEPT !.type = 0, !.win = NoEntries, !.out = @ \o w,
                 !.disk = [s \in DOMAIN @ |-> IF s <= last THEN Content(s) ELSE @[s]]]
      BY DEF f_mkfs
    <3> HIDE DEF w, Content, last
    <3> QED
      BY <3>1 DEF IsDrive
  <2> HIDE DEF w
  <2> QED
    BY <1>1, <2>1, ConcatEmpty
<1>3. \A i \in 1 .. last + 1 : w[i].sect = i - 1 /\ w[i].content = Content(i - 1)
  OBVIOUS
<1>4. /\ IsTable(Content(1)) /\ NextIn(Content(1)) = next /\ next \in [Cluster -> Links]
  <2>1. next \in [Cluster -> Links] /\ Content(1) = Table(next)
    BY DEF Links
  <2> HIDE DEF next
  <2> QED
    BY <2>1, TableFacts
<1>5. \A s \in DirSects(n) : Content(s) = NoEntries
  BY Numbers DEF DirSects
<1>6. /\ IsDir(NoEntries) /\ SlotsIn(NoEntries) = [i \in SlotIndex |-> EmptyEntry(Ended)]
      /\ \A i \in SlotIndex : SlotsIn(NoEntries)[i].clust = 0
  <2> DEFINE slots == [i \in SlotIndex |-> EmptyEntry(Ended)]
  <2>1. \A i \in SlotIndex : slots[i].clust = 0 /\ slots[i].clust \in {0} \cup Cluster
    BY EntryIs
  <2>2. slots = [i \in SlotIndex |-> slots[i]]
    OBVIOUS
  <2> HIDE DEF slots
  <2>3. SlotsIn(Entries(slots)) = slots /\ IsDir(Entries(slots))
    BY <2>1, <2>2, EntriesFacts
  <2> QED
    BY <2>1, <2>3 DEF NoEntries, slots
<1>7. Content(0) = Boot(n)
  OBVIOUS
<1> HIDE DEF w, Content, last
<1>8. ASSUME NEW k \in 0 .. last + 1 PROVE Sound(n, After(f, w, k))
  <2> DEFINE g == After(f, w, k)
  <2>0. k \in Nat /\ DOMAIN f = Disk /\ DOMAIN g = Disk /\ g = [s \in Disk |-> g[s]]
    BY <1>0, AfterDomain
  <2>1. ASSUME NEW s \in Disk, s \in Nat PROVE g[s] = IF s < k THEN Content(s) ELSE Erased
    <3>1. CASE s < k
      <4>1. s + 1 \in 1 .. k /\ s + 1 \in 1 .. last + 1 /\ (s + 1) - 1 = s
        BY <1>0, <2>0, <2>1, <3>1
      <4>2. ASSUME NEW i \in (s + 1) + 1 .. k PROVE w[i].sect # s
        <5>1. i \in 1 .. last + 1 /\ i - 1 # s
          BY <1>0, <2>0, <2>1
        <5> QED
          BY <1>3, <5>1
      <4>3. w[s + 1].sect = s /\ w[s + 1].content = Content(s)
        BY <1>3, <4>1
      <4>4. LastTo(w, k, s, s + 1)
        BY <4>1, <4>2, <4>3 DEF LastTo
      <4> QED
        BY <2>0, <3>1, <4>3, <4>4, AfterLast
    <3>2. CASE ~(s < k)
      <4>1. ASSUME NEW i \in 1 .. k PROVE w[i].sect # s
        <5>1. i \in 1 .. last + 1 /\ i - 1 # s
          BY <1>0, <2>0, <2>1, <3>2
        <5> QED
          BY <1>3, <5>1
      <4>2. NoneTo(w, k, s)
        BY <4>1 DEF NoneTo
      <4> QED
        BY <2>0, <3>2, <4>2, AfterNone
    <3> QED
      BY <3>1, <3>2
  <2>2. /\ 0 \in Disk /\ 1 \in Disk /\ DirSects(n) \subseteq Disk /\ Disk \subseteq Nat
    BY Numbers DEF Disk
  <2>3. g[0] \in {Erased, Boot(n)} /\ (g[0] = Erased => k = 0)
    <3>1. g[0] = IF 0 < k THEN Boot(n) ELSE Erased
      BY <1>7, <2>1, <2>2
    <3> QED
      BY <2>0, <3>1, BootFacts
  <2>4. g[1] \in {Erased, Content(1)}
    BY <2>1, <2>2
  <2>5. \A s \in DirSects(n) : g[s] \in {Erased, NoEntries}
    BY <1>5, <2>1, <2>2
  <2>6. k = 0 => \A s \in Disk : g[s] = Erased
    BY <2>1, <2>2
  <2> HIDE DEF g
  <2>7. Placed(n, g)
    BY <1>4, <1>6, <2>0, <2>3, <2>4, <2>5, <2>6, ErasedFacts DEF Placed
  <2>8. \A s \in RootSlot : SlotsAt(n, g)[s].clust = 0
    <3>1. ASSUME NEW s \in RootSlot PROVE SlotsAt(n, g)[s].clust = 0
      <4>1. /\ SlotSect(L(n), s) \in DirSects(n) /\ s % SectorSlots \in SlotIndex
        BY SlotPlace DEF L
      <4>2. SlotsAt(n, g)[s] = SlotsIn(g[SlotSect(L(n), s)])[s % SectorSlots]
        BY DEF SlotsAt, EntryIn
      <4>3. \A i \in SlotIndex : SlotsIn(Erased)[i].clust = 0
        BY ErasedFacts, EntryIs
      <4> QED
        BY <1>6, <2>5, <4>1, <4>2, <4>3
    <3> QED
      BY <3>1
  <2> DEFINE own == [o \in Owner |-> {}]
             start == Starts(SlotsAt(n, g), 0)
  <2>9. \A o \in Owner : start[o] = 0
    BY <2>8 DEF Starts, Owner
  <2>10. ~IsLink(L(n), 0)
    BY DEF IsLink
  <2> HIDE DEF start
  <2>11. Owns(n, NextIn(g[1]), start, own)
    BY <2>9, <2>10 DEF Owns, Closed
  <2> QED
    BY <2>7, <2>11 DEF Sound, Kept, start, g
<1>9. ASSUME NEW i \in 1 .. last + 1
      PROVE  w[i].sect \in Disk /\ (w[i].sect = 0 => i = 1 /\ f[0] = Erased)
  <2>1. i - 1 \in 0 .. last /\ (i - 1 = 0 => i = 1)
    BY <1>0
  <2>2. i - 1 \in Disk /\ 0 \in Disk
    BY <1>0, <2>1, Numbers
  <2> QED
    BY <1>3, <2>1, <2>2
<1>10. Pending(n, f, w)
  BY <1>1, <1>8, <1>9 DEF Pending
<1> QED
  BY <1>2, <1>10

------------------------------------------------------------------------------
(* The host's writes *)

\* They are tables, data, and sectors of the directory.
Hosted(n, w) ==
  \A i \in 1 .. Len(w) : \/ w[i].content.kind \in {"table", "data"}
                         \/ w[i].content.kind = "entries" /\ w[i].sect \in DirSects(n)

LEMMA KindFacts ==
  ASSUME NEW x
  PROVE  /\ Table(x).kind = "table" /\ Data(x).kind = "data" /\ Entries(x).kind = "entries"
         /\ Entries(x).slots = x /\ Erased.kind = "erased"
BY DEF Table, Data, Entries, Erased

LEMMA HostedConcat ==
  ASSUME NEW n, NEW w, IsSeq(w), Hosted(n, w), NEW x, IsSeq(x), Hosted(n, x)
  PROVE  Hosted(n, w \o x)
<1> DEFINE y == w \o x
           b == Len(w)
<1>1. b \in Nat /\ Len(x) \in Nat
  BY SeqFacts
<1>2. /\ Len(y) = b + Len(x)
      /\ \A i \in 1 .. b : y[i] = w[i]
      /\ \A i \in 1 .. Len(x) : y[b + i] = x[i]
  BY ConcatFacts
<1> HIDE DEF y
<1>3. ASSUME NEW i \in 1 .. Len(y)
      PROVE  \/ y[i].content.kind \in {"table", "data"}
             \/ y[i].content.kind = "entries" /\ y[i].sect \in DirSects(n)
  <2>1. CASE i \in 1 .. b
    BY <1>2, <2>1 DEF Hosted
  <2>2. CASE i \notin 1 .. b
    <3>1. i - b \in 1 .. Len(x) /\ b + (i - b) = i
      BY <1>1, <1>2, <2>2
    <3>2. y[i] = x[i - b]
      BY <1>2, <3>1
    <3> QED
      BY <3>1, <3>2 DEF Hosted
  <2> QED
    BY <2>1, <2>2
<1>4. Hosted(n, y)
  BY <1>3 DEF Hosted
<1> QED
  BY <1>4 DEF y

\* What the first 512 bytes of a write leave of a sector loses no file.
LEMMA FirstChunkSound ==
  ASSUME NEW n \in {1, 2}, NEW f, f[0] = Boot(n), Sound(n, f), NEW w, Pending(n, f, w),
         Hosted(n, w), w # <<>>
  PROVE  /\ w[1].sect \in Disk \ {0}
         /\ Sound(n, [f EXCEPT ![w[1].sect] = FirstChunk(w[1].content)])
<1> DEFINE sect == w[1].sect
           x == w[1].content
           y == FirstChunk(x)
           g == [f EXCEPT ![sect] = x]
<1>1. IsSeq(w) /\ Len(w) \in Nat /\ Len(w) >= 1 /\ 1 \in 1 .. Len(w) /\ 1 \in 0 .. Len(w)
  BY TailFacts, SeqFacts DEF Pending
<1>2. f[0] # Erased /\ DOMAIN f = Disk /\ f = [s \in Disk |-> f[s]] /\ 0 \in Disk
  BY BootFacts, PlacedFacts, Numbers DEF Sound, Placed
<1>3. sect \in Disk /\ sect # 0
  BY <1>1, <1>2 DEF Pending
<1>4. Sound(n, g)
  <2>0. PICK k \in Nat : k = 0
    OBVIOUS
  <2>1. After(f, w, k + 1) = [After(f, w, k) EXCEPT ![w[k + 1].sect] = w[k + 1].content]
    BY AfterStep
  <2>2. After(f, w, 0) = f
    BY <1>2, AfterZero
  <2>3. After(f, w, 1) = g
    BY <2>0, <2>1, <2>2
  <2>4. Sound(n, After(f, w, 1))
    BY <1>1 DEF Pending
  <2> QED
    BY <2>3, <2>4
<1>5. \/ x.kind \in {"table", "data"}
      \/ x.kind = "entries" /\ sect \in DirSects(n)
  BY <1>1 DEF Hosted
<1>6. g[sect] = x /\ g[0] = f[0]
  BY <1>2, <1>3
<1>7. CASE x.kind = "table"
  <2>1. y = x
    BY <1>7 DEF FirstChunk
  <2> QED
    BY <1>3, <1>4, <2>1
<1>8. CASE x.kind = "data"
  <2>1. y = Erased
    BY <1>8 DEF FirstChunk
  <2>2. Sound(n, [f EXCEPT ![sect] = Erased])
    BY <1>3, SoundTorn
  <2> QED
    BY <1>3, <2>1, <2>2
<1>9. CASE x.kind = "entries" /\ sect \in DirSects(n)
  <2> DEFINE slots == [i \in SlotIndex |->
                         IF i < ChunkSlots THEN x.slots[i] ELSE EmptyEntry(Blank)]
  <2>1. y = Entries(slots)
    BY <1>9 DEF FirstChunk
  <2>2. IsDir(x)
    BY <1>4, <1>6, <1>9 DEF Sound, Placed
  <2>3. x # Erased
    BY <1>9, KindFacts
  <2>4. SlotsIn(x) = x.slots
    BY <2>3 DEF SlotsIn
  <2>5. \A i \in SlotIndex : slots[i].clust \in {x.slots[i].clust, 0}
    BY EntryIs
  <2>6. \A i \in SlotIndex : slots[i].clust \in {0} \cup Cluster
    BY <2>2, <2>4, <2>5 DEF IsDir
  <2>7. slots = [i \in SlotIndex |-> slots[i]]
    OBVIOUS
  <2> HIDE DEF slots
  <2>8. SlotsIn(Entries(slots)) = slots /\ IsDir(Entries(slots))
    BY <2>6, <2>7, EntriesFacts
  <2> HIDE DEF sect, x, y, g
  <2>9. IsDir(y) /\ \A i \in SlotIndex : SlotsIn(y)[i].clust \in {SlotsIn(g[sect])[i].clust, 0}
    BY <1>6, <2>1, <2>4, <2>5, <2>8
  <2>10. Sound(n, [g EXCEPT ![sect] = y])
    BY <1>2, <1>4, <1>6, <1>9, <2>9, SoundBlanked
  <2>11. [g EXCEPT ![sect] = y] = [f EXCEPT ![sect] = y]
    BY <1>2 DEF g
  <2> QED
    BY <1>3, <2>10, <2>11 DEF sect, x, y
<1> QED
  BY <1>5, <1>7, <1>8, <1>9

\* The table with a new chain, of clusters that were free.
Chained(next, clusts, k) ==
  [c \in Cluster |->
     IF \E i \in 1 .. k : clusts[i] = c
     THEN LET i == CHOOSE i \in 1 .. k : clusts[i] = c
          IN IF i = k THEN Eoc ELSE clusts[i + 1]
     ELSE next[c]]
FirstOf(clusts, k) == IF k = 0 THEN 0 ELSE clusts[1]

LEMMA ChainedOwns ==
  ASSUME NEW n \in {1, 2}, NEW next \in [Cluster -> Links], NEW slots, NEW own,
         Owns(n, next, Starts(slots, 0), own),
         NEW k \in Nat, NEW clusts,
         \A i \in 1 .. k : clusts[i] \in Cluster /\ next[clusts[i]] = 0
  PROVE  /\ Chained(next, clusts, k) \in [Cluster -> Links]
         /\ FirstOf(clusts, k) \in {0} \cup Cluster
         /\ \E now : /\ Owns(n, Chained(next, clusts, k), Starts(slots, FirstOf(clusts, k)), now)
                     /\ \A o \in RootSlot : now[o] = own[o]
         /\ k = 0 => Chained(next, clusts, k) = next
<1> DEFINE after == Chained(next, clusts, k)
           set == {c \in Cluster : \E i \in 1 .. k : clusts[i] = c}
           start == Starts(slots, 0)
           begin == Starts(slots, FirstOf(clusts, k))
           now == Give(own, NoSlot, set)
<1>1. ASSUME NEW c \in set
      PROVE  after[c] \in Links /\ after[c] # 0 /\ (after[c] # Eoc => after[c] \in set)
  <2> DEFINE i == CHOOSE i \in 1 .. k : clusts[i] = c
  <2>1. i \in 1 .. k /\ clusts[i] = c
    OBVIOUS
  <2>2. after[c] = IF i = k THEN Eoc ELSE clusts[i + 1]
    BY DEF Chained
  <2> HIDE DEF i, after
  <2>3. i # k => i + 1 \in 1 .. k /\ clusts[i + 1] \in set
    BY <2>1
  <2>4. Eoc \in Links /\ Cluster \subseteq Links /\ Eoc # 0
    BY DEF Links, Eoc
  <2> QED
    BY <2>2, <2>3, <2>4, ClusterInt
<1>2. \A c \in Cluster \ set : after[c] = next[c]
  BY DEF Chained
<1>3. after \in [Cluster -> Links]
  <2>1. after = [c \in Cluster |-> after[c]]
    BY DEF Chained
  <2> HIDE DEF after, set
  <2>2. \A c \in Cluster : after[c] \in Links
    BY <1>1, <1>2
  <2> QED
    BY <2>1, <2>2
<1>4. \A c \in set : next[c] = 0
  OBVIOUS
<1>5. FirstOf(clusts, k) \in {0} \cup Cluster /\ (FirstOf(clusts, k) # 0 => FirstOf(clusts, k) \in set)
  BY DEF FirstOf
<1>6. NoSlot \in Owner /\ \A o \in Owner \ {NoSlot} : begin[o] = start[o]
  BY NoOwner DEF Starts
<1>7. begin[NoSlot] = FirstOf(clusts, k)
  BY NoOwner DEF Starts
<1>8. /\ own \in [Owner -> SUBSET Cluster]
      /\ \A p \in Owner : \A c \in own[p] : next[c] # 0
  BY OwnType
<1>9. k = 0 => after = next
  <2>1. k = 0 => set = {}
    OBVIOUS
  <2> HIDE DEF after, set
  <2> QED
    BY <1>2, <1>3, <2>1
<1>10. set \in SUBSET Cluster
  OBVIOUS
<1> HIDE DEF after, set, start, begin
<1>11. \A p \in Owner : set \cap own[p] = {}
  BY <1>4, <1>8
<1>12. \A p \in Owner : \A c \in own[p] : after[c] = next[c]
  BY <1>2, <1>8, <1>11
<1>13. ~IsLink(L(n), 0) /\ ~IsLink(L(n), Eoc)
  BY LinkFacts DEF L, Links
<1>14. Closed(L(n), after, set)
  BY <1>1, <1>13 DEF Closed
<1>15. IsLink(L(n), begin[NoSlot]) => begin[NoSlot] \in set
  BY <1>5, <1>7, <1>13
<1>16. Owns(n, next, start, own)
  BY DEF start
<1>17. Owns(n, after, begin, now)
  BY <1>1, <1>6, <1>10, <1>11, <1>12, <1>14, <1>15, <1>16, OwnChange
<1>18. \A o \in RootSlot : now[o] = own[o]
  BY <1>8, NoOwner DEF Give, Owner
<1> QED
  BY <1>3, <1>5, <1>9, <1>17, <1>18 DEF after, begin

\* The sector of the directory that slot is in, with other slots.
DirSector(v, slots, sect) ==
  Entries([i \in SlotIndex |-> slots[(sect - dirbase(v)) * SectorSlots + i]])

LEMMA DirSectorIs ==
  ASSUME NEW n \in {1, 2}, NEW v, v.n_fats = n, NEW slot \in RootSlot, NEW slots,
         \A s \in RootSlot : slots[s].clust \in {0} \cup Cluster
  PROVE  LET x == DirSector(v, slots, SlotSect(v, slot)) IN
         /\ IsDir(x) /\ x.kind = "entries"
         /\ \A s \in RootSlot : SlotSect(L(n), s) = SlotSect(v, slot) => EntryIn(x, s) = slots[s]
<1> DEFINE sect == SlotSect(v, slot)
           q == slot \div SectorSlots
           in == [i \in SlotIndex |-> slots[(sect - dirbase(v)) * SectorSlots + i]]
<1>0. RootSectors \in Nat \ {0} /\ SectorSlots \in Nat \ {0}
  BY Numbers
<1>1. sect = n + 1 + q /\ slot \in 0 .. RootSectors * SectorSlots - 1
  BY SlotPlace DEF RootSlot
<1>2. q \in 0 .. RootSectors - 1
  BY <1>0, <1>1
<1> HIDE DEF q
<1>3. sect - dirbase(v) = q
  BY <1>1, <1>2 DEF dirbase, fatbase
<1>4. ASSUME NEW i \in SlotIndex PROVE q * SectorSlots + i \in RootSlot
  <2>1. PICK r \in Nat : RootSectors = q + 1 + r
    <3>1. RootSectors - 1 - q \in Nat /\ RootSectors = q + 1 + (RootSectors - 1 - q)
      BY <1>0, <1>2
    <3> QED
      BY <3>1
  <2>2. i \in 0 .. SectorSlots - 1
    BY DEF SlotIndex
  <2>3. /\ RootSectors * SectorSlots = q * SectorSlots + SectorSlots + r * SectorSlots
        /\ r * SectorSlots \in Nat /\ q * SectorSlots \in Nat
    BY <1>0, <1>2, <2>1
  <2>4. q * SectorSlots + i \in 0 .. RootSectors * SectorSlots - 1
    BY <1>0, <2>2, <2>3
  <2> QED
    BY <2>4 DEF RootSlot
<1>5. \A i \in SlotIndex : in[i] = slots[q * SectorSlots + i]
  BY <1>3
<1>6. in = [i \in SlotIndex |-> in[i]]
  OBVIOUS
<1> HIDE DEF in, sect
<1>7. \A i \in SlotIndex : in[i].clust \in {0} \cup Cluster
  BY <1>4, <1>5
<1>8. SlotsIn(Entries(in)) = in /\ IsDir(Entries(in))
  BY <1>6, <1>7, EntriesFacts
<1>9. ASSUME NEW s \in RootSlot, SlotSect(L(n), s) = sect PROVE EntryIn(Entries(in), s) = slots[s]
  <2>1. SlotSect(L(n), s) = n + 1 + s \div SectorSlots
    BY SlotPlace DEF L
  <2>2. s \div SectorSlots \in Int
    BY <1>0 DEF RootSlot
  <2>3. s \div SectorSlots = q
    BY <1>1, <1>2, <1>9, <2>1, <2>2
  <2>4. s = q * SectorSlots + (s % SectorSlots) /\ s % SectorSlots \in SlotIndex
    BY <2>3, SlotPlace
  <2>5. EntryIn(Entries(in), s) = in[s % SectorSlots]
    BY <1>8 DEF EntryIn
  <2>6. in[s % SectorSlots] = slots[q * SectorSlots + (s % SectorSlots)]
    BY <1>5, <2>4
  <2> QED
    BY <2>4, <2>5, <2>6
<1>10. DirSector(v, slots, SlotSect(v, slot)) = Entries(in)
  BY DEF DirSector, in, sect
<1> QED
  BY <1>8, <1>9, <1>10, KindFacts DEF sect

\* The entry in a slot is written, and takes over the chain that was made for it.
LEMMA PendingEntry ==
  ASSUME NEW n \in {1, 2}, NEW f, Sound(n, f), f[0] = Boot(n), NEW v, v.n_fats = n,
         NEW slot \in RootSlot, NEW slots, slots = [s \in RootSlot |-> slots[s]],
         slots[slot].clust \in {0} \cup Cluster,
         \A s \in RootSlot \ {slot} : slots[s] = SlotsAt(n, f)[s],
         NEW own, Owns(n, NextIn(f[1]), Starts(SlotsAt(n, f), slots[slot].clust), own)
  PROVE  LET w == <<Write(SlotSect(v, slot), DirSector(v, slots, SlotSect(v, slot)))>>
             g == Final(f, w)
         IN /\ Pending(n, f, w) /\ Hosted(n, w)
            /\ g[0] = f[0] /\ g[1] = f[1] /\ SlotsAt(n, g) = slots
            /\ Owns(n, NextIn(f[1]), Starts(slots, 0), Swap(own, NoSlot, slot))
<1> DEFINE sect == SlotSect(v, slot)
           y == DirSector(v, slots, sect)
           x == Write(sect, y)
           w == <<x>>
           g == [f EXCEPT ![sect] = y]
           start == Starts(SlotsAt(n, f), slots[slot].clust)
           begin == Starts(slots, 0)
           next == NextIn(f[1])
<1>0. /\ Placed(n, f) /\ f[0] # Erased /\ DOMAIN f = Disk /\ next \in [Cluster -> Links]
      /\ \A s \in RootSlot : SlotsAt(n, f)[s].clust \in {0} \cup Cluster
  BY BootFacts, PlacedFacts DEF Sound
<1>1. \A s \in RootSlot : slots[s].clust \in {0} \cup Cluster
  BY <1>0
<1>2. /\ IsDir(y) /\ y.kind = "entries"
      /\ \A s \in RootSlot : SlotSect(L(n), s) = sect => EntryIn(y, s) = slots[s]
  BY <1>1, DirSectorIs
<1>3. sect \in DirSects(n) /\ sect = SlotSect(L(n), slot)
  BY SlotPlace
<1>4. sect \in Disk /\ sect # 0 /\ sect # 1
  BY <1>3, Numbers
<1>5. x.sect = sect /\ x.content = y
  BY WriteIs
<1> HIDE DEF sect, y, x
<1>6. g = [t \in Disk |-> g[t]] /\ g[sect] = y /\ \A t \in Disk \ {sect} : g[t] = f[t]
  BY <1>0, <1>4
<1> HIDE DEF g
<1>7. /\ Placed(n, g) /\ g[1] = f[1] /\ g[0] = f[0]
      /\ \A s \in RootSlot :
           /\ SlotSect(L(n), s) = sect => SlotsAt(n, g)[s] = EntryIn(g[sect], s)
           /\ SlotSect(L(n), s) # sect => SlotsAt(n, g)[s] = SlotsAt(n, f)[s]
  BY <1>0, <1>2, <1>3, <1>6, SlotsOfDir
<1>8. \A s \in RootSlot : SlotsAt(n, g)[s] = slots[s]
  <2>1. ASSUME NEW s \in RootSlot PROVE SlotsAt(n, g)[s] = slots[s]
    <3>1. CASE SlotSect(L(n), s) = sect
      BY <1>2, <1>6, <1>7, <3>1
    <3>2. CASE SlotSect(L(n), s) # sect
      <4>1. s # slot
        BY <1>3, <3>2
      <4> QED
        BY <1>7, <3>2, <4>1
    <3> QED
      BY <3>1, <3>2
  <2> QED
    BY <2>1
<1>9. SlotsAt(n, g) = slots
  <2>1. SlotsAt(n, g) = [s \in RootSlot |-> SlotsAt(n, g)[s]]
    BY DEF SlotsAt
  <2> QED
    BY <1>8, <2>1
<1>10. /\ NoSlot \in Owner /\ slot \in Owner /\ NoSlot # slot
       /\ begin[slot] = start[NoSlot] /\ begin[NoSlot] = 0
       /\ \A o \in Owner \ {NoSlot, slot} : begin[o] = start[o]
  BY NoOwner DEF Starts, Owner
<1>11. Owns(n, next, start, own)
  OBVIOUS
<1> HIDE DEF next, start, begin
<1>12. Owns(n, next, begin, Swap(own, NoSlot, slot))
  BY <1>0, <1>10, <1>11, OwnSwap
<1>13. Sound(n, g)
  <2>1. NextIn(g[1]) = next /\ Starts(SlotsAt(n, g), 0) = begin
    BY <1>7, <1>9 DEF next, begin
  <2> QED
    BY <1>7, <1>12, <2>1 DEF Sound, Kept
<1>14. g = [f EXCEPT ![x.sect] = x.content]
  BY <1>5 DEF g
<1>15. Pending(n, f, w) /\ Final(f, w) = g
  <2>1. x.sect \in Disk \ {0} /\ Sound(n, [f EXCEPT ![x.sect] = x.content])
    BY <1>4, <1>5, <1>13, <1>14
  <2>2. Pending(n, f, <<x>>) /\ Final(f, <<x>>) = [f EXCEPT ![x.sect] = x.content]
    BY <2>1, PendingOne
  <2> QED
    BY <1>14, <2>2
<1>16. Hosted(n, w)
  <2>1. \A i \in 1 .. Len(w) : w[i] = x
    OBVIOUS
  <2> HIDE DEF w
  <2> QED
    BY <1>2, <1>3, <1>5, <2>1 DEF Hosted
<1>17. w = <<Write(SlotSect(v, slot), DirSector(v, slots, SlotSect(v, slot)))>>
  BY DEF x, y, sect
<1> HIDE DEF w
<1> QED
  BY <1>7, <1>9, <1>12, <1>15, <1>16, <1>17 DEF next, begin

\* From one mounted flash to another.
Leads(n, f, w, g) ==
  Pending(n, f, w) /\ Hosted(n, w) /\ g = Final(f, w) /\ Sound(n, g) /\ g[0] = Boot(n)

LEMMA LeadsOn ==
  ASSUME NEW n \in {1, 2}, NEW f, NEW w, NEW g, Leads(n, f, w, g), NEW x, NEW h,
         Leads(n, g, x, h)
  PROVE  Leads(n, f, w \o x, h)
<1>1. IsSeq(w) /\ IsSeq(x)
  BY DEF Leads, Pending
<1>2. g = Final(f, w) /\ g[0] # Erased
  BY BootFacts DEF Leads
<1>3. Pending(n, f, w \o x) /\ Final(f, w \o x) = Final(g, x)
  BY <1>2, PendingConcat DEF Leads
<1>4. Hosted(n, w \o x)
  BY <1>1, HostedConcat DEF Leads
<1> QED
  BY <1>3, <1>4 DEF Leads

LEMMA LeadsNowhere ==
  ASSUME NEW n \in {1, 2}, NEW f, Sound(n, f), f[0] = Boot(n)
  PROVE  Leads(n, f, <<>>, f)
<1>1. Pending(n, f, <<>>) /\ Final(f, <<>>) = f
  BY PendingNone
<1>2. Hosted(n, <<>>)
  BY DEF Hosted
<1> QED
  BY <1>1, <1>2 DEF Leads

LEMMA LeadsData ==
  ASSUME NEW n \in {1, 2}, NEW f, Sound(n, f), f[0] = Boot(n), NEW w, IsSeq(w),
         \A i \in 1 .. Len(w) : w[i].sect \in Disk \ Meta(n) /\ w[i].content.kind = "data"
  PROVE  LET g == Final(f, w) IN
         Leads(n, f, w, g) /\ g[1] = f[1] /\ SlotsAt(n, g) = SlotsAt(n, f)
<1> DEFINE g == Final(f, w)
<1>1. f[0] # Erased /\ f = [s \in Disk |-> f[s]] /\ DOMAIN f = Disk
  BY BootFacts, PlacedFacts DEF Sound, Placed
<1>2. Pending(n, f, w) /\ \A s \in Meta(n) : g[s] = f[s]
  BY <1>1, PendingData
<1>3. Sound(n, g)
  BY <1>1, <1>2, PendingFirst
<1>4. g = [s \in Disk |-> g[s]]
  BY <1>3 DEF Sound, Placed
<1> HIDE DEF g
<1>5. g[0] = f[0] /\ g[1] = f[1] /\ \A s \in DirSects(n) : g[s] = f[s]
  BY <1>2, MetaFacts
<1>6. SlotsAt(n, g) = SlotsAt(n, f)
  BY <1>1, <1>4, <1>5, SoundSame
<1>7. Hosted(n, w)
  BY DEF Hosted
<1> QED
  BY <1>2, <1>3, <1>5, <1>6, <1>7 DEF Leads, g

LEMMA LeadsTables ==
  ASSUME NEW n \in {1, 2}, NEW f, Sound(n, f), f[0] = Boot(n), NEW v, v.n_fats = n,
         NEW next \in [Cluster -> Links], Kept(n, next, Starts(SlotsAt(n, f), 0))
  PROVE  LET w == Tables(v, next)
             g == Final(f, w)
         IN Leads(n, f, w, g) /\ NextIn(g[1]) = next /\ SlotsAt(n, g) = SlotsAt(n, f)
<1> DEFINE w == Tables(v, next)
           g == Final(f, w)
<1>1. /\ Pending(n, f, w)
      /\ NextIn(g[1]) = next /\ SlotsAt(n, g) = SlotsAt(n, f)
      /\ \A s \in Meta(n) \ {1} : g[s] = f[s]
  BY PendingTables
<1>2. f = [s \in Disk |-> f[s]]
  BY DEF Sound, Placed
<1>3. Sound(n, g)
  BY <1>1, <1>2, PendingFirst
<1>4. g[0] = f[0]
  BY <1>1, MetaFacts
<1>5. Hosted(n, w)
  <2>1. w = [i \in 1 .. n |-> Write(fatbase + i - 1, Table(next))]
    BY DEF Tables
  <2>2. \A i \in 1 .. n : w[i].content.kind = "table"
    BY <2>1, WriteIs, KindFacts
  <2>3. DOMAIN w = 1 .. n /\ w = [i \in 1 .. n |-> w[i]]
    BY <2>1
  <2> HIDE DEF w
  <2>4. Len(w) = n
    BY <2>3, FunctionIsSeq
  <2> QED
    BY <2>2, <2>4 DEF Hosted
<1> HIDE DEF w, g
<1>6. Leads(n, f, w, g)
  BY <1>1, <1>3, <1>4, <1>5 DEF Leads, g
<1> QED
  BY <1>1, <1>6 DEF w, g

IsEntry(e) ==
  e \in [name : {e.name}, clust : {e.clust}, size : {e.size}, stamp : {e.stamp}]
Refers(e, first) == [e EXCEPT !.clust = first]

LEMMA RefersIs ==
  ASSUME NEW e, IsEntry(e), NEW first
  PROVE  Refers(e, first).clust = first
BY DEF IsEntry, Refers

LEMMA EntryIsEntry ==
  ASSUME NEW name, NEW clust, NEW size, NEW stamp
  PROVE  IsEntry(Entry(name, clust, size, stamp))
BY DEF IsEntry, Entry

\* What the host writes for a change, each sector in its turn, loses no file; and it
\* makes the flash what the host has in its cache.
LEMMA ChangeLeads ==
  ASSUME NEW n \in {1, 2}, NEW f, Sound(n, f), f[0] = Boot(n), NEW v, v.n_fats = n,
         NEW h, h.next = NextIn(f[1]), h.slots = SlotsAt(n, f),
         NEW name, SlotFor(h.slots, name) \in RootSlot, NEW new, IsSeq(new),
         NEW entry, IsEntry(entry), NEW clusts \in FirstFree(v, h.next, Len(new))
  PROVE  LET c == Change(v, h, name, new, entry, clusts)
             g == Final(f, c.writes)
         IN /\ Leads(n, f, c.writes, g)
            /\ c.next = NextIn(g[1]) /\ c.slots = SlotsAt(n, g)
<1> DEFINE slot == SlotFor(h.slots, name)
           k == Len(new)
           start == Starts(h.slots, 0)
           old == IF h.slots[slot].name = name THEN Chain(v, h.next, h.slots[slot].clust) ELSE {}
           both == Chained(h.next, clusts, k)
           next == Without(both, old)
           first == IF new = <<>> THEN 0 ELSE clusts[1]
           slots == [h.slots EXCEPT ![slot] = Refers(entry, first)]
           sect == SlotSect(v, slot)
           d == [i \in 1 .. k |-> Write(clst2sect(v, clusts[i]), Data(new[i]))]
           t == IF new = <<>> THEN <<>> ELSE Tables(v, both)
           e == <<Write(sect, DirSector(v, slots, sect))>>
           u == IF old = {} THEN <<>> ELSE Tables(v, next)
           writes == ((d \o t) \o e) \o u
           c == Change(v, h, name, new, entry, clusts)
<1>0. c.writes = writes /\ c.next = next /\ c.slots = slots
  BY DEF Change, Chained, Refers, DirSector
<1>1. k \in Nat /\ (k = 0 <=> new = <<>>)
  <2>1. new \in Seq(Range(new))
    BY DEF IsSeq
  <2> QED
    BY <2>1, SeqFacts, EmptySeq
<1>2. /\ h.next \in [Cluster -> Links] /\ slot \in RootSlot
      /\ h.slots = [s \in RootSlot |-> h.slots[s]]
      /\ \A s \in RootSlot : h.slots[s].clust \in {0} \cup Cluster
  <2>1. SlotsAt(n, f) = [s \in RootSlot |-> SlotsAt(n, f)[s]]
    BY DEF SlotsAt
  <2> QED
    BY <2>1, PlacedFacts DEF Sound
<1>3. \A i \in 1 .. k : clusts[i] \in Cluster /\ IsLink(v, clusts[i]) /\ h.next[clusts[i]] = 0
  <2>1. clusts \in [1 .. k -> {b \in Cluster : IsLink(v, b) /\ h.next[b] = 0}]
    BY DEF FirstFree
  <2> HIDE DEF k
  <2> QED
    BY <2>1
<1>4. PICK own : Owns(n, h.next, start, own)
  BY DEF Sound, Kept
<1>5. PICK now : /\ Owns(n, both, Starts(h.slots, FirstOf(clusts, k)), now)
                 /\ \A o \in RootSlot : now[o] = own[o]
  <2> DEFINE x == h.next
             y == h.slots
  <2>1. x \in [Cluster -> Links] /\ Owns(n, x, Starts(y, 0), own) /\ k \in Nat
    BY <1>1, <1>2, <1>4
  <2>2. \A i \in 1 .. k : clusts[i] \in Cluster /\ x[clusts[i]] = 0
    BY <1>3
  <2> HIDE DEF x, y, k
  <2>3. \E z : /\ Owns(n, Chained(x, clusts, k), Starts(y, FirstOf(clusts, k)), z)
               /\ \A o \in RootSlot : z[o] = own[o]
    BY <2>1, <2>2, ChainedOwns
  <2> QED
    BY <2>3 DEF x, y
<1>6. /\ both \in [Cluster -> Links] /\ FirstOf(clusts, k) \in {0} \cup Cluster
      /\ k = 0 => both = h.next
  BY <1>1, <1>2, <1>3, <1>4, ChainedOwns
<1>7. first = FirstOf(clusts, k)
  BY <1>1 DEF FirstOf
<1>8. old \subseteq now[slot]
  <2>1. start[slot] = h.slots[slot].clust /\ slot \in Owner
    BY <1>2, NoOwner DEF Starts, Owner
  <2>2. /\ own \in [Owner -> SUBSET Cluster] /\ Closed(L(n), h.next, own[slot])
        /\ IsLink(L(n), start[slot]) => start[slot] \in own[slot]
    <3> HIDE DEF start, slot
    <3>1. /\ own \in [Owner -> SUBSET Cluster]
          /\ \A o \in Owner : /\ IsLink(L(n), start[o]) => start[o] \in own[o]
                             /\ Closed(L(n), h.next, own[o])
      BY <1>4, OwnType
    <3> QED
      BY <2>1, <3>1
  <2>3. h.slots[slot].clust \in Links
    BY <1>2 DEF Links
  <2>4. IsLink(v, h.slots[slot].clust) => h.slots[slot].clust \in own[slot]
    BY <2>1, <2>2, <2>3, LinkFacts
  <2>5. own[slot] \in SUBSET Cluster
    BY <2>1, <2>2
  <2>6. Chain(v, h.next, h.slots[slot].clust) \subseteq own[slot]
    <3> DEFINE x == h.next
               z == h.slots[slot].clust
               set == own[slot]
    <3>1. /\ x \in [Cluster -> Links] /\ set \in SUBSET Cluster /\ Closed(L(n), x, set)
          /\ IsLink(v, z) => z \in set
      BY <1>2, <2>2, <2>4, <2>5
    <3> HIDE DEF x, z, set
    <3>2. Chain(v, x, z) \subseteq set
      BY <3>1, ChainInside
    <3> QED
      BY <3>2 DEF x, z, set
  <2> QED
    BY <1>2, <1>5, <2>6
<1>9. slots = [s \in RootSlot |-> slots[s]]
  BY <1>2
<1>10. slots[slot] = Refers(entry, first) /\ \A s \in RootSlot \ {slot} : slots[s] = h.slots[s]
  BY <1>2
<1>11. /\ IsSeq(d) /\ Len(d) = k
       /\ \A i \in 1 .. k : d[i].sect = clst2sect(v, clusts[i]) /\ d[i].content.kind = "data"
  <2>1. DOMAIN d = 1 .. k /\ d = [i \in 1 .. k |-> d[i]]
    OBVIOUS
  <2>2. \A i \in 1 .. k : d[i] = Write(clst2sect(v, clusts[i]), Data(new[i]))
    OBVIOUS
  <2>3. \A i \in 1 .. k : d[i].sect = clst2sect(v, clusts[i]) /\ d[i].content.kind = "data"
    BY <2>2, WriteIs, KindFacts
  <2> HIDE DEF d, k
  <2> QED
    BY <1>1, <2>1, <2>3, FunctionIsSeq
<1> HIDE DEF d, both, old, first, slots, k, c, slot
<1>12. \A i \in 1 .. Len(d) : d[i].sect \in Disk \ Meta(n) /\ d[i].content.kind = "data"
  <2>1. ASSUME NEW i \in 1 .. k PROVE clst2sect(v, clusts[i]) \in Disk \ Meta(n)
    <3>1. clusts[i] \in Links /\ IsLink(v, clusts[i])
      BY <1>3 DEF Links
    <3>2. clst2sect(v, clusts[i]) \in n + RootSectors + 1 .. Sectors - 1
      BY <3>1, LinkFacts
    <3> QED
      BY <3>2, MetaFacts
  <2> QED
    BY <1>11, <2>1
<1>13. slots[slot].clust = first /\ first \in {0} \cup Cluster
  BY <1>6, <1>7, <1>10, RefersIs
\* The data, and the table with it.
<1> DEFINE f1 == Final(f, d)
           f2 == Final(f1, t)
           f3 == Final(f2, e)
           f4 == Final(f3, u)
<1>14. Leads(n, f, d, f1) /\ f1[1] = f[1] /\ SlotsAt(n, f1) = h.slots
  BY <1>11, <1>12, LeadsData
<1> HIDE DEF f1
<1>15. Leads(n, f1, t, f2) /\ NextIn(f2[1]) = both /\ SlotsAt(n, f2) = h.slots
  <2>0. Sound(n, f1) /\ f1[0] = Boot(n)
    BY <1>14 DEF Leads
  <2>1. CASE new = <<>>
    <3>1. Leads(n, f1, <<>>, f1)
      BY <2>0, LeadsNowhere
    <3>2. t = <<>>
      BY <2>1
    <3>3. f2 = f1
      BY <3>1, <3>2 DEF Leads
    <3> QED
      BY <1>1, <1>6, <1>14, <2>1, <3>1, <3>2, <3>3
  <2>2. CASE new # <<>>
    <3>1. Kept(n, both, Starts(SlotsAt(n, f1), 0))
      <4>1. \A o \in Owner : Starts(h.slots, 0)[o] \in {Starts(h.slots, FirstOf(clusts, k))[o], 0}
        BY DEF Starts
      <4>2. Owns(n, both, Starts(h.slots, 0), now)
        BY <1>5, <4>1, OwnBlank
      <4> QED
        BY <1>14, <4>2 DEF Kept
    <3>2. t = Tables(v, both)
      BY <2>2
    <3>3. LET w == Tables(v, both)
              g == Final(f1, w)
          IN Leads(n, f1, w, g) /\ NextIn(g[1]) = both /\ SlotsAt(n, g) = SlotsAt(n, f1)
      BY <1>6, <2>0, <3>1, LeadsTables
    <3> QED
      BY <1>14, <3>2, <3>3
  <2> QED
    BY <2>1, <2>2
<1> HIDE DEF f2, t
\* The entry, which takes over the new clusters.
<1>16. /\ Leads(n, f2, e, f3) /\ NextIn(f3[1]) = both /\ SlotsAt(n, f3) = slots
       /\ Owns(n, both, Starts(slots, 0), Swap(now, NoSlot, slot))
  <2>0. Sound(n, f2) /\ f2[0] = Boot(n) /\ f2 = [s \in Disk |-> f2[s]]
    BY <1>15 DEF Leads, Sound, Placed
  <2>1. Owns(n, NextIn(f2[1]), Starts(SlotsAt(n, f2), slots[slot].clust), now)
    BY <1>5, <1>7, <1>13, <1>15
  <2>2. \A s \in RootSlot \ {slot} : slots[s] = SlotsAt(n, f2)[s]
    BY <1>10, <1>15
  <2>3. /\ Pending(n, f2, e) /\ Hosted(n, e)
        /\ f3[0] = f2[0] /\ f3[1] = f2[1] /\ SlotsAt(n, f3) = slots
        /\ Owns(n, NextIn(f2[1]), Starts(slots, 0), Swap(now, NoSlot, slot))
    BY <1>2, <1>9, <1>13, <2>0, <2>1, <2>2, PendingEntry
  <2>4. Sound(n, f3)
    BY <2>0, <2>3, PendingFirst
  <2> QED
    BY <1>15, <2>0, <2>3, <2>4 DEF Leads
<1> HIDE DEF f3, e
\* The table without the old ones, which are no one's now.
<1>17. Leads(n, f3, u, f4) /\ NextIn(f4[1]) = next /\ SlotsAt(n, f4) = slots
  <2>0. Sound(n, f3) /\ f3[0] = Boot(n)
    BY <1>16 DEF Leads
  <2>1. CASE old = {}
    <3>1. Leads(n, f3, <<>>, f3)
      BY <2>0, LeadsNowhere
    <3>2. u = <<>>
      BY <2>1
    <3>3. f4 = f3
      BY <3>1, <3>2 DEF Leads
    <3>4. next = both
      BY <1>6, <2>1 DEF Without
    <3> QED
      BY <1>16, <3>1, <3>2, <3>3, <3>4
  <2>2. CASE old # {}
    <3>1. Kept(n, next, Starts(SlotsAt(n, f3), 0))
      <4> DEFINE swap == Swap(now, NoSlot, slot)
                 begin == Starts(slots, 0)
      <4>1. swap[NoSlot] = now[slot]
        <5>1. now \in [Owner -> SUBSET Cluster]
          BY <1>5, OwnType
        <5> QED
          BY <1>2, <5>1, NoOwner DEF Swap, Owner
      <4>2. NoSlot \in Owner /\ begin[NoSlot] = 0
        BY NoOwner DEF Starts
      <4>3. ~IsLink(L(n), begin[NoSlot])
        BY <4>2 DEF IsLink
      <4>4. Owns(n, both, begin, swap)
        BY <1>16
      <4> HIDE DEF swap, begin
      <4>5. Owns(n, Without(both, old), begin, Give(swap, NoSlot, {}))
        BY <1>6, <1>8, <4>1, <4>2, <4>3, <4>4, OwnFree
      <4> QED
        BY <1>16, <4>5 DEF Kept, begin
    <3>2. next \in [Cluster -> Links]
      <4>1. 0 \in Links
        BY DEF Links
      <4> QED
        BY <1>6, <4>1 DEF Without
    <3>3. u = Tables(v, next)
      BY <2>2
    <3> HIDE DEF next
    <3>4. LET w == Tables(v, next)
              g == Final(f3, w)
          IN Leads(n, f3, w, g) /\ NextIn(g[1]) = next /\ SlotsAt(n, g) = SlotsAt(n, f3)
      BY <2>0, <3>1, <3>2, LeadsTables
    <3> QED
      BY <1>16, <3>3, <3>4
  <2> QED
    BY <2>1, <2>2
<1> HIDE DEF f4, u
<1>18. Leads(n, f, writes, f4)
  <2>1. Leads(n, f, d \o t, f2)
    BY <1>14, <1>15, LeadsOn
  <2>2. Leads(n, f, (d \o t) \o e, f3)
    BY <1>16, <2>1, LeadsOn
  <2> QED
    BY <1>17, <2>2, LeadsOn
<1>19. f4 = Final(f, writes)
  BY <1>18 DEF Leads
<1> HIDE DEF writes, next
<1> QED
  BY <1>0, <1>17, <1>18, <1>19 DEF c

------------------------------------------------------------------------------
(* The invariant *)

\* A drive that is left and taken up again.
LEMMA AgainReady ==
  ASSUME NEW n \in {1, 2}, NEW F, NEW v, Ready(n, F, v)
  PROVE  LET w == Drive(FsOf(v), v.disk) IN
         /\ Ready(n, v.disk, w)
         /\ \A p : Saving(n, v, p) => Saving(n, w, p)
<1> DEFINE w == Drive(FsOf(v), v.disk)
<1>1. /\ IsDrive(w) /\ w.type = v.type /\ w.n_fats = v.n_fats /\ w.winsect = v.winsect
      /\ w.win = v.win /\ w.wflag = v.wflag /\ w.last_clst = v.last_clst
      /\ w.disk = v.disk /\ w.out = <<>>
  BY DriveIs, FsOfIs
<1> HIDE DEF w
<1>2. Sound(n, v.disk)
  BY ReadyFacts
<1>3. Pending(n, v.disk, w.out) /\ w.disk = Final(v.disk, w.out)
  BY <1>1, <1>2, PendingNone
<1>4. Seen(w) = Seen(v)
  BY <1>1 DEF Seen
<1>5. Ready(n, v.disk, w)
  BY <1>1, <1>3, <1>4 DEF Ready
<1>6. Tab(w) = Tab(v) /\ Dir(n, w) = Dir(n, v)
  BY <1>4 DEF Tab, Dir
<1>7. \A p : Saving(n, v, p) => Saving(n, w, p)
  BY <1>6, HoldsSame
<1> QED
  BY <1>5, <1>7 DEF w

LEMMA AgainCalm ==
  ASSUME NEW n \in {1, 2}, NEW f, NEW v, Calm(n, f, v)
  PROVE  Calm(n, f, Drive(FsOf(v), f))
<1> DEFINE w == Drive(FsOf(v), f)
<1>1. /\ IsDrive(w) /\ w.type = v.type /\ w.n_fats = v.n_fats /\ w.winsect = v.winsect
      /\ w.win = v.win /\ w.wflag = v.wflag /\ w.last_clst = v.last_clst
      /\ w.disk = f /\ w.out = <<>>
  BY DriveIs, FsOfIs
<1> HIDE DEF w
<1>2. Calm(n, f, w)
  BY <1>1 DEF Calm
<1> QED
  BY <1>2 DEF w

\* Erased flash has no files to lose.
LEMMA ErasedSound ==
  ASSUME NEW n \in {1, 2}, NEW f, f = [s \in Disk |-> f[s]], \A s \in Disk : f[s] = Erased
  PROVE  Sound(n, f)
<1> DEFINE v == Drive(Unmounted, f)
<1>1. IsDrive(v) /\ v.out = <<>>
  BY DriveIs
<1> HIDE DEF v
<1>2. Pending(n, f, f_mkfs(v, n).out)
  BY <1>1, FormatPending
<1> QED
  BY <1>2, PendingFirst

(* What the host is *)

IsHost(h) ==
  h \in [state : {h.state}, next : {h.next}, slots : {h.slots}, todo : {h.todo}, half : {h.half}]
Becomes(h, state) == [h EXCEPT !.state = state]
Reads(h, next, slots) == [h EXCEPT !.state = "mounted", !.next = next, !.slots = slots]
Plans(h, next, slots, todo) == [h EXCEPT !.next = next, !.slots = slots, !.todo = todo]
HalfDone(h) == [h EXCEPT !.half = TRUE]
AllDone(h) == [h EXCEPT !.half = FALSE, !.todo = Tail(@)]

LEMMA DetachedIs ==
  IsHost(Detached) /\ Detached.state = "detached" /\ Detached.todo = <<>> /\ Detached.half = FALSE
BY DEF IsHost, Detached

LEMMA BecomesIs ==
  ASSUME NEW h, IsHost(h), NEW state
  PROVE  LET g == Becomes(h, state) IN
         IsHost(g) /\ g.state = state /\ g.todo = h.todo /\ g.half = h.half
BY DEF IsHost, Becomes

LEMMA ReadsIs ==
  ASSUME NEW h, IsHost(h), NEW next, NEW slots
  PROVE  LET g == Reads(h, next, slots) IN
         /\ IsHost(g) /\ g.state = "mounted" /\ g.next = next /\ g.slots = slots
         /\ g.todo = h.todo /\ g.half = h.half
BY DEF IsHost, Reads

LEMMA PlansIs ==
  ASSUME NEW h, IsHost(h), NEW next, NEW slots, NEW todo
  PROVE  LET g == Plans(h, next, slots, todo) IN
         /\ IsHost(g) /\ g.state = h.state /\ g.next = next /\ g.slots = slots
         /\ g.todo = todo /\ g.half = h.half
BY DEF IsHost, Plans

LEMMA HalfDoneIs ==
  ASSUME NEW h, IsHost(h)
  PROVE  LET g == HalfDone(h) IN
         /\ IsHost(g) /\ g.state = h.state /\ g.next = h.next /\ g.slots = h.slots
         /\ g.todo = h.todo /\ g.half = TRUE
BY DEF IsHost, HalfDone

LEMMA AllDoneIs ==
  ASSUME NEW h, IsHost(h)
  PROVE  LET g == AllDone(h) IN
         /\ IsHost(g) /\ g.state = h.state /\ g.next = h.next /\ g.slots = h.slots
         /\ g.todo = Tail(h.todo) /\ g.half = FALSE
BY DEF IsHost, AllDone

\* No file is lost on the flash, nor by what FatFs has still to write to it.
Written(n) == Sound(n, flash) /\ Pending(n, flash, out) /\ (erased => out # <<>>)

\* What it keeps between the calls agrees with the flash as it will be.
Firmly(n) ==
  /\ pc = "format" => flash[0] = Erased /\ out = <<>>
  /\ pc = "label" => fs.type = 0
  /\ pc = "save" => out = <<>> /\ Calm(n, flash, Drive(fs, flash))
  /\ pc = "puts" => LET f == Final(flash, out)
                    IN Ready(n, f, Drive(fs, f)) /\ Saving(n, Drive(fs, f), fp)

\* The host is served when the firmware has nothing to write, and what it has still to
\* write loses no file and makes the flash what it has cached.
HostKnows(n) ==
  /\ flash[0] = Boot(n) /\ Pending(n, flash, host.todo) /\ Hosted(n, host.todo)
  /\ LET f == Final(flash, host.todo)
     IN f[0] = Boot(n) /\ host.next = NextIn(f[1]) /\ host.slots = SlotsAt(n, f)
Hostly(n) ==
  /\ IsHost(host) /\ host.half \in BOOLEAN
  /\ host.state # "detached" => pc = "sleep" /\ out = <<>>
  /\ host.state # "mounted" => host.todo = <<>>
  /\ host.half => host.todo # <<>>
  /\ host.state = "mounted" => HostKnows(n)

VInv == \E n \in {1, 2} : Written(n) /\ Firmly(n) /\ Hostly(n)

LEMMA WrittenFacts ==
  ASSUME NEW n \in {1, 2}, Written(n)
  PROVE  /\ flash = [s \in Disk |-> flash[s]] /\ DOMAIN flash = Disk
         /\ flash[0] \in {Erased, Boot(n)}
         /\ (flash[0] = Erased => \A s \in Disk : flash[s] = Erased)
         /\ IsSeq(out) /\ (out = <<>> => Final(flash, out) = flash)
<1>1. flash = [s \in Disk |-> flash[s]] /\ Pending(n, flash, out)
  BY DEF Written, Sound, Placed
<1>2. out = <<>> => Final(flash, out) = flash
  BY <1>1, PendingFirst
<1> QED
  BY <1>1, <1>2 DEF Written, Sound, Placed, Pending

\* A drive as the firmware finds it.
LEMMA ThisDriveIs ==
  /\ IsDrive(ThisDrive) /\ ThisDrive.disk = flash /\ ThisDrive.out = <<>>
  /\ ThisDrive.type = fs.type
BY DriveIs DEF ThisDrive

LEMMA VInit == Init => VInv
<1> SUFFICES ASSUME Init PROVE VInv
  OBVIOUS
<1>1. flash = [s \in Disk |-> flash[s]] /\ \A s \in Disk : flash[s] = Erased
  BY DEF Init, Disk
<1>2. Sound(1, flash) /\ Pending(1, flash, <<>>)
  BY <1>1, ErasedSound, PendingNone
<1>3. Written(1)
  BY <1>2 DEF Init, Written
<1>4. Firmly(1)
  BY DEF Init, Firmly
<1>5. Hostly(1)
  BY DetachedIs DEF Init, Hostly
<1> QED
  BY <1>3, <1>4, <1>5 DEF VInv

\* While the firmware is at work, or has to write, no host is there.
LEMMA NoHost ==
  ASSUME NEW n \in {1, 2}, NEW m \in {1, 2}, Hostly(n), pc # "sleep" \/ out # <<>>, host' = host
  PROVE  Hostly(m)'
<1>1. host.state = "detached" /\ host.todo = <<>> /\ ~host.half /\ host.half \in BOOLEAN /\ IsHost(host)
  BY DEF Hostly
<1> QED
  BY <1>1 DEF Hostly

LEMMA EraseStep ==
  ASSUME NEW n \in {1, 2}, Written(n), Firmly(n), Hostly(n), EraseSector
  PROVE  Written(n)' /\ Firmly(n)' /\ Hostly(n)'
<1> DEFINE sect == out[1].sect
<1>1. /\ out # <<>> /\ flash' = [flash EXCEPT ![Head(out).sect] = Erased]
      /\ erased' = TRUE /\ out' = out /\ fs' = fs /\ fp' = fp /\ pc' = pc /\ host' = host
  BY DEF EraseSector, progVars, hostVars
<1>2. Pending(n, flash, out) /\ Sound(n, flash)
  BY DEF Written
<1>3. /\ IsSeq(out) /\ Head(out) = out[1] /\ Len(out) >= 1 /\ Len(out) \in Nat
  BY <1>1, <1>2, TailFacts, SeqFacts DEF Pending
<1>4. sect \in Disk /\ (sect = 0 => flash[0] = Erased)
  <2>1. 1 \in 1 .. Len(out)
    BY <1>3
  <2> QED
    BY <1>2, <2>1 DEF Pending
<1>5. flash' = [flash EXCEPT ![sect] = Erased]
  BY <1>1, <1>3
<1>6. Sound(n, [flash EXCEPT ![sect] = Erased])
  BY <1>2, <1>4, SoundTorn
<1>7. /\ Pending(n, [flash EXCEPT ![sect] = Erased], out)
      /\ Final([flash EXCEPT ![sect] = Erased], out) = Final(flash, out)
  BY <1>1, <1>2, <1>6, PendingTorn
<1>8. Sound(n, flash') /\ Pending(n, flash', out) /\ Final(flash', out) = Final(flash, out)
  BY <1>5, <1>6, <1>7
<1>9. Written(n)'
  BY <1>1, <1>8 DEF Written
<1>10. Firmly(n)'
  BY <1>1, <1>8 DEF Firmly
<1>11. Hostly(n)'
  BY <1>1, NoHost
<1> QED
  BY <1>9, <1>10, <1>11

LEMMA ProgramStep ==
  ASSUME NEW n \in {1, 2}, Written(n), Firmly(n), Hostly(n), ProgramSector
  PROVE  Written(n)' /\ Firmly(n)' /\ Hostly(n)'
<1> DEFINE g == [flash EXCEPT ![out[1].sect] = out[1].content]
<1>1. /\ erased /\ flash' = [flash EXCEPT ![Head(out).sect] = Head(out).content]
      /\ erased' = FALSE /\ out' = Tail(out) /\ fs' = fs /\ fp' = fp /\ pc' = pc /\ host' = host
  BY DEF ProgramSector, progVars, hostVars
<1>2. Pending(n, flash, out) /\ out # <<>>
  BY <1>1 DEF Written
<1>3. Head(out) = out[1]
  BY <1>2, TailFacts DEF Pending
<1>4. flash' = g
  BY <1>1, <1>3
<1>5. Pending(n, g, Tail(out)) /\ Final(g, Tail(out)) = Final(flash, out)
  BY <1>2, PendingTail
<1>6. Sound(n, g)
  <2>1. g = [s \in Disk |-> g[s]]
    BY WrittenFacts
  <2> HIDE DEF g
  <2> QED
    BY <1>5, <2>1, PendingFirst
<1> HIDE DEF g
<1>7. Sound(n, flash') /\ Pending(n, flash', out') /\ Final(flash', out') = Final(flash, out)
  BY <1>1, <1>4, <1>5, <1>6
<1>8. Written(n)'
  BY <1>1, <1>7 DEF Written
<1>9. Firmly(n)'
  BY <1>1, <1>2, <1>7 DEF Firmly
<1>10. Hostly(n)'
  BY <1>1, <1>2, NoHost
<1> QED
  BY <1>8, <1>9, <1>10

\* A call of which the firmware leaves the drive v.
LEMMA CallStep ==
  ASSUME NEW n \in {1, 2}, NEW m \in {1, 2}, Written(n), out = <<>>, NEW v, Leaves(v),
         Pending(m, flash, v.out)
  PROVE  Written(m)' /\ flash' = flash /\ out' = v.out /\ fs' = FsOf(v)
<1>1. flash' = flash /\ out' = v.out /\ erased' = erased /\ fs' = FsOf(v)
  BY DEF Leaves
<1>2. ~erased
  BY DEF Written
<1>3. Sound(m, flash)
  BY WrittenFacts, PendingFirst
<1> QED
  BY <1>1, <1>2, <1>3 DEF Written

\* One that asks for no write.
LEMMA CalmStep ==
  ASSUME NEW n \in {1, 2}, Written(n), out = <<>>, NEW v, Leaves(v), Calm(n, flash, v)
  PROVE  Written(n)' /\ flash' = flash /\ out' = <<>> /\ Calm(n, flash', Drive(fs', flash'))
<1>1. v.out = <<>> /\ Pending(n, flash, v.out)
  BY PendingNone DEF Written, Calm
<1>2. Written(n)' /\ flash' = flash /\ out' = v.out /\ fs' = FsOf(v)
  BY <1>1, CallStep
<1>3. Calm(n, flash, Drive(FsOf(v), flash))
  BY AgainCalm
<1> QED
  BY <1>1, <1>2, <1>3

LEMMA RestStep ==
  ASSUME NEW n \in {1, 2}, Written(n), Hostly(n), UNCHANGED diskVars, host' = host,
         pc # "sleep", pc' \in {"load", "sleep"}
  PROVE  Written(n)' /\ Firmly(n)' /\ Hostly(n)'
<1>1. flash' = flash /\ erased' = erased /\ out' = out
  BY DEF diskVars
<1>2. Written(n)'
  BY <1>1 DEF Written
<1>3. Firmly(n)'
  BY DEF Firmly
<1>4. Hostly(n)'
  BY NoHost
<1> QED
  BY <1>2, <1>3, <1>4

LEMMA MountStep ==
  ASSUME NEW n \in {1, 2}, Written(n), Firmly(n), Hostly(n), MountAtBoot
  PROVE  Written(n)' /\ Firmly(n)' /\ Hostly(n)'
<1> DEFINE v == f_mount(ThisDrive)
<1>1. /\ pc = "init" /\ out = <<>> /\ Leaves(v) /\ host' = host
      /\ pc' = IF v.type = 0 THEN "format" ELSE "load"
  BY DEF MountAtBoot, At_pc, hostVars
<1>2. Calm(n, flash, v) /\ (v.type = 0 <=> flash[0] = Erased)
  BY ThisDriveIs, RemountCalm DEF Written
<1> HIDE DEF v
<1>3. Written(n)' /\ flash' = flash /\ out' = <<>>
  BY <1>1, <1>2, CalmStep
<1>4. Firmly(n)'
  BY <1>1, <1>2, <1>3 DEF Firmly
<1>5. Hostly(n)'
  BY <1>1, NoHost
<1> QED
  BY <1>3, <1>4, <1>5

\* The one step after which there may be another number of tables.
LEMMA FormatStep ==
  ASSUME NEW n \in {1, 2}, Written(n), Firmly(n), Hostly(n), Format
  PROVE  VInv'
<1>1. PICK m \in {1, 2} : Leaves(f_mkfs(ThisDrive, m))
  BY DEF Format
<1> DEFINE v == f_mkfs(ThisDrive, m)
<1>2. pc = "format" /\ out = <<>> /\ pc' = "label" /\ host' = host
  BY DEF Format, At_pc, hostVars
<1>3. flash = [s \in Disk |-> flash[s]] /\ \A s \in Disk : flash[s] = Erased
  BY <1>2, WrittenFacts DEF Firmly
<1>4. v.type = 0 /\ Pending(m, flash, v.out)
  BY <1>3, ThisDriveIs, FormatPending
<1>5. Leaves(v)
  BY <1>1
<1> HIDE DEF v
<1>6. Written(m)' /\ fs' = FsOf(v)
  BY <1>2, <1>4, <1>5, CallStep
<1>7. Firmly(m)'
  BY <1>2, <1>4, <1>6, FsOfIs DEF Firmly
<1>8. Hostly(m)'
  BY <1>2, NoHost
<1> QED
  BY <1>6, <1>7, <1>8 DEF VInv

LEMMA LabelStep ==
  ASSUME NEW n \in {1, 2}, Written(n), Firmly(n), Hostly(n), LabelAndMount
  PROVE  Written(n)' /\ Firmly(n)' /\ Hostly(n)'
<1> DEFINE w == f_setlabel(ThisDrive)
           v == f_mount(w)
           u == [w EXCEPT !.type = 0]
<1>1. pc = "label" /\ out = <<>> /\ Leaves(v) /\ pc' = "load" /\ host' = host
  BY DEF LabelAndMount, At_pc, hostVars
<1>2. fs.type = 0 /\ Sound(n, flash)
  BY <1>1 DEF Firmly, Written
<1>3. IsDrive(w) /\ Pending(n, flash, w.out)
  BY <1>2, ThisDriveIs, LabelReady
<1>4. v = mount_volume(u)
  BY DEF f_mount
<1> HIDE DEF w, v
<1>5. IsDrive(u) /\ u.out = w.out
  BY <1>3, SetType
<1> HIDE DEF u
<1>6. v.out = w.out
  BY <1>4, <1>5, MountIs
<1>7. Written(n)'
  BY <1>1, <1>3, <1>6, CallStep
<1>8. Firmly(n)'
  BY <1>1 DEF Firmly
<1>9. Hostly(n)'
  BY <1>1, NoHost
<1> QED
  BY <1>7, <1>8, <1>9

LEMMA LoadStep ==
  ASSUME NEW n \in {1, 2}, Written(n), Firmly(n), Hostly(n), config_load
  PROVE  Written(n)' /\ Firmly(n)' /\ Hostly(n)'
<1> DEFINE s == usbfs_timestamp(ThisDrive)
<1>1. pc = "load" /\ out = <<>> /\ pc' = "save" /\ host' = host
  BY DEF config_load, At_pc, usbVars, hostVars
<1>2. PICK r \in config_fetch(s.v) : Leaves(r.v)
  BY DEF config_load
<1>3. Calm(n, flash, s.v)
  BY ThisDriveIs, TimestampCalm DEF Written
<1>4. Sound(n, flash)
  BY DEF Written
<1> HIDE DEF s
<1>5. Calm(n, flash, r.v)
  BY <1>3, <1>4, FetchCalm
<1>6. Written(n)' /\ flash' = flash /\ out' = <<>> /\ Calm(n, flash', Drive(fs', flash'))
  BY <1>2, <1>1, <1>5, CalmStep
<1>7. Firmly(n)'
  BY <1>1, <1>6 DEF Firmly
<1>8. Hostly(n)'
  BY <1>1, NoHost
<1> QED
  BY <1>6, <1>7, <1>8

LEMMA OpenStep ==
  ASSUME NEW n \in {1, 2}, Written(n), Firmly(n), Hostly(n), OpenToSave
  PROVE  Written(n)' /\ Firmly(n)' /\ Hostly(n)'
<1> DEFINE o == f_create(ThisDrive, Config)
<1>1. /\ pc = "save" /\ out = <<>> /\ Leaves(o.v) /\ fp' = o.fp /\ host' = host
      /\ pc' = IF o.fp.slot = NoSlot THEN "sleep" ELSE "puts"
  BY DEF OpenToSave, At_pc, hostVars
<1>2. Sound(n, flash) /\ Calm(n, flash, ThisDrive)
  BY <1>1 DEF Written, Firmly, ThisDrive
<1>3. /\ Pending(n, flash, o.v.out)
      /\ o.fp.slot # NoSlot => Ready(n, flash, o.v) /\ Saving(n, o.v, o.fp)
  BY <1>2, CreateFileReady
<1> HIDE DEF o
<1>4. Written(n)' /\ flash' = flash /\ out' = o.v.out /\ fs' = FsOf(o.v)
  BY <1>1, <1>3, CallStep
<1>5. ASSUME o.fp.slot # NoSlot
      PROVE  LET f == Final(flash, o.v.out) IN
             Ready(n, f, Drive(FsOf(o.v), f)) /\ Saving(n, Drive(FsOf(o.v), f), o.fp)
  <2>1. Ready(n, flash, o.v) /\ Saving(n, o.v, o.fp)
    BY <1>3, <1>5
  <2>2. Final(flash, o.v.out) = o.v.disk
    BY <2>1 DEF Ready
  <2> QED
    BY <2>1, <2>2, AgainReady
<1>6. Firmly(n)'
  BY <1>1, <1>4, <1>5 DEF Firmly
<1>7. Hostly(n)'
  BY <1>1, NoHost
<1> QED
  BY <1>4, <1>6, <1>7

LEMMA SaveStep ==
  ASSUME NEW n \in {1, 2}, Written(n), Firmly(n), Hostly(n), SaveUnit
  PROVE  Written(n)' /\ Firmly(n)' /\ Hostly(n)'
<1> DEFINE o == f_write(ThisDrive, fp, text[pos + 1])
<1>1. pc = "puts" /\ out = <<>> /\ Leaves(o.v) /\ fp' = o.fp /\ host' = host /\ pc' = pc
  BY DEF SaveUnit, At_pc, hostVars
<1>2. Ready(n, flash, ThisDrive) /\ Saving(n, ThisDrive, fp)
  BY <1>1, WrittenFacts DEF Firmly, ThisDrive
<1>3. Ready(n, flash, o.v) /\ Saving(n, o.v, o.fp)
  BY <1>2, WriteReady
<1> HIDE DEF o
<1>4. Pending(n, flash, o.v.out) /\ o.v.disk = Final(flash, o.v.out)
  BY <1>3 DEF Ready
<1>5. Written(n)' /\ flash' = flash /\ out' = o.v.out /\ fs' = FsOf(o.v)
  BY <1>1, <1>4, CallStep
<1>6. LET f == Final(flash, o.v.out) IN
      Ready(n, f, Drive(FsOf(o.v), f)) /\ Saving(n, Drive(FsOf(o.v), f), o.fp)
  BY <1>3, <1>4, AgainReady
<1>7. Firmly(n)'
  BY <1>1, <1>5, <1>6 DEF Firmly
<1>8. Hostly(n)'
  BY <1>1, NoHost
<1> QED
  BY <1>5, <1>7, <1>8

LEMMA CloseStep ==
  ASSUME NEW n \in {1, 2}, Written(n), Firmly(n), Hostly(n), CloseSaved
  PROVE  Written(n)' /\ Firmly(n)' /\ Hostly(n)'
<1> DEFINE v == f_close(ThisDrive, fp)
<1>1. pc = "puts" /\ out = <<>> /\ Leaves(v) /\ host' = host /\ pc' = "sleep"
  BY DEF CloseSaved, At_pc, hostVars
<1>2. Ready(n, flash, ThisDrive) /\ Saving(n, ThisDrive, fp)
  BY <1>1, WrittenFacts DEF Firmly, ThisDrive
<1>3. Ready(n, flash, v)
  BY <1>2, CloseReady
<1> HIDE DEF v
<1>4. Pending(n, flash, v.out)
  BY <1>3 DEF Ready
<1>5. Written(n)'
  BY <1>1, <1>4, CallStep
<1>6. Firmly(n)'
  BY <1>1 DEF Firmly
<1>7. Hostly(n)'
  BY <1>1, NoHost
<1> QED
  BY <1>5, <1>6, <1>7

\* config_check runs beside a host that is there.
LEMMA CheckStep ==
  ASSUME NEW n \in {1, 2}, Written(n), Firmly(n), Hostly(n), config_check
  PROVE  Written(n)' /\ Firmly(n)' /\ Hostly(n)'
<1> DEFINE s == usbfs_timestamp(ThisDrive)
<1>1. /\ pc = "sleep" /\ out = <<>> /\ host' = host /\ pc' = "sleep"
      /\ Leaves(s.v) \/ \E r \in config_fetch(s.v) : Leaves(r.v)
  BY DEF config_check, At_pc, usbVars, hostVars, AfterFetch
<1>2. Calm(n, flash, s.v)
  BY ThisDriveIs, TimestampCalm DEF Written
<1>3. Sound(n, flash)
  BY DEF Written
<1> HIDE DEF s
<1>4. \A r \in config_fetch(s.v) : Calm(n, flash, r.v)
  BY <1>2, <1>3, FetchCalm
<1>5. Written(n)' /\ flash' = flash /\ out' = <<>>
  <2>1. CASE Leaves(s.v)
    BY <1>1, <1>2, <2>1, CalmStep
  <2>2. ASSUME NEW r \in config_fetch(s.v), Leaves(r.v)
        PROVE  Written(n)' /\ flash' = flash /\ out' = <<>>
    BY <1>1, <1>4, <2>2, CalmStep
  <2> QED
    BY <1>1, <2>1, <2>2
<1>6. Firmly(n)'
  BY <1>1 DEF Firmly
<1>7. Hostly(n)'
  BY <1>1, <1>5 DEF Hostly, HostKnows
<1> QED
  BY <1>5, <1>6, <1>7

(* Steps of the host *)

\* What is served is at rest, and stays so.
LEMMA Resting ==
  ASSUME NEW n \in {1, 2}, Written(n), pc = "sleep", UNCHANGED <<flash, erased, out, pc>>
  PROVE  Written(n)' /\ Firmly(n)' /\ pc' = "sleep"
<1>1. flash' = flash /\ erased' = erased /\ out' = out /\ pc' = "sleep"
  OBVIOUS
<1> QED
  BY <1>1 DEF Written, Firmly

\* A host that has mounted nothing.
LEMMA HostAway ==
  ASSUME NEW n \in {1, 2}, pc' = "sleep", out' = <<>>, IsHost(host'), host'.state # "mounted",
         host'.todo = <<>>, host'.half = FALSE
  PROVE  Hostly(n)'
BY DEF Hostly

LEMMA AwayStep ==
  ASSUME NEW n \in {1, 2}, Written(n), Hostly(n), Enumerate \/ Eject \/ Load \/ Unplug
  PROVE  Written(n)' /\ Firmly(n)' /\ Hostly(n)'
<1>0. IsHost(host) /\ host.half \in BOOLEAN /\ (host.half => host.todo # <<>>)
      /\ (host.state # "mounted" => host.todo = <<>>)
  BY DEF Hostly
<1>1. /\ pc = "sleep" /\ out = <<>> /\ UNCHANGED <<flash, erased, out, pc>>
      /\ \/ host' = Becomes(host, "polling") /\ host.state # "mounted"
         \/ host' = Becomes(Detached, "ejected")
         \/ host' = Detached
  <2>1. CASE Enumerate
    <3>1. At_pc("sleep") /\ host.state = "detached" /\ host' = [host EXCEPT !.state = "polling"]
          /\ UNCHANGED <<flash, erased, out, pc>>
      BY <2>1 DEF Enumerate, Served, diskVars, progVars
    <3> QED
      BY <3>1 DEF At_pc, Becomes
  <2>2. CASE Eject
    BY <2>2 DEF Eject, Served, At_pc, diskVars, progVars, Becomes
  <2>3. CASE Load
    <3>1. At_pc("sleep") /\ host.state = "ejected" /\ host' = [host EXCEPT !.state = "polling"]
          /\ UNCHANGED <<flash, erased, out, pc>>
      BY <2>3 DEF Load, Served, diskVars, progVars
    <3> QED
      BY <3>1 DEF At_pc, Becomes
  <2>4. CASE Unplug
    BY <2>4 DEF Unplug, Served, At_pc, diskVars, progVars
  <2> QED
    BY <2>1, <2>2, <2>3, <2>4
<1>2. Written(n)' /\ Firmly(n)' /\ pc' = "sleep"
  BY <1>1, Resting
<1>3. IsHost(host') /\ host'.state # "mounted" /\ host'.todo = <<>> /\ host'.half = FALSE
  <2>1. CASE host' = Becomes(host, "polling") /\ host.state # "mounted"
    <3>1. IsHost(host') /\ host'.state = "polling" /\ host'.todo = host.todo /\ host'.half = host.half
      BY <1>0, <2>1, BecomesIs
    <3> QED
      BY <1>0, <2>1, <3>1
  <2>2. CASE host' = Becomes(Detached, "ejected")
    <3>1. /\ IsHost(host') /\ host'.state = "ejected" /\ host'.todo = Detached.todo
          /\ host'.half = Detached.half
      BY <2>2, DetachedIs, BecomesIs
    <3> QED
      BY <3>1, DetachedIs
  <2>3. CASE host' = Detached
    BY <2>3, DetachedIs
  <2> QED
    BY <1>1, <2>1, <2>2, <2>3
<1>4. Hostly(n)'
  BY <1>1, <1>2, <1>3, HostAway
<1> QED
  BY <1>2, <1>4

LEMMA ReadyStep ==
  ASSUME NEW n \in {1, 2}, Written(n), Hostly(n), TestUnitReady
  PROVE  Written(n)' /\ Firmly(n)' /\ Hostly(n)'
<1>1. pc = "sleep" /\ out = <<>> /\ UNCHANGED <<flash, erased, out, pc>>
  BY DEF TestUnitReady, Served, At_pc, diskVars, progVars
<1>2. Written(n)' /\ Firmly(n)' /\ pc' = "sleep"
  BY <1>1, Resting
<1>3. CASE host' = Becomes(Detached, "polling")
  <2>1. IsHost(host') /\ host'.state = "polling" /\ host'.todo = <<>> /\ host'.half = FALSE
    BY <1>3, DetachedIs, BecomesIs
  <2>2. Hostly(n)'
    BY <1>1, <1>2, <2>1, HostAway
  <2> QED
    BY <1>2, <2>2
<1>4. CASE /\ host.state = "polling" /\ flash[0] # Erased
           /\ host' = Reads(host, TableOf(flash), SlotsOf(flash))
  <2>0. IsHost(host) /\ host.half = FALSE /\ host.todo = <<>>
    BY <1>4 DEF Hostly
  <2>1. /\ IsHost(host') /\ host'.state = "mounted" /\ host'.next = TableOf(flash)
        /\ host'.slots = SlotsOf(flash) /\ host'.todo = <<>> /\ host'.half = FALSE
    <3> DEFINE x == TableOf(flash)
               y == SlotsOf(flash)
    <3> HIDE DEF x, y
    <3>1. /\ IsHost(Reads(host, x, y)) /\ Reads(host, x, y).state = "mounted"
          /\ Reads(host, x, y).next = x /\ Reads(host, x, y).slots = y
          /\ Reads(host, x, y).todo = host.todo /\ Reads(host, x, y).half = host.half
      BY <2>0, ReadsIs
    <3>2. host' = Reads(host, x, y)
      BY <1>4 DEF x, y
    <3> QED
      BY <2>0, <3>1, <3>2 DEF x, y
  <2>2. flash[0] = Boot(n) /\ flash' = flash
    BY <1>1, <1>4, WrittenFacts
  <2>3. TableOf(flash) = NextIn(flash[1]) /\ SlotsOf(flash) = SlotsAt(n, flash)
    BY <2>2, LayoutOf
  <2>4. Pending(n, flash, <<>>) /\ Final(flash, <<>>) = flash /\ Hosted(n, <<>>)
    BY PendingNone DEF Written, Hosted
  <2>5. HostKnows(n)'
    BY <2>1, <2>2, <2>3, <2>4 DEF HostKnows
  <2>6. Hostly(n)'
    BY <1>1, <1>2, <2>1, <2>5 DEF Hostly
  <2> QED
    BY <1>2, <2>6
<1>5. \/ host' = Becomes(Detached, "polling")
      \/ /\ host.state = "polling" /\ flash[0] # Erased
         /\ host' = Reads(host, TableOf(flash), SlotsOf(flash))
  BY DEF TestUnitReady, Becomes, Reads
<1> QED
  BY <1>3, <1>4, <1>5

LEMMA SlotForIs ==
  ASSUME NEW slots, NEW name, SlotFor(slots, name) # NoSlot
  PROVE  SlotFor(slots, name) \in RootSlot
<1> DEFINE S(names) == {s \in RootSlot : slots[s].name \in names}
           all == IF S({name}) # {} THEN S({name}) ELSE S({Ended, Deleted})
<1>1. SlotFor(slots, name) = IF all = {} THEN NoSlot
                             ELSE CHOOSE s \in all : \A t \in all : s <= t
  BY DEF SlotFor
<1>2. all \in SUBSET RootSlot /\ RootSlot \subseteq Nat
  BY DEF RootSlot
<1> HIDE DEF all
<1>3. all # {}
  BY <1>1
<1>4. \E s \in all : \A t \in all : s <= t
  <2>1. all \in SUBSET Nat
    BY <1>2
  <2> QED
    BY <1>3, <2>1, LeastNumber
<1> QED
  BY <1>1, <1>2, <1>3, <1>4

LEMMA UnitsAreSeq ==
  ASSUME NEW S, NEW w \in Seq(S)
  PROVE  IsSeq(w)
<1>1. Len(w) \in Nat /\ DOMAIN w = 1 .. Len(w) /\ w = [i \in 1 .. Len(w) |-> w[i]]
  BY LenProperties
<1> QED
  BY <1>1, FunctionIsSeq

LEMMA EditStep ==
  ASSUME Orderly, NEW n \in {1, 2}, Written(n), Hostly(n),
         NEW name, NEW new, IsSeq(new), NEW entry, IsEntry(entry), HostEdits(name, new, entry)
  PROVE  Written(n)' /\ Firmly(n)' /\ Hostly(n)'
<1> DEFINE v == Layout(flash)
<1>1. /\ pc = "sleep" /\ out = <<>> /\ host.state = "mounted" /\ host.todo = <<>>
      /\ SlotFor(host.slots, name) # NoSlot /\ UNCHANGED <<flash, erased, out, pc>>
  BY DEF HostEdits, Served, At_pc, diskVars
<1>2. PICK clusts \in FirstFree(v, host.next, Len(new)) :
        LET c == Change(v, host, name, new, entry, clusts) IN
        host' = Plans(host, c.next, c.slots, c.writes)
  BY DEF HostEdits, Plans
<1>3. Written(n)' /\ Firmly(n)' /\ pc' = "sleep"
  BY <1>1, Resting
<1>4. HostKnows(n) /\ IsHost(host) /\ host.half = FALSE
  BY <1>1 DEF Hostly
<1>5. /\ flash[0] = Boot(n) /\ Sound(n, flash)
      /\ host.next = NextIn(flash[1]) /\ host.slots = SlotsAt(n, flash)
  <2>1. Sound(n, flash) /\ Final(flash, <<>>) = flash
    BY PendingNone DEF Written
  <2> QED
    BY <1>1, <1>4, <2>1 DEF HostKnows
<1>6. v.n_fats = n
  BY <1>5, LayoutOf
<1>7. SlotFor(host.slots, name) \in RootSlot
  BY <1>1, SlotForIs
<1> HIDE DEF v
<1> DEFINE c == Change(v, host, name, new, entry, clusts)
           next == c.next
           slots == c.slots
           todo == c.writes
           g == Final(flash, todo)
<1>8. Leads(n, flash, todo, g) /\ next = NextIn(g[1]) /\ slots = SlotsAt(n, g)
  BY <1>5, <1>6, <1>7, ChangeLeads
<1>9. host' = Plans(host, next, slots, todo)
  BY <1>2
<1> HIDE DEF next, slots, todo
<1>10. /\ IsHost(host') /\ host'.state = "mounted" /\ host'.next = next /\ host'.slots = slots
       /\ host'.todo = todo /\ host'.half = FALSE
  BY <1>1, <1>4, <1>9, PlansIs
<1>11. HostKnows(n)'
  BY <1>1, <1>5, <1>8, <1>10 DEF HostKnows, Leads
<1>12. Hostly(n)'
  BY <1>1, <1>3, <1>10, <1>11 DEF Hostly
<1> QED
  BY <1>3, <1>12

LEMMA HostedTail ==
  ASSUME NEW n, NEW w, IsSeq(w), w # <<>>, Hosted(n, w)
  PROVE  Hosted(n, Tail(w))
<1> DEFINE t == Tail(w)
<1>1. /\ Len(w) \in Nat /\ Len(t) = Len(w) - 1
      /\ \A i \in 1 .. Len(w) - 1 : t[i] = w[i + 1]
  BY TailFacts, SeqFacts
<1> HIDE DEF t
<1>2. ASSUME NEW i \in 1 .. Len(t)
      PROVE  \/ t[i].content.kind \in {"table", "data"}
             \/ t[i].content.kind = "entries" /\ t[i].sect \in DirSects(n)
  <2>1. i + 1 \in 1 .. Len(w) /\ t[i] = w[i + 1]
    BY <1>1
  <2> QED
    BY <2>1 DEF Hosted
<1>3. Hosted(n, t)
  BY <1>2 DEF Hosted
<1> QED
  BY <1>3 DEF t

LEMMA WriteStep ==
  ASSUME NEW n \in {1, 2}, Written(n), Hostly(n), HostWrites
  PROVE  Written(n)' /\ Firmly(n)' /\ Hostly(n)'
<1> DEFINE w == host.todo
<1>1. /\ pc = "sleep" /\ out = <<>> /\ UNCHANGED <<erased, out, pc>> /\ w # <<>>
      /\ IF host.half
         THEN /\ flash' = [flash EXCEPT ![Head(w).sect] = Head(w).content]
              /\ host' = AllDone(host)
         ELSE /\ flash' = [flash EXCEPT ![Head(w).sect] = FirstChunk(Head(w).content)]
              /\ host' = HalfDone(host)
  BY DEF HostWrites, Served, At_pc, progVars, AllDone, HalfDone
<1>2. IsHost(host) /\ host.half \in BOOLEAN /\ host.state = "mounted" /\ HostKnows(n)
  BY <1>1 DEF Hostly
<1>3. flash[0] = Boot(n) /\ Pending(n, flash, w) /\ Hosted(n, w) /\ Sound(n, flash)
  BY <1>2 DEF HostKnows, Written
<1>4. Head(w) = w[1] /\ IsSeq(w)
  BY <1>1, <1>3, TailFacts DEF Pending
<1>5. flash = [s \in Disk |-> flash[s]] /\ DOMAIN flash = Disk /\ ~erased
  BY <1>1, WrittenFacts DEF Written
<1>6. /\ w[1].sect \in Disk \ {0}
      /\ Sound(n, [flash EXCEPT ![w[1].sect] = FirstChunk(w[1].content)])
  BY <1>1, <1>3, FirstChunkSound
<1>7. CASE ~host.half
  <2> DEFINE x == FirstChunk(w[1].content)
             g == [flash EXCEPT ![w[1].sect] = x]
  <2>a. Sound(n, [flash EXCEPT ![w[1].sect] = x]) /\ w[1].sect # 0 /\ w # <<>>
    BY <1>1, <1>6
  <2>1. Pending(n, g, w) /\ Final(g, w) = Final(flash, w)
    <3> HIDE DEF x, w
    <3> QED
      BY <1>3, <2>a, PendingTorn, ZenonT(30)
  <2>2. g[0] = flash[0]
    BY <1>5, <1>6
  <2>3. flash' = g /\ host' = HalfDone(host)
    BY <1>1, <1>4, <1>7
  <2>4. Sound(n, g)
    BY <1>6
  <2> HIDE DEF g
  <2>5. /\ IsHost(host') /\ host'.state = "mounted" /\ host'.next = host.next
        /\ host'.slots = host.slots /\ host'.todo = w /\ host'.half = TRUE
    BY <1>2, <2>3, HalfDoneIs
  <2>6. Written(n)'
    BY <1>1, <1>5, <2>3, <2>4, PendingNone DEF Written
  <2>7. HostKnows(n)'
    BY <1>2, <1>3, <2>1, <2>2, <2>3, <2>5 DEF HostKnows
  <2>8. Hostly(n)' /\ Firmly(n)'
    BY <1>1, <2>5, <2>7 DEF Hostly, Firmly
  <2> QED
    BY <2>6, <2>8
<1>8. CASE host.half
  <2> DEFINE g == [flash EXCEPT ![w[1].sect] = w[1].content]
  <2>1. Pending(n, g, Tail(w)) /\ Final(g, Tail(w)) = Final(flash, w)
    BY <1>1, <1>3, PendingTail
  <2>2. g[0] = flash[0] /\ g = [s \in Disk |-> g[s]]
    <3> DEFINE k == w[1].sect
               c == w[1].content
    <3>1. k \in Disk \ {0} /\ 0 \in Disk
      BY <1>6, Numbers
    <3> HIDE DEF k, c, w
    <3>2. [flash EXCEPT ![k] = c][0] = flash[0] /\ DOMAIN [flash EXCEPT ![k] = c] = Disk
      BY <1>5, <3>1
    <3>3. g = [flash EXCEPT ![k] = c]
      BY DEF k, c
    <3> QED
      BY <3>2, <3>3
  <2>3. flash' = g /\ host' = AllDone(host)
    BY <1>1, <1>4, <1>8
  <2> HIDE DEF g
  <2>4. Sound(n, g)
    BY <2>1, <2>2, PendingFirst
  <2>5. /\ IsHost(host') /\ host'.state = "mounted" /\ host'.next = host.next
        /\ host'.slots = host.slots /\ host'.todo = Tail(w) /\ host'.half = FALSE
    BY <1>2, <2>3, AllDoneIs
  <2>6. Written(n)'
    BY <1>1, <1>5, <2>3, <2>4, PendingNone DEF Written
  <2>7. Hosted(n, Tail(w))
    BY <1>1, <1>3, <1>4, HostedTail
  <2>8. HostKnows(n)'
    BY <1>2, <1>3, <2>1, <2>2, <2>3, <2>5, <2>7 DEF HostKnows
  <2>9. Hostly(n)' /\ Firmly(n)'
    BY <1>1, <2>5, <2>8 DEF Hostly, Firmly
  <2> QED
    BY <2>6, <2>9
<1> QED
  BY <1>2, <1>7, <1>8

LEMMA ResetStep ==
  ASSUME NEW n \in {1, 2}, Written(n), Reset
  PROVE  Written(n)' /\ Firmly(n)' /\ Hostly(n)'
<1>1. /\ flash' = flash /\ erased' = FALSE /\ out' = <<>> /\ pc' = "init" /\ host' = Detached
  BY DEF Reset
<1>2. Written(n)'
  BY <1>1, PendingNone DEF Written
<1>3. Firmly(n)' /\ Hostly(n)'
  BY <1>1, DetachedIs DEF Firmly, Hostly
<1> QED
  BY <1>2, <1>3

------------------------------------------------------------------------------
(* Every step of the firmware, of the host and of the power.               *)

LEMMA SavesStep ==
  ASSUME Orderly, NEW n \in {1, 2}, Written(n), Hostly(n), HostSaves
  PROVE  Written(n)' /\ Firmly(n)' /\ Hostly(n)'
<1>1. PICK e \in Edits :
        HostEdits(e.file, e.text, Entry(e.file, 0, Len(e.text), Fixed + 1 + edits))
  BY DEF HostSaves
<1> DEFINE name == e.file
           new == e.text
           entry == Entry(e.file, 0, Len(e.text), Fixed + 1 + edits)
<1>2. e.text \in Seq(Unit)
  BY VolumeAssumption DEF VolumeAssumption
<1>3. IsSeq(new) /\ IsEntry(entry) /\ HostEdits(name, new, entry)
  BY <1>1, <1>2, UnitsAreSeq, EntryIsEntry
<1> HIDE DEF name, new, entry
<1> QED
  BY <1>3, EditStep

LEMMA DeletesStep ==
  ASSUME Orderly, NEW n \in {1, 2}, Written(n), Hostly(n), HostDeletes
  PROVE  Written(n)' /\ Firmly(n)' /\ Hostly(n)'
<1> DEFINE entry == EmptyEntry(Deleted)
<1>1. PICK name \in File : HostEdits(name, <<>>, entry)
  BY DEF HostDeletes
<1>2. IsEntry(entry)
  BY EntryIsEntry DEF EmptyEntry
<1> HIDE DEF entry
<1> QED
  BY <1>1, <1>2, EmptyIsSeq, EditStep

LEMMA FirmwareStep ==
  ASSUME NEW n \in {1, 2}, Written(n), Firmly(n), Hostly(n), Firmware
  PROVE  VInv'
<1>1. CASE EraseSector
  BY <1>1, EraseStep DEF VInv
<1>2. CASE ProgramSector
  BY <1>2, ProgramStep DEF VInv
<1>3. CASE MountAtBoot
  BY <1>3, MountStep DEF VInv
<1>4. CASE Format
  BY <1>4, FormatStep
<1>5. CASE FormatFails \/ NoMemory
  <2>1. UNCHANGED diskVars /\ host' = host /\ pc # "sleep" /\ pc' \in {"load", "sleep"}
    BY <1>5 DEF FormatFails, NoMemory, At_pc, hostVars
  <2> QED
    BY <2>1, RestStep DEF VInv
<1>6. CASE LabelAndMount
  BY <1>6, LabelStep DEF VInv
<1>7. CASE config_load
  BY <1>7, LoadStep DEF VInv
<1>8. CASE OpenToSave
  BY <1>8, OpenStep DEF VInv
<1>9. CASE SaveUnit
  BY <1>9, SaveStep DEF VInv
<1>10. CASE CloseSaved
  BY <1>10, CloseStep DEF VInv
<1>11. CASE config_check
  BY <1>11, CheckStep DEF VInv
<1> QED
  BY <1>1, <1>2, <1>3, <1>4, <1>5, <1>6, <1>7, <1>8, <1>9, <1>10, <1>11 DEF Firmware

LEMMA HostStep ==
  ASSUME Orderly, NEW n \in {1, 2}, Written(n), Hostly(n), Host
  PROVE  Written(n)' /\ Firmly(n)' /\ Hostly(n)'
<1>1. CASE Enumerate \/ Eject \/ Load \/ Unplug
  BY <1>1, AwayStep
<1>2. CASE TestUnitReady
  BY <1>2, ReadyStep
<1>3. CASE HostSaves
  BY <1>3, SavesStep
<1>4. CASE HostDeletes
  BY <1>4, DeletesStep
<1>5. CASE HostWrites
  BY <1>5, WriteStep
<1> QED
  BY <1>1, <1>2, <1>3, <1>4, <1>5 DEF Host

LEMMA VNext ==
  ASSUME Orderly, VInv, [Next]_vars
  PROVE  VInv'
<1>1. PICK n \in {1, 2} : Written(n) /\ Firmly(n) /\ Hostly(n)
  BY DEF VInv
<1>2. CASE Firmware
  BY <1>1, <1>2, FirmwareStep
<1>3. CASE Host
  BY <1>1, <1>3, HostStep DEF VInv
<1>4. CASE Reset
  BY <1>1, <1>4, ResetStep DEF VInv
<1>5. CASE UNCHANGED vars
  <2>1. UNCHANGED <<flash, erased, out, fs, fp, pc, host>>
    BY <1>5 DEF vars, diskVars, progVars, hostVars
  <2>2. Written(n)'
    BY <1>1, <2>1 DEF Written
  <2>3. Firmly(n)'
    BY <1>1, <2>1 DEF Firmly
  <2>4. Hostly(n)'
    BY <1>1, <2>1 DEF Hostly, HostKnows
  <2> QED
    BY <2>2, <2>3, <2>4 DEF VInv
<1> QED
  BY <1>2, <1>3, <1>4, <1>5 DEF Next

\* What the host has cached, as Cached puts it.
LEMMA HostlyCached ==
  ASSUME NEW n \in {1, 2}, Hostly(n)
  PROVE  Cached
<1> DEFINE f == After(flash, host.todo, Len(host.todo))
<1>1. SUFFICES ASSUME host.state = "mounted"
               PROVE  host.next = TableOf(f) /\ host.slots = SlotsOf(f)
  BY DEF Cached
<1>2. f[0] = Boot(n) /\ host.next = NextIn(f[1]) /\ host.slots = SlotsAt(n, f)
  BY <1>1 DEF Hostly, HostKnows, Final
<1> HIDE DEF f
<1> QED
  BY <1>2, LayoutOf

\* The invariant: with the n tables of the volume, the flash loses no file as it is,
\* nor after any part of what is still to be written to it.
THEOREM VolumeInvariant == ASSUME Orderly PROVE Spec => []VInv
<1>1. Init => VInv
  BY VInit
<1>2. VInv /\ [Next]_vars => VInv'
  BY VNext
<1> QED
  BY <1>1, <1>2, PTL DEF Spec

\* Whatever is saved, edited, reset or torn, and whatever the number and size of the
\* sectors, files and texts: what an entry of the directory refers to is allocated,
\* and to it alone (remove_chain, create_chain, f_write, f_close of ff.c).
THEOREM FilesIntact == ASSUME Orderly PROVE Spec => []Intact
<1>1. VInv => Intact
  BY SoundIntact DEF VInv, Written
<1> QED
  BY <1>1, VolumeInvariant, PTL

\* The firmware never writes behind the back of a host that has read the tables, as
\* usb.c serves it only between the calls of config.c, and reports what they changed
\* before it lets the host read.
THEOREM HostCached == ASSUME Orderly PROVE Spec => []Cached
<1>1. VInv => Cached
  BY HostlyCached DEF VInv
<1> QED
  BY <1>1, VolumeInvariant, PTL
==============================================================================
