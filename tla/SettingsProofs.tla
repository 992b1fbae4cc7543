--------------------------- MODULE SettingsProofs ---------------------------
(***************************************************************************)
(* Proofs about Settings: types; and, if names fit and there are fewer of  *)
(* them than the 8-bit count can count, one entry for each name, an entry  *)
(* for each that is needed, and the user's lines kept; with an orderly     *)
(* host a timestamp is recorded only of a file that is read.  Each says    *)
(* what memory that runs out may take from it.  And about the text: what   *)
(* is saved is read again, whatever the user wrote.                        *)
(***************************************************************************)
EXTENDS SettingsText, FiniteSetTheorems, SequenceTheorems, WellFoundedInduction, TLAPS

\* No name is cut to 31 characters.
NamesFit == \A n \in Name : Stored[n] = n

\* There are fewer names than the modulus of the count.
FewNames == IsFiniteSet(Name) /\ Cardinality(Name) < CountMod

Unique(t) == \A i, j \in 1 .. Len(t) : t[i].name = t[j].name => i = j

------------------------------------------------------------------------------
(* Types *)

\* What AddEntry and config_set make of a table if there is memory.
Added(t, l) == AddEntry(t, l, TRUE)
WithLine(t, l) == config_set(t, l, TRUE)

LEMMA AddEntryType ==
  ASSUME NEW t \in Seq(Line), NEW l \in Line
  PROVE  Added(t, l) \in Seq(Line)
<1>1. Stored[l.name] \in Name
  BY SettingsAssumption DEF SettingsAssumption, Line
<1>2. [name |-> Stored[l.name], value |-> l.value] \in Line
  BY <1>1 DEF Line
<1>3. <<>> \in Seq(Line)
  BY EmptySeq
<1>4. Append(t, [name |-> Stored[l.name], value |-> l.value]) \in Seq(Line)
  BY <1>2, AppendProperties
<1> QED
  BY <1>3, <1>4 DEF Added, AddEntry

\* config_set where the name has an entry already.
Overwritten(t, l) ==
  [i \in 1 .. Len(t) |->
     IF IsEntry(t, i, l.name) THEN [t[i] EXCEPT !.value = l.value] ELSE t[i]]

LEMMA OverwrittenFacts ==
  ASSUME NEW t \in Seq(Line), NEW l \in Line
  PROVE  /\ Overwritten(t, l) \in Seq(Line)
         /\ Len(Overwritten(t, l)) = Len(t)
         /\ \A i \in 1 .. Len(t) :
              /\ Overwritten(t, l)[i].name = t[i].name
              /\ Overwritten(t, l)[i].value =
                   IF IsEntry(t, i, l.name) THEN l.value ELSE t[i].value
<1> DEFINE o == Overwritten(t, l)
           n == Len(t)
<1>1. n \in Nat
  BY LenProperties
<1>2. \A i \in 1 .. n : t[i] \in Line
  BY ElementOfSeq
<1>3. ASSUME NEW i \in 1 .. n
      PROVE  /\ o[i] \in Line
             /\ o[i].name = t[i].name
             /\ o[i].value = IF IsEntry(t, i, l.name) THEN l.value ELSE t[i].value
  <2>1. o[i] = IF IsEntry(t, i, l.name) THEN [t[i] EXCEPT !.value = l.value] ELSE t[i]
    BY DEF Overwritten
  <2>2. t[i] \in [name : Name, value : Value] /\ l.value \in Value
    BY <1>2 DEF Line
  <2> QED
    BY <2>1, <2>2 DEF Line
<1>4. o \in [1 .. n -> Line]
  <2>1. o = [i \in 1 .. n |-> o[i]]
    BY DEF Overwritten
  <2> QED
    BY <1>3, <2>1
<1>5. o \in Seq(Line)
  BY <1>1, <1>4, SeqDef
<1>6. Len(o) = n
  <2>1. DOMAIN o = 1 .. n
    BY DEF Overwritten
  <2>2. Len(o) \in Nat /\ DOMAIN o = 1 .. Len(o)
    BY <1>5, LenProperties
  <2> QED
    BY <1>1, <2>1, <2>2
<1> QED
  BY <1>3, <1>5, <1>6

LEMMA SetType ==
  ASSUME NEW t \in Seq(Line), NEW l \in Line
  PROVE  WithLine(t, l) \in Seq(Line)
<1>1. Added(t, l) \in Seq(Line)
  BY AddEntryType
<1>2. Overwritten(t, l) \in Seq(Line)
  BY OverwrittenFacts
<1> QED
  BY <1>1, <1>2 DEF WithLine, config_set, Added, Overwritten

\* config_set sets the line, or there is no memory for it and it leaves the table
\* as it was.
LEMMA SetOutcome ==
  ASSUME starved \in BOOLEAN, NEW l, Set(l)
  PROVE  \/ settings' = WithLine(settings, l) /\ starved' = starved
         \/ settings' = settings /\ starved' = TRUE
<1>1. PICK memory \in {TRUE, ~Asks(settings, l)} :
        settings' = config_set(settings, l, memory) /\ starved' = (starved \/ ~memory)
  BY DEF Set
<1>2. CASE memory = TRUE
  BY <1>1, <1>2 DEF WithLine
<1>3. CASE memory # TRUE
  <2>1. Asks(settings, l) /\ memory = FALSE
    BY <1>3 DEF Asks
  <2>2. config_set(settings, l, FALSE) = settings
    BY <2>1 DEF Asks, config_set, AddEntry
  <2> QED
    BY <1>1, <2>1, <2>2
<1> QED
  BY <1>2, <1>3

\* Every variable stays in its type in every behaviour: no line is read beyond
\* the defaults or the file, whatever the host has left of the latter.
THEOREM TypeCorrect == Spec => []TypeOK
<1> USE SettingsAssumption DEF SettingsAssumption, Parts
<1>1. ASSUME Init PROVE TypeOK
  <2>1. <<>> \in Seq(Line)
    BY EmptySeq
  <2>2. starved \in BOOLEAN /\ spoiled \in BOOLEAN
    BY <1>1 DEF Init
  <2>3. host \in [file : Seq(Line), stamp : 0 .. MaxStamp, todo : SUBSET Parts]
    BY <1>1, <2>1 DEF Init, Idle
  <2> QED
    BY <1>1, <2>1, <2>2, <2>3 DEF Init, TypeOK, NoFile, Fixed
<1>2. TypeOK /\ [Next]_vars => TypeOK'
  <2> SUFFICES ASSUME TypeOK, [Next]_vars
               PROVE  TypeOK'
    OBVIOUS
  <2>1. TextLen \in Nat /\ TextLen <= Len(data) /\ Len(data) \in Nat
    BY LenProperties DEF TypeOK, TextLen, Least
  <2>2. CASE SetDefault
    <3>1. line \in 1 .. Len(Defaults)
      BY <2>2, LenProperties DEF SetDefault, DefaultsLeft, TypeOK
    <3>2. Defaults[line] \in Line
      BY <3>1, ElementOfSeq
    <3>3. settings' \in Seq(Line) /\ starved' \in BOOLEAN
      BY <2>2, <3>2, SetOutcome, SetType DEF SetDefault, TypeOK
    <3> QED
      BY <2>2, <3>3 DEF SetDefault, TypeOK, hostVars
  <2>3. CASE TakeTimestamp
    BY <2>3 DEF TakeTimestamp, TypeOK, hostVars
  <2>4. CASE FetchLine
    <3>1. line \in 1 .. Len(data)
      BY <2>1, <2>4 DEF FetchLine, TypeOK
    <3>2. data[line] \in Line
      BY <3>1, ElementOfSeq DEF TypeOK
    <3>3. settings' \in Seq(Line) /\ starved' \in BOOLEAN
      BY <2>4, <3>2, SetOutcome, SetType DEF FetchLine, TypeOK
    <3> QED
      BY <2>4, <3>3 DEF FetchLine, TypeOK, hostVars
  <2>5. CASE EndFetch \/ FetchFails
    BY <2>5 DEF EndFetch, FetchFails, TypeOK, hostVars
  <2>6. CASE OpenToSave
    BY <2>6 DEF OpenToSave, TypeOK, hostVars, Fixed
  <2>7. CASE SaveFails
    BY <2>7 DEF SaveFails, TypeOK, hostVars
  <2>8. CASE WriteData
    BY <2>8 DEF WriteData, TypeOK, hostVars
  <2>9. CASE WriteEntry
    BY <2>1, <2>9 DEF WriteEntry, TypeOK, hostVars, Fixed
  <2>10. CASE config_check
    <3>1. starved' \in BOOLEAN
      BY <2>10 DEF config_check
    <3> QED
      BY <2>10, <3>1 DEF config_check, TypeOK, hostVars
  <2>11. CASE UpdateFromConfig
    BY <2>11 DEF UpdateFromConfig, TypeOK, hostVars
  <2>12. ASSUME NEW f \in Files, HostEdit(f) PROVE TypeOK'
    <3>1. f \in Seq(Line)
      OBVIOUS
    <3>2. clock' \in Fixed .. MaxStamp
      BY <2>12 DEF HostEdit, TypeOK, Fixed
    <3>3. host' \in [file : Seq(Line), stamp : 0 .. MaxStamp, todo : SUBSET Parts]
      BY <2>12, <3>1, <3>2 DEF HostEdit, Fixed
    <3> QED
      BY <2>12, <3>2, <3>3 DEF HostEdit, TypeOK, progVars
  <2>13. ASSUME NEW part \in Parts, HostWrite(part) PROVE TypeOK'
    <3>1. host.file \in Seq(Line) /\ Len(host.file) \in Nat
          /\ host.stamp \in 0 .. MaxStamp /\ host.todo \subseteq Parts
      BY LenProperties DEF TypeOK
    <3>2. \A i \in 1 .. Len(host.file) : host.file[i] \in Line
      BY <3>1, ElementOfSeq
    <3>3. SubSeq(host.file, 1, Least(Chunk, Len(host.file))) \in Seq(Line)
      <4>1. Least(Chunk, Len(host.file)) \in Int
            /\ Least(Chunk, Len(host.file)) <= Len(host.file)
        BY <3>1 DEF Least
      <4> QED
        BY <3>1, <3>2, <4>1, SubSeqProperties
    <3>4. data' \in Seq(Line)
      BY <2>13, <3>1, <3>3 DEF HostWrite, TypeOK
    <3>5. dir' \in [stamp : 0 .. MaxStamp, size : Nat]
      BY <2>13, <3>1 DEF HostWrite, TypeOK
    <3>6. host' \in [file : Seq(Line), stamp : 0 .. MaxStamp, todo : SUBSET Parts]
      <4>1. Idle \in [file : Seq(Line), stamp : 0 .. MaxStamp, todo : SUBSET Parts]
        BY EmptySeq DEF Idle
      <4>2. CASE host' = Idle
        BY <4>1, <4>2
      <4>3. CASE host' = [host EXCEPT !.todo = host.todo \ {part}]
        <5>1. host \in [file : Seq(Line), stamp : 0 .. MaxStamp, todo : SUBSET Parts]
          BY DEF TypeOK
        <5>2. (host.todo \ {part}) \in SUBSET Parts
          BY <3>1
        <5> QED
          BY <4>3, <5>1, <5>2
      <4> QED
        BY <2>13, <4>2, <4>3 DEF HostWrite
    <3>7. user' \in Seq(Line) /\ spoiled' \in BOOLEAN
      BY <2>13, <3>1 DEF HostWrite, TypeOK
    <3> QED
      BY <2>13, <3>4, <3>5, <3>6, <3>7 DEF HostWrite, TypeOK, progVars
  <2>14. CASE HostDelete
    <3>1. spoiled' \in BOOLEAN
      BY <2>14 DEF HostDelete
    <3>2. user' \in Seq(Line)
      BY <2>14, EmptySeq DEF HostDelete
    <3> QED
      BY <2>14, <3>1, <3>2 DEF HostDelete, TypeOK, progVars, NoFile
  <2>15. CASE Reset
    <3>1. <<>> \in Seq(Line)
      BY EmptySeq
    <3>2. \A i \in 1 .. TextLen : data[i] \in Line
      BY <2>1, ElementOfSeq DEF TypeOK
    <3>3. SubSeq(data, 1, TextLen) \in Seq(Line)
      BY <2>1, <3>2, SubSeqProperties
    <3>4. starved' \in BOOLEAN /\ spoiled' \in BOOLEAN
      BY <2>15 DEF Reset
    <3>5. host' \in [file : Seq(Line), stamp : 0 .. MaxStamp, todo : SUBSET Parts]
      BY <2>15, <3>1 DEF Reset, Idle
    <3> QED
      BY <2>15, <3>1, <3>3, <3>4, <3>5 DEF Reset, TypeOK
  <2>16. CASE UNCHANGED vars
    BY <2>16 DEF vars, progVars, hostVars, TypeOK
  <2> QED
    BY <2>2, <2>3, <2>4, <2>5, <2>6, <2>7, <2>8, <2>9, <2>10, <2>11, <2>12, <2>13,
       <2>14, <2>15, <2>16 DEF Next, Program, Host
<1> QED
  BY <1>1, <1>2, PTL DEF Spec

------------------------------------------------------------------------------
(* config_set *)

\* The entry that AddEntry appends.
LEMMA AppendedFacts ==
  ASSUME NamesFit, NEW t \in Seq(Line), NEW l \in Line,
         Len(t) + 1 # CountMod
  PROVE  /\ Added(t, l) \in Seq(Line)
         /\ Len(t) \in Nat /\ Len(Added(t, l)) = Len(t) + 1
         /\ \A i \in 1 .. Len(t) : Added(t, l)[i] = t[i]
         /\ Added(t, l)[Len(t) + 1].name = l.name
         /\ Added(t, l)[Len(t) + 1].value = l.value
<1> DEFINE e == [name |-> Stored[l.name], value |-> l.value]
<1>1. l.name \in Name /\ l.value \in Value
  BY DEF Line
<1>2. Stored[l.name] = l.name
  BY <1>1 DEF NamesFit
<1>3. e \in Line /\ e.name = l.name /\ e.value = l.value
  BY <1>1, <1>2 DEF Line
<1>4. Added(t, l) = Append(t, e)
  BY DEF Added, AddEntry
<1> HIDE DEF e
<1> QED
  BY <1>3, <1>4, AppendProperties, LenProperties

LEMMA SetUnique ==
  ASSUME NamesFit, NEW t \in Seq(Line), Unique(t), NEW l \in Line
  PROVE  Unique(WithLine(t, l))
<1>1. CASE Unset(t, l.name) /\ Len(t) + 1 = CountMod
  <2>1. WithLine(t, l) = <<>>
    BY <1>1 DEF WithLine, config_set, AddEntry
  <2> QED
    BY <2>1 DEF Unique
<1>2. CASE Unset(t, l.name) /\ Len(t) + 1 # CountMod
  <2> DEFINE a == Added(t, l)
  <2>1. WithLine(t, l) = a
    BY <1>2 DEF WithLine, config_set, Added
  <2>2. /\ Len(t) \in Nat /\ Len(a) = Len(t) + 1
        /\ \A i \in 1 .. Len(t) : a[i] = t[i]
        /\ a[Len(t) + 1].name = l.name
    BY <1>2, AppendedFacts
  <2> HIDE DEF a
  <2> QED
    BY <1>2, <2>1, <2>2 DEF Unique, Unset
<1>3. CASE ~Unset(t, l.name)
  <2> DEFINE o == Overwritten(t, l)
  <2>1. WithLine(t, l) = o
    BY <1>3 DEF WithLine, config_set, Overwritten
  <2>2. Len(o) = Len(t) /\ \A i \in 1 .. Len(t) : o[i].name = t[i].name
    BY OverwrittenFacts
  <2> HIDE DEF o
  <2> QED
    BY <2>1, <2>2 DEF Unique
<1> QED
  BY <1>1, <1>2, <1>3

\* With unique entries there is room for one more name.
LEMMA Room ==
  ASSUME FewNames, NEW t \in Seq(Line), Unique(t), NEW l \in Line, Unset(t, l.name)
  PROVE  Len(t) + 1 # CountMod
<1> SUFFICES ASSUME Len(t) + 1 = CountMod PROVE FALSE
  OBVIOUS
<1> DEFINE n == Len(t)
           others == Name \ {l.name}
           f == [i \in 1 .. n |-> t[i].name]
<1>1. n \in Nat
  BY LenProperties
<1>2. l.name \in Name
  BY DEF Line
<1>3. IsFiniteSet(others) /\ Cardinality(others) = Cardinality(Name) - 1
  BY <1>2, FS_RemoveElement DEF FewNames
<1>4. Cardinality(Name) \in Nat
  BY FS_CardinalityType DEF FewNames
<1>5. IsFiniteSet(1 .. n) /\ Cardinality(1 .. n) = n
  <2> HIDE DEF n
  <2>1. IsFiniteSet(1 .. n) /\ Cardinality(1 .. n) = IF 1 > n THEN 0 ELSE n - 1 + 1
    BY <1>1, FS_Interval
  <2> QED
    BY <1>1, <2>1
<1>6. Cardinality(others) < Cardinality(1 .. n)
  BY <1>1, <1>3, <1>4, <1>5, SettingsAssumption DEF FewNames, SettingsAssumption
<1>7. f \in [1 .. n -> others]
  <2>1. ASSUME NEW i \in 1 .. n PROVE t[i].name \in others
    <3>1. t[i] \in Line
      BY ElementOfSeq
    <3>2. t[i].name # l.name
      BY DEF Unset
    <3> QED
      BY <3>1, <3>2 DEF Line
  <2> QED
    BY <2>1
<1>8. PICK i, j \in 1 .. n : i # j /\ f[i] = f[j]
  <2> HIDE DEF f, others
  <2> QED
    BY <1>3, <1>5, <1>6, <1>7, FS_PigeonHole
<1> QED
  BY <1>8 DEF Unique

\* What config_set sets config_get gives, and other names keep their values.
LEMMA SetHolds ==
  ASSUME NamesFit, FewNames, NEW t \in Seq(Line), Unique(t), NEW l \in Line
  PROVE  /\ Holds(WithLine(t, l), l)
         /\ \A k \in Line : k.name # l.name /\ Holds(t, k) => Holds(WithLine(t, l), k)
<1>1. CASE Unset(t, l.name)
  <2> DEFINE a == Added(t, l)
             n == Len(t)
  <2>1. WithLine(t, l) = a
    BY <1>1 DEF WithLine, config_set, Added
  <2>2. /\ n \in Nat /\ Len(a) = n + 1
        /\ \A i \in 1 .. n : a[i] = t[i]
        /\ a[n + 1].name = l.name /\ a[n + 1].value = l.value
    BY <1>1, Room, AppendedFacts
  <2>3. \A i \in 1 .. n : t[i].name # l.name
    BY <1>1 DEF Unset
  <2> HIDE DEF a, n
  <2>4. Holds(a, l)
    <3>1. n + 1 \in 1 .. Len(a) /\ IsEntry(a, n + 1, l.name)
      BY <2>2, <2>3 DEF IsEntry
    <3> QED
      BY <2>2, <3>1 DEF Holds
  <2>5. ASSUME NEW k \in Line, Holds(t, k) PROVE Holds(a, k)
    <3>1. PICK i \in 1 .. n : IsEntry(t, i, k.name) /\ t[i].value = k.value
      BY <2>5 DEF Holds, n
    <3>2. i \in 1 .. Len(a) /\ IsEntry(a, i, k.name) /\ a[i].value = k.value
      BY <2>2, <3>1 DEF IsEntry
    <3> QED
      BY <3>2 DEF Holds
  <2> QED
    BY <2>1, <2>4, <2>5
<1>2. CASE ~Unset(t, l.name)
  <2> DEFINE o == Overwritten(t, l)
             n == Len(t)
  <2>1. WithLine(t, l) = o
    BY <1>2 DEF WithLine, config_set, Overwritten
  <2>2. /\ n \in Nat /\ Len(o) = n
        /\ \A i \in 1 .. n :
             /\ o[i].name = t[i].name
             /\ o[i].value = IF IsEntry(t, i, l.name) THEN l.value ELSE t[i].value
    BY OverwrittenFacts, LenProperties
  <2>3. \A i, j \in 1 .. n : t[i].name = t[j].name => i = j
    BY DEF Unique
  <2>4. PICK m \in 1 .. n : t[m].name = l.name
    BY <1>2 DEF Unset
  <2> HIDE DEF o, n
  <2>5. Holds(o, l)
    <3>1. IsEntry(t, m, l.name)
      BY <2>2, <2>3, <2>4 DEF IsEntry
    <3>2. IsEntry(o, m, l.name)
      BY <2>2, <3>1 DEF IsEntry
    <3> QED
      BY <2>2, <3>1, <3>2 DEF Holds
  <2>6. ASSUME NEW k \in Line, k.name # l.name, Holds(t, k) PROVE Holds(o, k)
    <3>1. PICK i \in 1 .. n : IsEntry(t, i, k.name) /\ t[i].value = k.value
      BY <2>6 DEF Holds, n
    <3>2. ~IsEntry(t, i, l.name)
      BY <2>6, <3>1 DEF IsEntry
    <3>3. IsEntry(o, i, k.name) /\ o[i].value = k.value
      BY <2>2, <3>1, <3>2 DEF IsEntry
    <3> QED
      BY <2>2, <3>3 DEF Holds
  <2> QED
    BY <2>1, <2>5, <2>6
<1> QED
  BY <1>1, <1>2

------------------------------------------------------------------------------
(* One entry for each name *)

\* With names that fit, the table never has two entries for a name, however
\* often the file is reloaded: config_get gives what was last set.
THEOREM NamesStayUnique ==
  ASSUME NamesFit
  PROVE  Spec => []UniqueNames
<1>1. Init => UniqueNames
  BY DEF Init, UniqueNames
<1>2. TypeOK /\ UniqueNames /\ [Next]_vars => UniqueNames'
  <2> SUFFICES ASSUME TypeOK, UniqueNames, [Next]_vars
               PROVE  UniqueNames'
    OBVIOUS
  <2>1. settings \in Seq(Line) /\ Unique(settings)
    BY DEF TypeOK, UniqueNames, Unique
  <2>2. CASE SetDefault
    <3>1. line \in 1 .. Len(Defaults)
      BY <2>2, SettingsAssumption, LenProperties
         DEF SetDefault, DefaultsLeft, TypeOK, SettingsAssumption
    <3>2. Defaults[line] \in Line
      BY <3>1, SettingsAssumption, ElementOfSeq DEF SettingsAssumption
    <3>3. Unique(WithLine(settings, Defaults[line]))
      BY <2>1, <3>2, SetUnique
    <3>4. settings' = WithLine(settings, Defaults[line]) \/ settings' = settings
      BY <2>2, SetOutcome DEF SetDefault, TypeOK
    <3>5. Unique(settings')
      BY <2>1, <3>3, <3>4
    <3> QED
      BY <3>5 DEF Unique, UniqueNames
  <2>3. CASE FetchLine
    <3>1. line \in 1 .. Len(data)
      BY <2>3, LenProperties DEF FetchLine, TypeOK, TextLen, Least
    <3>2. data[line] \in Line
      BY <3>1, ElementOfSeq DEF TypeOK
    <3>3. Unique(WithLine(settings, data[line]))
      BY <2>1, <3>2, SetUnique
    <3>4. settings' = WithLine(settings, data[line]) \/ settings' = settings
      BY <2>3, SetOutcome DEF FetchLine, TypeOK
    <3>5. Unique(settings')
      BY <2>1, <3>3, <3>4
    <3> QED
      BY <3>5 DEF Unique, UniqueNames
  <2>4. CASE Reset
    BY <2>4 DEF Reset, UniqueNames
  <2>5. CASE UNCHANGED settings
    BY <2>5 DEF UniqueNames
  <2>6. ASSUME Host \/ UNCHANGED vars PROVE UNCHANGED settings
    BY <2>6 DEF Host, HostEdit, HostWrite, HostDelete, progVars, vars
  <2> QED
    BY <2>2, <2>3, <2>4, <2>5, <2>6
       DEF Next, Program, TakeTimestamp, EndFetch, FetchFails, OpenToSave, SaveFails, WriteData,
           WriteEntry, config_check, UpdateFromConfig
<1> QED
  BY <1>1, <1>2, TypeCorrect, PTL DEF Spec

------------------------------------------------------------------------------
(* A timestamp recorded is a file read *)

\* The first n lines of the file are in the table t.
AllRead(t, n) == \A i \in 1 .. n : IsLast(data, n, i) => Holds(t, data[i])

\* How far the reading and the writing of the file have come, if there was memory
\* for the reading.
FileInv ==
  /\ pc \in {"load", "fetch"} => line <= TextLen + 1
  /\ pc \in {"load", "fetch"} /\ ~starved => AllRead(settings, line - 1)
  /\ pc \in {"save", "update"} /\ ~starved => AllRead(settings, TextLen)
  /\ pc = "close" => data = settings
  /\ pc = "sleep" /\ host = Idle /\ dir.stamp = m_config_timestamp /\ ~starved =>
       AllRead(used, TextLen)

\* The stamp of an edit in progress is newer than any the firmware has seen, and
\* the directory entry is still to be written.
HostInv ==
  /\ m_config_timestamp <= clock /\ dir.stamp <= clock
  /\ host # Idle =>
       /\ "entry" \in host.todo
       /\ host.stamp = clock
       /\ Fixed < clock /\ m_config_timestamp < clock /\ dir.stamp < clock

ReadInv == UniqueNames /\ FileInv /\ HostInv

LEMMA HostKept ==
  ASSUME Orderly, TypeOK, HostInv, [Next]_vars
  PROVE  HostInv'
<1> USE DEF HostInv, TypeOK, Fixed
<1>1. CASE TakeTimestamp \/ config_check
  BY <1>1 DEF TakeTimestamp, config_check, hostVars
<1>2. CASE OpenToSave \/ WriteEntry
  BY <1>2 DEF OpenToSave, WriteEntry, hostVars
<1>3. CASE UNCHANGED <<m_config_timestamp, dir, clock, host>>
  BY <1>3
<1>4. ASSUME NEW f \in Files, HostEdit(f) PROVE HostInv'
  <2>1. clock' = clock + 1
    BY <1>4 DEF HostEdit
  <2>2. /\ host'.todo = {"first", "rest", "entry"} /\ host'.stamp = clock'
        /\ UNCHANGED <<m_config_timestamp, dir>>
    BY <1>4 DEF HostEdit, progVars
  <2> QED
    BY <2>1, <2>2
<1>5. ASSUME NEW part \in Parts, HostWrite(part) PROVE HostInv'
  <2>1. UNCHANGED <<m_config_timestamp, clock>> /\ part \in host.todo
    BY <1>5 DEF HostWrite, progVars
  <2>2. host # Idle
    BY <2>1 DEF Idle
  <2>3. dir'.stamp <= clock
    BY <1>5, <2>1, <2>2 DEF HostWrite
  <2>4. ASSUME host' # Idle
        PROVE  /\ "entry" \in host'.todo /\ host'.stamp = clock /\ dir'.stamp < clock
    <3>1. host.todo # {part} /\ host' = [host EXCEPT !.todo = host.todo \ {part}]
      BY <1>5, <2>4 DEF HostWrite
    <3>2. part # "entry"
      BY <1>5, <3>1 DEF HostWrite
    <3>3. dir' = dir
      BY <1>5, <3>2 DEF HostWrite
    <3> QED
      BY <2>2, <3>1, <3>2, <3>3
  <2> QED
    BY <2>1, <2>2, <2>3, <2>4
<1>6. CASE HostDelete
  BY <1>6 DEF HostDelete, progVars, NoFile
<1>7. CASE Reset
  BY <1>7 DEF Reset
<1> QED
  BY <1>1, <1>2, <1>3, <1>4, <1>5, <1>6, <1>7
     DEF Next, Program, Host, Parts, vars, progVars, hostVars, SetDefault, FetchLine,
         EndFetch, FetchFails, SaveFails, WriteData, UpdateFromConfig

\* The reading of one more line.
LEMMA LineRead ==
  ASSUME NamesFit, FewNames, TypeOK, UniqueNames, FetchLine,
         ~starved => AllRead(settings, line - 1)
  PROVE  line' <= TextLen' + 1 /\ (~starved' => AllRead(settings, line - 1)')
<1>1. TextLen \in Nat /\ TextLen <= Len(data) /\ line \in Nat \ {0} /\ line <= TextLen
  BY LenProperties DEF TypeOK, TextLen, Least, FetchLine
<1>2. UNCHANGED <<dir, data>> /\ line' = line + 1
  BY DEF FetchLine
<1>3. settings \in Seq(Line) /\ Unique(settings)
  BY DEF TypeOK, UniqueNames, Unique
<1>4. \A i \in 1 .. line : data[i] \in Line
  BY <1>1, ElementOfSeq DEF TypeOK
<1>5. TextLen' = TextLen /\ line' - 1 = line /\ data' = data
  BY <1>1, <1>2 DEF TextLen
<1>6. ASSUME ~starved' PROVE AllRead(settings, line - 1)'
  <2>1. ~starved /\ settings' = WithLine(settings, data[line])
    BY <1>6, SetOutcome DEF FetchLine, TypeOK
  <2>2. Holds(settings', data[line])
    BY <1>1, <1>3, <1>4, <2>1, SetHolds
  <2>3. ASSUME NEW i \in 1 .. line - 1, IsLast(data, line, i)
        PROVE  Holds(settings', data[i])
    <3>1. data[line].name # data[i].name /\ IsLast(data, line - 1, i)
      BY <1>1, <2>3 DEF IsLast
    <3>2. Holds(settings, data[i])
      BY <2>1, <3>1 DEF AllRead
    <3>3. data[i] \in Line /\ data[line] \in Line
      BY <1>1, <1>4
    <3> QED
      BY <1>3, <2>1, <3>1, <3>2, <3>3, SetHolds
  <2>4. \A i \in 1 .. line : IsLast(data, line, i) => Holds(settings', data[i])
    BY <1>1, <2>2, <2>3
  <2> QED
    BY <1>5, <2>4 DEF AllRead, IsLast
<1> QED
  BY <1>1, <1>2, <1>5, <1>6

\* What has been saved is what is in the table.
LEMMA SavedIsRead ==
  ASSUME NEW t \in Seq(Line), Unique(t), NEW i \in 1 .. Len(t)
  PROVE  Holds(t, t[i])
<1>1. Len(t) \in Nat
  BY LenProperties
<1>2. IsEntry(t, i, t[i].name)
  BY <1>1 DEF IsEntry, Unique
<1> QED
  BY <1>2 DEF Holds

LEMMA FileKept ==
  ASSUME NamesFit, FewNames, Orderly, TypeOK, ReadInv, [Next]_vars
  PROVE  FileInv'
<1> USE DEF ReadInv
<1>1. TextLen \in Nat /\ Len(data) \in Nat
  BY LenProperties DEF TypeOK, TextLen, Least
<1>2. CASE FetchLine
  <2>1. pc' = pc /\ pc \in {"load", "fetch"}
        /\ (~starved => AllRead(settings, line - 1))
    BY <1>2 DEF FetchLine, FileInv
  <2>2. line' <= TextLen' + 1 /\ (~starved' => AllRead(settings, line - 1)')
    BY <1>2, <2>1, LineRead
  <2> QED
    BY <2>1, <2>2 DEF FileInv
<1>3. CASE SetDefault
  BY <1>3 DEF SetDefault, FileInv
<1>4. CASE TakeTimestamp
  <2>1. AllRead(settings, line - 1)'
    BY <1>4 DEF TakeTimestamp, AllRead
  <2>2. TextLen' = TextLen
    BY <1>4 DEF TakeTimestamp, TextLen
  <2> QED
    BY <1>1, <1>4, <2>1, <2>2 DEF TakeTimestamp, FileInv
<1>5. CASE EndFetch
  <2>1. line = TextLen + 1
    BY <1>1, <1>5 DEF EndFetch, FileInv, TypeOK
  <2>2. ~starved => AllRead(settings, TextLen)
    BY <1>1, <1>5, <2>1 DEF EndFetch, FileInv
  <2>3. starved' = starved /\ (~starved' => AllRead(settings, TextLen)')
    BY <1>5, <2>2 DEF EndFetch, AllRead, TextLen, IsLast
  <2> QED
    BY <1>5, <2>3 DEF EndFetch, FileInv
<1>6. CASE OpenToSave \/ FetchFails
  BY <1>6 DEF OpenToSave, FetchFails, FileInv
<1>7. CASE SaveFails
  <2>1. ~starved' => AllRead(settings, TextLen)'
    BY <1>7 DEF SaveFails, FileInv, AllRead, TextLen, IsLast
  <2> QED
    BY <1>7, <2>1 DEF SaveFails, FileInv
<1>8. CASE WriteData
  BY <1>8 DEF WriteData, FileInv
<1>9. CASE WriteEntry
  <2>1. settings \in Seq(Line) /\ Unique(settings) /\ data = settings
    BY <1>9 DEF WriteEntry, FileInv, TypeOK, UniqueNames, Unique
  <2>2. UNCHANGED <<data, settings>> /\ pc' = "update" /\ TextLen' = Len(data)
    BY <1>1, <1>9 DEF WriteEntry, TextLen, Least
  <2>3. AllRead(settings, TextLen)'
    BY <2>1, <2>2, SavedIsRead DEF AllRead
  <2> QED
    BY <2>2, <2>3 DEF FileInv
<1>10. CASE config_check
  <2>1. AllRead(settings, line - 1)'
    BY <1>10 DEF config_check, AllRead
  <2>2. TextLen' = TextLen
    BY <1>10 DEF config_check, TextLen
  <2> QED
    BY <1>1, <1>10, <2>1, <2>2 DEF config_check, FileInv
<1>11. CASE UpdateFromConfig
  <2>1. ~starved' => AllRead(used, TextLen)'
    BY <1>11 DEF UpdateFromConfig, FileInv, AllRead, TextLen, IsLast
  <2> QED
    BY <1>11, <2>1 DEF UpdateFromConfig, FileInv
<1>12. ASSUME NEW f \in Files, HostEdit(f) PROVE FileInv'
  <2>1. host' # Idle
    BY <1>12 DEF HostEdit, Idle
  <2> QED
    BY <1>12, <2>1 DEF HostEdit, FileInv, progVars
<1>13. ASSUME NEW part \in Parts, HostWrite(part) PROVE FileInv'
  <2>1. pc' = "sleep" /\ part \in host.todo /\ m_config_timestamp' = m_config_timestamp
    BY <1>13 DEF HostWrite, progVars
  <2>2. host # Idle
    BY <2>1 DEF Idle
  <2>3. ASSUME host' = Idle PROVE dir'.stamp # m_config_timestamp'
    <3>1. host.todo = {part}
      <4> SUFFICES ASSUME host.todo # {part} PROVE FALSE
        OBVIOUS
      <4>1. host' = [host EXCEPT !.todo = host.todo \ {part}]
        BY <1>13 DEF HostWrite
      <4>2. host'.todo = host.todo \ {part}
        BY <4>1 DEF TypeOK
      <4> QED
        BY <2>1, <2>3, <4>2 DEF Idle
    <3>2. part = "entry"
      BY <2>2, <3>1 DEF HostInv
    <3>3. dir'.stamp = clock
      BY <1>13, <2>2, <3>2 DEF HostWrite, HostInv
    <3> QED
      BY <2>1, <2>2, <3>3 DEF HostInv, TypeOK
  <2> QED
    BY <2>1, <2>3 DEF FileInv
<1>14. CASE HostDelete
  <2>1. TextLen' = 0 /\ pc' = "sleep"
    <3>1. Len(data') \in Nat /\ dir'.size = 0
      BY <1>1, <1>14 DEF HostDelete, NoFile
    <3> QED
      BY <1>14, <3>1 DEF TextLen, Least, HostDelete, progVars
  <2>2. AllRead(used, TextLen)'
    BY <2>1 DEF AllRead
  <2> QED
    BY <2>1, <2>2 DEF FileInv
<1>15. CASE Reset
  BY <1>15 DEF Reset, FileInv
<1>16. CASE UNCHANGED vars
  BY <1>16 DEF vars, progVars, hostVars, FileInv, AllRead, TextLen, IsLast
<1> QED
  BY <1>2, <1>3, <1>4, <1>5, <1>6, <1>7, <1>8, <1>9, <1>10, <1>11, <1>12, <1>13,
     <1>14, <1>15, <1>16 DEF Next, Program, Host, Parts

\* With names that fit, fewer of them than the count can count, and an orderly
\* host, config_check never takes a new file for one it has read, unless memory
\* ran out at that very reading.
THEOREM RecordedIsRead ==
  ASSUME NamesFit, FewNames, Orderly
  PROVE  Spec => []StampMeansRead
<1>1. Init => FileInv /\ HostInv
  BY DEF Init, FileInv, HostInv, NoFile, Fixed
<1>2. TypeOK /\ UniqueNames /\ FileInv /\ HostInv /\ [Next]_vars => FileInv' /\ HostInv'
  BY FileKept, HostKept DEF ReadInv
<1>3. FileInv => StampMeansRead
  BY DEF FileInv, AllRead, StampMeansRead
<1>4. Spec => []UniqueNames
  BY NamesStayUnique
<1> QED
  BY <1>1, <1>2, <1>3, <1>4, TypeCorrect, PTL DEF Spec

------------------------------------------------------------------------------
(* The names that the program needs *)

\* A name that config_set has given an entry keeps one.
LEMMA SetKeepsNames ==
  ASSUME NamesFit, FewNames, NEW t \in Seq(Line), Unique(t), NEW l \in Line
  PROVE  /\ ~Unset(WithLine(t, l), l.name)
         /\ \A n \in Name : ~Unset(t, n) => ~Unset(WithLine(t, l), n)
<1>1. CASE Unset(t, l.name)
  <2> DEFINE a == Added(t, l)
             n == Len(t)
  <2>1. WithLine(t, l) = a
    BY <1>1 DEF WithLine, config_set, Added
  <2>2. /\ n \in Nat /\ Len(a) = n + 1
        /\ \A i \in 1 .. n : a[i] = t[i]
        /\ a[n + 1].name = l.name
    BY <1>1, Room, AppendedFacts
  <2>3. \A m : Unset(t, m) <=> \A i \in 1 .. n : t[i].name # m
    BY DEF Unset
  <2> HIDE DEF a, n
  <2> QED
    BY <2>1, <2>2, <2>3 DEF Unset
<1>2. CASE ~Unset(t, l.name)
  <2> DEFINE o == Overwritten(t, l)
  <2>1. WithLine(t, l) = o
    BY <1>2 DEF WithLine, config_set, Overwritten
  <2>2. Len(o) = Len(t) /\ \A i \in 1 .. Len(t) : o[i].name = t[i].name
    BY OverwrittenFacts
  <2> HIDE DEF o
  <2> QED
    BY <1>2, <2>1, <2>2 DEF Unset
<1> QED
  BY <1>1, <1>2

\* Each needed name has a default.
NeededHaveDefaults == Needed \subseteq {Defaults[i].name : i \in 1 .. Len(Defaults)}

NeededSet == \A m \in Needed : ~Unset(settings, m)

\* While booting, the names of the defaults that have been set, all of them once
\* the loop has ended, have entries, unless memory ran out; the program sleeps
\* with the needed ones.
DefaultsInv ==
  /\ pc = "halted" => starved
  /\ pc = "defaults" => line <= Len(Defaults) + 1
  /\ pc \in {"defaults", "load", "save", "write", "close"} /\ ~starved =>
       \A i \in 1 .. IF pc = "defaults" THEN line - 1 ELSE Len(Defaults) :
         ~Unset(settings, Defaults[i].name)
  /\ pc \in {"sleep", "fetch"} => NeededSet
  /\ pc = "update" /\ ~starved => NeededSet

LEMMA DefaultsKept ==
  ASSUME NamesFit, FewNames, NeededHaveDefaults, TypeOK, UniqueNames, DefaultsInv, [Next]_vars
  PROVE  DefaultsInv'
<1> DEFINE n == Len(Defaults)
<1>1. /\ n \in Nat /\ line \in Nat \ {0} /\ Len(data) \in Nat
      /\ settings \in Seq(Line) /\ Unique(settings)
      /\ \A i \in 1 .. n : Defaults[i] \in Line /\ Defaults[i].name \in Name
  <2>1. Defaults \in Seq(Line) /\ settings \in Seq(Line) /\ data \in Seq(Line)
    BY SettingsAssumption DEF SettingsAssumption, TypeOK
  <2>2. \A i \in 1 .. n : Defaults[i] \in Line
    BY <2>1, ElementOfSeq
  <2>3. \A l \in Line : l.name \in Name
    BY DEF Line
  <2> QED
    BY <2>1, <2>2, <2>3, LenProperties DEF TypeOK, UniqueNames, Unique
<1> USE DEF DefaultsInv
<1>2. CASE SetDefault
  <2>1. pc = "defaults" /\ pc' = "defaults" /\ line \in 1 .. n /\ line' = line + 1
    BY <1>1, <1>2 DEF SetDefault, DefaultsLeft
  <2>2. ASSUME ~starved', NEW i \in 1 .. line' - 1
        PROVE  ~Unset(settings', Defaults[i].name)
    <3>1. ~starved /\ settings' = WithLine(settings, Defaults[line])
      BY <1>2, <2>2, SetOutcome DEF SetDefault, TypeOK
    <3>2. \A k \in 1 .. line - 1 : ~Unset(settings', Defaults[k].name)
      BY <1>1, <2>1, <3>1, SetKeepsNames
    <3>3. ~Unset(settings', Defaults[line].name)
      BY <1>1, <2>1, <3>1, SetKeepsNames
    <3>4. i \in 1 .. line - 1 \/ i = line
      BY <1>1, <2>1
    <3> QED
      BY <3>2, <3>3, <3>4
  <2> QED
    BY <1>1, <2>1, <2>2
<1>3. CASE TakeTimestamp
  <2>1. /\ pc = "defaults" /\ pc' = "load" /\ line > n
        /\ settings' = settings /\ starved' = starved
    BY <1>1, <1>3 DEF TakeTimestamp, DefaultsLeft
  <2>2. line - 1 = n
    BY <1>1, <2>1
  <2>3. ~starved => \A i \in 1 .. n : ~Unset(settings', Defaults[i].name)
    BY <2>1, <2>2
  <2> QED
    BY <2>1, <2>3
<1>4. CASE FetchLine
  <2>1. line \in 1 .. Len(data)
    BY <1>1, <1>4 DEF FetchLine, TextLen, Least, TypeOK
  <2>2. data[line] \in Line
    BY <2>1, ElementOfSeq DEF TypeOK
  <2>3. pc' = pc /\ pc \in {"load", "fetch"} /\ (starved => starved')
    BY <1>4, SetOutcome DEF FetchLine, TypeOK
  <2>4. \A m \in Name : ~Unset(settings, m) => ~Unset(settings', m)
    <3>1. \A m \in Name : ~Unset(settings, m) => ~Unset(WithLine(settings, data[line]), m)
      BY <1>1, <2>2, SetKeepsNames
    <3>2. settings' = WithLine(settings, data[line]) \/ settings' = settings
      BY <1>4, SetOutcome DEF FetchLine, TypeOK
    <3> QED
      BY <3>1, <3>2
  <2>5. Needed \subseteq Name
    BY SettingsAssumption DEF SettingsAssumption
  <2>6. NeededSet => NeededSet'
    BY <2>4, <2>5 DEF NeededSet
  <2> QED
    BY <1>1, <2>3, <2>4, <2>6
<1>5. CASE UpdateFromConfig
  <2>1. /\ UNCHANGED <<settings, starved>> /\ pc = "update"
        /\ pc' = IF NeededSet THEN "sleep" ELSE "halted"
    BY <1>5 DEF UpdateFromConfig, NeededSet
  <2>2. NeededSet' <=> NeededSet
    BY <2>1 DEF NeededSet
  <2> QED
    BY <2>1, <2>2 DEF TypeOK
<1>6. CASE Reset
  BY <1>1, <1>6 DEF Reset
<1>7. CASE SaveFails \/ WriteEntry
  <2>1. pc \in {"save", "close"} /\ pc' = "update" /\ UNCHANGED <<settings, starved>>
    BY <1>7 DEF SaveFails, WriteEntry
  <2>2. ~starved => NeededSet
    BY <2>1 DEF NeededSet, NeededHaveDefaults
  <2> QED
    BY <2>1, <2>2 DEF NeededSet
<1>8. CASE EndFetch \/ OpenToSave \/ WriteData \/ config_check
  BY <1>8 DEF EndFetch, OpenToSave, WriteData, config_check, NeededSet
<1>9. CASE FetchFails
  BY <1>9 DEF FetchFails, NeededSet
<1>10. CASE Host \/ UNCHANGED vars
  <2>1. UNCHANGED <<pc, line, settings, starved>>
    BY <1>10 DEF Host, HostEdit, HostWrite, HostDelete, progVars, vars
  <2> QED
    BY <2>1 DEF NeededSet
<1> QED
  BY <1>2, <1>3, <1>4, <1>5, <1>6, <1>7, <1>8, <1>9, <1>10 DEF Next, Program

\* With names that fit, fewer of them than the count can count, and a default
\* for each that is needed, update_from_config always finds what it makes a
\* std::string of, if there was memory for it: no file, however it was cut, takes
\* an entry away, and neither does memory that runs out later.
THEOREM NeededAreSet ==
  ASSUME NamesFit, FewNames, NeededHaveDefaults
  PROVE  Spec => []NeverHalted
<1>1. Init => DefaultsInv
  BY SettingsAssumption, LenProperties DEF Init, DefaultsInv, SettingsAssumption
<1>2. TypeOK /\ UniqueNames /\ DefaultsInv /\ [Next]_vars => DefaultsInv'
  BY DefaultsKept
<1>3. DefaultsInv => NeverHalted
  BY DEF DefaultsInv, NeverHalted
<1>4. Spec => []UniqueNames
  BY NamesStayUnique
<1> QED
  BY <1>1, <1>2, <1>3, <1>4, TypeCorrect, PTL DEF Spec

------------------------------------------------------------------------------
(* What the user wrote stays *)

\* The last line of each name in the user's file is the last of its name in
\* the first n lines of t.
Keeps(t, n) ==
  \A i \in 1 .. Len(user) : IsLast(user, Len(user), i) =>
    \E j \in 1 .. n : t[j] = user[i] /\ IsLast(t, n, j)

\* What has been written of an edit in progress.  The program may be reading
\* the file meanwhile, but does not write it: it has last done so before it
\* first slept.
EditInv ==
  host # Idle =>
    /\ pc \in {"sleep", "fetch", "update", "halted"}
    /\ host.todo # {}
    /\ "first" \in host.todo => "rest" \in host.todo
    /\ "rest" \notin host.todo => data = host.file
    /\ "entry" \notin host.todo => dir.size = Len(host.file)

\* How far the boot has come with the file, if there was memory for it.
BootInv ==
  /\ pc = "load" => line <= TextLen + 1
  /\ pc = "load" /\ ~starved => AllRead(settings, line - 1)
  /\ pc = "save" /\ ~starved => AllRead(settings, TextLen)
  /\ pc = "close" => data = settings

\* Where the user's lines are: in the file, and while it is being written in the
\* table.
WhereInv ==
  /\ pc \in {"write", "close"} /\ ~spoiled => Keeps(settings, Len(settings))
  /\ pc \notin {"write", "close"} /\ host = Idle /\ ~spoiled => Keeps(data, TextLen)

LEMMA EditKept ==
  ASSUME TypeOK, EditInv, [Next]_vars
  PROVE  EditInv'
<1> USE DEF EditInv
<1>1. CASE Program
  <2>1. host' = host
    BY <1>1 DEF Program, SetDefault, TakeTimestamp, FetchLine, EndFetch, FetchFails, OpenToSave,
       SaveFails, WriteData, WriteEntry, config_check, UpdateFromConfig, hostVars
  <2>2. CASE host = Idle
    BY <2>1, <2>2
  <2>3. ASSUME host # Idle
        PROVE  UNCHANGED <<dir, data>> /\ pc' \in {"sleep", "fetch", "update", "halted"}
    BY <1>1, <2>3 DEF Program, SetDefault, TakeTimestamp, FetchLine, EndFetch, FetchFails,
       OpenToSave, SaveFails, WriteData, WriteEntry, config_check, UpdateFromConfig
  <2> QED
    BY <2>1, <2>2, <2>3
<1>2. ASSUME NEW f \in Files, HostEdit(f) PROVE EditInv'
  BY <1>2 DEF HostEdit, progVars
<1>3. ASSUME NEW part \in Parts, HostWrite(part) PROVE EditInv'
  <2> SUFFICES ASSUME host' # Idle PROVE EditInv'
    OBVIOUS
  <2>1. pc' = "sleep" /\ part \in host.todo /\ host # Idle
    BY <1>3 DEF HostWrite, progVars, Idle
  <2>2. host.todo # {part} /\ host' = [host EXCEPT !.todo = host.todo \ {part}]
    BY <1>3 DEF HostWrite
  <2>3. host'.todo = host.todo \ {part} /\ host'.file = host.file
    BY <2>2 DEF TypeOK
  <2>4. CASE part = "entry"
    <3>1. dir'.size = Len(host.file) /\ data' = data
      BY <1>3, <2>4 DEF HostWrite
    <3> QED
      BY <2>1, <2>2, <2>3, <2>4, <3>1
  <2>5. CASE part # "entry"
    <3>1. dir' = dir /\ (part = "rest" => data' = host.file /\ "first" \notin host.todo)
      BY <1>3, <2>5 DEF HostWrite
    <3>2. part \in {"first", "rest"}
      BY <2>5 DEF Parts
    <3> QED
      BY <2>1, <2>2, <2>3, <3>1, <3>2
  <2> QED
    BY <2>4, <2>5
<1>4. CASE HostDelete \/ Reset
  BY <1>4 DEF HostDelete, Reset
<1>5. CASE UNCHANGED vars
  BY <1>5 DEF vars, progVars, hostVars
<1> QED
  BY <1>1, <1>2, <1>3, <1>4, <1>5 DEF Next, Host, Parts

LEMMA BootKept ==
  ASSUME NamesFit, FewNames, TypeOK, UniqueNames, EditInv, BootInv, [Next]_vars
  PROVE  BootInv'
<1> USE DEF BootInv
<1>1. TextLen \in Nat
  BY LenProperties DEF TypeOK, TextLen, Least
<1>2. CASE FetchLine
  <2>1. pc' = pc /\ pc \in {"load", "fetch"}
    BY <1>2 DEF FetchLine
  <2>2. CASE pc = "load"
    BY <1>2, <2>1, <2>2, LineRead
  <2> QED
    BY <2>1, <2>2
<1>3. CASE TakeTimestamp
  <2>1. AllRead(settings, line - 1)' /\ TextLen' = TextLen
    BY <1>3 DEF TakeTimestamp, AllRead, TextLen
  <2> QED
    BY <1>1, <1>3, <2>1 DEF TakeTimestamp
<1>4. CASE EndFetch
  <2>1. pc = "load" /\ ~starved => AllRead(settings, TextLen)
    <3>1. pc = "load" => line = TextLen + 1
      BY <1>1, <1>4 DEF EndFetch, TypeOK
    <3> QED
      BY <1>1, <3>1
  <2>2. /\ UNCHANGED <<settings, data, dir, starved>>
        /\ pc' = IF pc = "load" THEN "save" ELSE "update"
    BY <1>4 DEF EndFetch
  <2> QED
    BY <2>1, <2>2 DEF AllRead, TextLen, IsLast
<1>5. CASE WriteData
  BY <1>5 DEF WriteData
<1>6. CASE SetDefault \/ OpenToSave \/ SaveFails \/ WriteEntry \/ config_check
           \/ UpdateFromConfig \/ FetchFails
  BY <1>6 DEF SetDefault, FetchFails, OpenToSave, SaveFails, WriteEntry, config_check, UpdateFromConfig
<1>7. CASE Host
  <2>1. pc' = "sleep"
    BY <1>7 DEF Host, HostEdit, HostWrite, HostDelete, progVars
  <2> QED
    BY <2>1
<1>8. CASE Reset
  BY <1>8 DEF Reset
<1>9. CASE UNCHANGED vars
  BY <1>9 DEF vars, progVars, hostVars, AllRead, TextLen, IsLast
<1> QED
  BY <1>2, <1>3, <1>4, <1>5, <1>6, <1>7, <1>8, <1>9 DEF Next, Program

\* What all of the file's lines have been read into keeps what the file keeps.
LEMMA ReadKeeps ==
  ASSUME TypeOK, UniqueNames, AllRead(settings, TextLen), Keeps(data, TextLen)
  PROVE  Keeps(settings, Len(settings))
<1>1. /\ TextLen \in Nat /\ TextLen <= Len(data)
      /\ settings \in Seq(Line) /\ Len(settings) \in Nat /\ Unique(settings)
  BY LenProperties DEF TypeOK, TextLen, Least, UniqueNames, Unique
<1> SUFFICES ASSUME NEW i \in 1 .. Len(user), IsLast(user, Len(user), i)
             PROVE  \E k \in 1 .. Len(settings) :
                      settings[k] = user[i] /\ IsLast(settings, Len(settings), k)
  BY DEF Keeps
<1>2. PICK j \in 1 .. TextLen : data[j] = user[i] /\ IsLast(data, TextLen, j)
  BY DEF Keeps
<1>3. PICK k \in 1 .. Len(settings) :
        settings[k].name = data[j].name /\ settings[k].value = data[j].value
  BY <1>2 DEF AllRead, Holds, IsEntry
<1>4. settings[k] \in Line /\ data[j] \in Line
  <2>1. j \in 1 .. Len(data) /\ data \in Seq(Line)
    BY <1>1 DEF TypeOK
  <2> QED
    BY <1>1, <2>1, ElementOfSeq
<1>5. settings[k] = data[j]
  BY <1>3, <1>4 DEF Line
<1>6. IsLast(settings, Len(settings), k)
  BY <1>1 DEF IsLast, Unique
<1> QED
  BY <1>2, <1>5, <1>6

LEMMA WhereKept ==
  ASSUME ~CutSave, TypeOK, UniqueNames, EditInv, BootInv, WhereInv, [Next]_vars
  PROVE  WhereInv'
<1> USE DEF WhereInv
<1>1. /\ TextLen \in Nat /\ TextLen <= Len(data) /\ Len(data) \in Nat
      /\ settings \in Seq(Line) /\ Len(settings) \in Nat
  BY LenProperties DEF TypeOK, TextLen, Least
<1>2. ASSUME UNCHANGED <<dir, data, host, user, spoiled>>,
             pc \notin {"write", "close"}, pc' \notin {"write", "close"}
      PROVE  WhereInv'
  BY <1>2 DEF Keeps, TextLen, IsLast
<1>3. CASE SetDefault \/ TakeTimestamp \/ FetchLine \/ EndFetch \/ SaveFails
           \/ config_check \/ UpdateFromConfig \/ FetchFails
  BY <1>2, <1>3 DEF FetchFails, SetDefault, TakeTimestamp, FetchLine, EndFetch, SaveFails,
     config_check, UpdateFromConfig, hostVars
<1>4. CASE OpenToSave
  <2>1. pc = "save" /\ host = Idle
    BY <1>4 DEF OpenToSave, EditInv
  <2>2. ~spoiled /\ ~starved => Keeps(settings, Len(settings))
    BY <2>1, ReadKeeps DEF BootInv
  <2>3. Keeps(settings, Len(settings)) => Keeps(settings, Len(settings))'
    BY <1>4 DEF OpenToSave, Keeps, IsLast
  <2>4. ~spoiled' => ~spoiled /\ ~starved
    BY <1>4 DEF OpenToSave
  <2>5. ~spoiled' => Keeps(settings, Len(settings))'
    BY <2>2, <2>3, <2>4
  <2> QED
    BY <1>4, <2>5 DEF OpenToSave
<1>5. CASE WriteData
  <2>1. ~spoiled' => Keeps(settings, Len(settings))'
    BY <1>5 DEF WriteData, hostVars, Keeps, IsLast
  <2> QED
    BY <1>5, <2>1 DEF WriteData
<1>6. CASE WriteEntry
  <2>1. data = settings /\ UNCHANGED <<data, settings, user, spoiled>> /\ pc' = "update"
    BY <1>6 DEF WriteEntry, BootInv, hostVars
  <2>2. TextLen' = Len(settings)
    BY <1>1, <1>6, <2>1 DEF WriteEntry, TextLen, Least
  <2>3. ~spoiled => Keeps(settings, Len(settings))
    BY <1>6 DEF WriteEntry
  <2>4. ~spoiled' => Keeps(data, TextLen)'
    BY <2>1, <2>2, <2>3 DEF Keeps
  <2> QED
    BY <2>1, <2>4
<1>7. ASSUME NEW f \in Files, HostEdit(f) PROVE WhereInv'
  <2>1. host' # Idle /\ pc' = "sleep"
    BY <1>7 DEF HostEdit, Idle, progVars
  <2> QED
    BY <2>1
<1>8. ASSUME NEW part \in Parts, HostWrite(part) PROVE WhereInv'
  <2>1. pc' = "sleep" /\ part \in host.todo /\ host # Idle
    BY <1>8 DEF HostWrite, progVars, Idle
  <2>2. ASSUME host' = Idle PROVE Keeps(data, TextLen)'
    <3>1. host.todo = {part}
      <4> SUFFICES ASSUME host.todo # {part} PROVE FALSE
        OBVIOUS
      <4>1. host'.todo = host.todo \ {part}
        BY <1>8 DEF HostWrite, TypeOK
      <4> QED
        BY <2>1, <2>2, <4>1 DEF Idle
    <3>2. user' = host.file /\ part # "first"
      BY <1>8, <2>1, <3>1 DEF HostWrite, EditInv
    <3>3. data' = host.file /\ dir'.size = Len(host.file)
      BY <1>8, <2>1, <3>1, <3>2 DEF HostWrite, EditInv, Parts
    <3>4. Len(host.file) \in Nat
      BY LenProperties DEF TypeOK
    <3>5. TextLen' = Len(user')
      BY <3>2, <3>3, <3>4 DEF TextLen, Least
    <3> QED
      BY <3>2, <3>3, <3>5 DEF Keeps
  <2> QED
    BY <2>1, <2>2
<1>9. CASE HostDelete
  <2>1. user' = <<>> /\ pc' = "sleep"
    BY <1>9 DEF HostDelete, progVars
  <2>2. Len(user') = 0
    BY <2>1, EmptySeq
  <2> QED
    BY <2>1, <2>2 DEF Keeps
<1>10. CASE Reset
  <2>1. pc \notin {"write", "close"} /\ pc' = "defaults" /\ UNCHANGED <<dir, data>>
    BY <1>10 DEF Reset
  <2>2. CASE host = Idle
    <3>1. (~spoiled' => Keeps(data, TextLen)) /\ user' = user
      BY <1>10, <2>1, <2>2 DEF Reset
    <3>2. TextLen' = TextLen /\ data' = data
      BY <2>1 DEF TextLen
    <3>3. ~spoiled' => Keeps(data, TextLen)'
      BY <3>1, <3>2 DEF Keeps, IsLast
    <3> QED
      BY <2>1, <3>3
  <2>3. CASE host # Idle
    <3>1. user' = SubSeq(data, 1, TextLen)
      BY <1>10, <2>3 DEF Reset
    <3>2. \A i \in 1 .. TextLen : data[i] \in Line
      BY <1>1, ElementOfSeq DEF TypeOK
    <3>3. Len(user') = TextLen /\ \A i \in 1 .. TextLen : user'[i] = data[i]
      BY <1>1, <3>1, <3>2, SubSeqProperties
    <3>4. TextLen' = TextLen /\ data' = data
      BY <2>1 DEF TextLen
    <3>5. ASSUME NEW i \in 1 .. TextLen, IsLast(user', TextLen, i)
          PROVE  IsLast(data, TextLen, i)
      BY <1>1, <3>3, <3>5 DEF IsLast
    <3>6. Keeps(data, TextLen)'
      BY <3>3, <3>4, <3>5 DEF Keeps
    <3> QED
      BY <2>1, <3>6
  <2> QED
    BY <2>2, <2>3
<1>11. CASE UNCHANGED vars
  BY <1>11 DEF vars, progVars, hostVars, Keeps, TextLen, IsLast
<1> QED
  BY <1>3, <1>4, <1>5, <1>6, <1>7, <1>8, <1>9, <1>10, <1>11
     DEF Next, Program, Host, Parts

\* With names that fit, fewer of them than the count can count, and power that
\* does not fail while the file is written, what the user wrote into the file
\* last is still there when the program sleeps: through reloads, resets, edits
\* that a reset cuts and the boots that write the file anew, unless one of these
\* had no memory to read it first.  The host need not be orderly.
THEOREM EditsAreKept ==
  ASSUME NamesFit, FewNames, ~CutSave
  PROVE  Spec => []UserKept
<1>1. Init => EditInv /\ BootInv /\ WhereInv
  BY EmptySeq DEF Init, EditInv, BootInv, WhereInv, Keeps
<1>2. TypeOK /\ UniqueNames /\ EditInv /\ BootInv /\ WhereInv /\ [Next]_vars
        => EditInv' /\ BootInv' /\ WhereInv'
  BY EditKept, BootKept, WhereKept
<1>3. WhereInv => UserKept
  BY DEF WhereInv, Keeps, UserKept
<1>4. Spec => []UniqueNames
  BY NamesStayUnique
<1> QED
  BY <1>1, <1>2, <1>3, <1>4, TypeCorrect, PTL DEF Spec

------------------------------------------------------------------------------
(* Functions by recursion over the numbers *)

LEMMA LeastOf ==
  ASSUME NEW S \in SUBSET Nat, S # {}
  PROVE  \E m \in S : \A n \in S : m <= n
<1> DEFINE Less == {ss \in Nat \X Nat : ss[1] < ss[2]}
<1>1. Less = OpToRel(<, Nat)
  BY Zenon DEF OpToRel
<1>2. IsWellFoundedOn(Less, Nat)
  BY <1>1, NatLessThanWellFounded, Zenon
<1>3. \E m \in S : \A n \in S : ~(<<n, m>> \in Less)
  <2> HIDE DEF Less
  <2>1. S \subseteq Nat /\ S # {}
    OBVIOUS
  <2> QED
    BY <1>2, <2>1, WFMin, Zenon
<1>4. ASSUME NEW m \in S, NEW n \in S, ~(<<n, m>> \in Less) PROVE m <= n
  BY <1>4
<1> HIDE DEF Less
<1> QED
  BY <1>3, <1>4

\* The values up to a number n of a function that begins with first.
UpTo(S, first, turn, n) ==
  {f \in [0 .. n -> S] : f[0] = first /\ \A m \in 1 .. n : f[m] = turn[m][f[m - 1]]}

LEMMA UpToUnique ==
  ASSUME NEW S, NEW first, NEW turn, NEW n \in Nat, NEW k \in Nat, n <= k,
         NEW f \in UpTo(S, first, turn, n), NEW g \in UpTo(S, first, turn, k)
  PROVE  f[n] = g[n]
<1> DEFINE Off == {m \in 0 .. n : f[m] # g[m]}
<1>1. Off = {}
  <2>1. SUFFICES ASSUME Off # {} PROVE FALSE
    OBVIOUS
  <2>2. PICK m \in Off : \A l \in Off : m <= l
    <3>1. Off \in SUBSET Nat
      OBVIOUS
    <3> QED
      BY <2>1, <3>1, LeastOf
  <2>3. m # 0
    BY <2>2 DEF UpTo
  <2>4. m - 1 \in 0 .. n /\ m \in 1 .. n /\ m \in 1 .. k
    BY <2>2, <2>3
  <2>5. f[m - 1] = g[m - 1]
    BY <2>2, <2>4
  <2>6. f[m] = turn[m][f[m - 1]] /\ g[m] = turn[m][g[m - 1]]
    BY <2>4 DEF UpTo
  <2> QED
    BY <2>2, <2>5, <2>6
<1> QED
  BY <1>1

LEMMA UpToExists ==
  ASSUME NEW S, NEW first \in S, NEW turn \in [Nat -> [S -> S]], NEW n \in Nat
  PROVE  UpTo(S, first, turn, n) # {}
<1> DEFINE Bad == {k \in Nat : UpTo(S, first, turn, k) = {}}
<1>1. SUFFICES ASSUME Bad # {} PROVE FALSE
  OBVIOUS
<1>2. PICK k \in Bad : \A l \in Bad : k <= l
  <2>1. Bad \in SUBSET Nat
    OBVIOUS
  <2> QED
    BY <1>1, <2>1, LeastOf
<1>3. CASE k = 0
  <2>1. [m \in 0 .. 0 |-> first] \in UpTo(S, first, turn, 0)
    BY DEF UpTo
  <2> QED
    BY <1>2, <1>3, <2>1
<1>4. CASE k # 0
  <2>1. k - 1 \in Nat /\ k - 1 \notin Bad
    BY <1>2, <1>4
  <2>2. PICK f \in UpTo(S, first, turn, k - 1) : TRUE
    BY <2>1
  <2>3. /\ f \in [0 .. k - 1 -> S] /\ f[0] = first
        /\ \A m \in 1 .. k - 1 : f[m] = turn[m][f[m - 1]]
    BY <2>2 DEF UpTo
  <2> DEFINE x == turn[k][f[k - 1]]
             g == [m \in 0 .. k |-> IF m = k THEN x ELSE f[m]]
  <2>4. x \in S
    <3>1. f[k - 1] \in S /\ k \in Nat
      BY <1>2, <2>1, <2>3
    <3> QED
      BY <3>1
  <2>5. g \in [0 .. k -> S] /\ g[0] = first
    BY <1>2, <1>4, <2>3, <2>4
  <2>6. ASSUME NEW m \in 1 .. k PROVE g[m] = turn[m][g[m - 1]]
    <3>1. g[m - 1] = f[m - 1]
      BY <1>2
    <3>2. CASE m = k
      BY <1>2, <3>1, <3>2
    <3>3. CASE m # k
      <4>1. m \in 1 .. k - 1 /\ g[m] = f[m]
        BY <1>2, <3>3
      <4> QED
        BY <2>3, <3>1, <4>1
    <3> QED
      BY <3>2, <3>3
  <2> HIDE DEF g
  <2>7. g \in UpTo(S, first, turn, k)
    BY <2>5, <2>6 DEF UpTo
  <2> QED
    BY <1>2, <2>7
<1> QED
  BY <1>3, <1>4

LEMMA Recursion ==
  ASSUME NEW S, NEW first \in S, NEW turn \in [Nat -> [S -> S]]
  PROVE  \E f \in [Nat -> S] :
           f[0] = first /\ \A n \in Nat \ {0} : f[n] = turn[n][f[n - 1]]
<1> DEFINE upto(n) == CHOOSE g : g \in UpTo(S, first, turn, n)
           f == [n \in Nat |-> upto(n)[n]]
<1>1. ASSUME NEW n \in Nat PROVE upto(n) \in UpTo(S, first, turn, n)
  BY UpToExists
<1>2. ASSUME NEW n \in Nat PROVE f[n] \in S
  <2>1. upto(n) \in [0 .. n -> S]
    BY <1>1 DEF UpTo
  <2> QED
    BY <2>1
<1>3. f[0] = first
  <2>1. upto(0)[0] = first
    BY <1>1 DEF UpTo
  <2> QED
    BY <2>1
<1>4. ASSUME NEW n \in Nat \ {0} PROVE f[n] = turn[n][f[n - 1]]
  <2> DEFINE g == upto(n)
             h == upto(n - 1)
  <2>1. g \in UpTo(S, first, turn, n) /\ h \in UpTo(S, first, turn, n - 1) /\ n - 1 \in Nat
    BY <1>1
  <2>2. f[n] = g[n] /\ f[n - 1] = h[n - 1]
    OBVIOUS
  <2> HIDE DEF g, h
  <2>3. g[n] = turn[n][g[n - 1]]
    BY <2>1 DEF UpTo
  <2>4. h[n - 1] = g[n - 1]
    <3> DEFINE k == n - 1
    <3>1. k \in Nat /\ k <= n /\ h \in UpTo(S, first, turn, k)
      BY <2>1
    <3> HIDE DEF k
    <3>2. h[k] = g[k]
      BY <2>1, <3>1, UpToUnique
    <3> QED
      BY <3>2 DEF k
  <2> QED
    BY <2>2, <2>3, <2>4
<1> QED
  BY <1>2, <1>3, <1>4


------------------------------------------------------------------------------
(* The lines of config.txt, character by character *)

LEMMA MinIs ==
  ASSUME NEW S \in SUBSET Nat, S # {}
  PROVE  Min(S) \in S /\ \A n \in S : Min(S) <= n
<1>1. \E m \in S : \A n \in S : m <= n
  BY LeastOf
<1> QED
  BY <1>1 DEF Min

LEMMA MaxIs ==
  ASSUME NEW S, NEW k \in Nat, S \subseteq 1 .. k, S # {}
  PROVE  Max(S) \in S /\ \A n \in S : n <= Max(S)
<1> DEFINE Above == {m \in 0 .. k : \A n \in S : n <= m}
<1>1. PICK m \in Above : \A l \in Above : m <= l
  <2>1. k \in Above
    OBVIOUS
  <2>2. Above \in SUBSET Nat
    OBVIOUS
  <2> HIDE DEF Above
  <2> QED
    BY <2>1, <2>2, LeastOf
<1>2. m \in S
  <2>1. SUFFICES ASSUME m \notin S PROVE FALSE
    OBVIOUS
  <2>2. PICK n \in S : TRUE
    OBVIOUS
  <2>3. m \in 1 .. k
    BY <1>1, <2>2
  <2>4. m - 1 \in Above
    BY <1>1, <2>1, <2>3
  <2> QED
    BY <1>1, <2>3, <2>4
<1>3. \E x \in S : \A y \in S : x >= y
  BY <1>1, <1>2
<1>4. Max(S) \in S /\ \A y \in S : Max(S) >= y
  BY <1>3 DEF Max
<1> QED
  BY <1>4

LEMMA PartOf ==
  ASSUME NEW s \in Seq(Char), NEW a \in Nat \ {0}, NEW b \in Nat, b <= Len(s), a <= b + 1
  PROVE  /\ SubSeq(s, a, b) \in Seq(Char) /\ Len(SubSeq(s, a, b)) = b - a + 1
         /\ \A i \in 1 .. b - a + 1 : SubSeq(s, a, b)[i] = s[a + i - 1]
<1>1. Len(s) \in Nat /\ \A i \in a .. b : s[i] \in Char
  BY LenProperties, ElementOfSeq
<1> QED
  BY <1>1, SubSeqProperties

Solid(s) == {i \in DOMAIN s : ~isspace(s[i])}

LEMMA TrimmedNone ==
  ASSUME NEW s, Solid(s) = {}
  PROVE  Trimmed(s) = <<>>
BY DEF Solid, Trimmed

LEMMA TrimmedIs ==
  ASSUME NEW s \in Seq(Char), NEW a \in Solid(s), NEW b \in Solid(s),
         \A i \in Solid(s) : a <= i /\ i <= b
  PROVE  Trimmed(s) = SubSeq(s, a, b) /\ 1 <= a /\ a <= b /\ b <= Len(s) /\ a \in Nat /\ b \in Nat
<1>1. Len(s) \in Nat /\ Solid(s) \subseteq 1 .. Len(s)
  BY LenProperties DEF Solid
<1>2. Min(Solid(s)) \in Solid(s) /\ \A n \in Solid(s) : Min(Solid(s)) <= n
  <2>1. Solid(s) \in SUBSET Nat
    BY <1>1
  <2> QED
    BY <2>1, MinIs
<1>3. Max(Solid(s)) \in Solid(s) /\ \A n \in Solid(s) : n <= Max(Solid(s))
  BY <1>1, MaxIs
<1>4. Min(Solid(s)) = a /\ Max(Solid(s)) = b
  BY <1>1, <1>2, <1>3
<1>5. Trimmed(s) = SubSeq(s, Min(Solid(s)), Max(Solid(s)))
  BY DEF Trimmed, Solid
<1> QED
  BY <1>1, <1>4, <1>5

\* What is left when spaces are trimmed: nothing, or a part that begins and ends solid.
IsPart(t, s, a, b) ==
  /\ a \in Solid(s) /\ b \in Solid(s) /\ a \in 1 .. Len(s) /\ b \in a .. Len(s)
  /\ \A i \in Solid(s) : a <= i /\ i <= b
  /\ t \in Seq(Char) /\ Len(t) = b - a + 1
  /\ \A i \in 1 .. Len(t) : t[i] = s[a + i - 1]

LEMMA TrimmedHas ==
  ASSUME NEW s \in Seq(Char)
  PROVE  \/ Trimmed(s) = <<>> /\ Solid(s) = {}
         \/ Trimmed(s) # <<>> /\ \E a, b : IsPart(Trimmed(s), s, a, b)
<1>1. CASE Solid(s) = {}
  BY <1>1, TrimmedNone
<1>2. CASE Solid(s) # {}
  <2> DEFINE a == Min(Solid(s))
             b == Max(Solid(s))
  <2>1. Len(s) \in Nat /\ Solid(s) \subseteq 1 .. Len(s)
    BY LenProperties DEF Solid
  <2>2. a \in Solid(s) /\ b \in Solid(s) /\ \A i \in Solid(s) : a <= i /\ i <= b
    <3>1. Solid(s) \in SUBSET Nat
      BY <2>1
    <3>2. a \in Solid(s) /\ \A i \in Solid(s) : a <= i
      BY <1>2, <3>1, MinIs
    <3>3. b \in Solid(s) /\ \A i \in Solid(s) : i <= b
      BY <1>2, <2>1, MaxIs
    <3> QED
      BY <3>2, <3>3
  <2> HIDE DEF a, b
  <2>3. /\ Trimmed(s) = SubSeq(s, a, b) /\ 1 <= a /\ a <= b /\ b <= Len(s)
        /\ a \in Nat /\ b \in Nat
    BY <2>2, TrimmedIs
  <2>4. /\ Trimmed(s) \in Seq(Char) /\ Len(Trimmed(s)) = b - a + 1
        /\ \A i \in 1 .. b - a + 1 : Trimmed(s)[i] = s[a + i - 1]
    BY <2>3, PartOf
  <2>5. Trimmed(s) # <<>>
    BY <2>3, <2>4, EmptySeq
  <2>6. IsPart(Trimmed(s), s, a, b)
    BY <2>1, <2>2, <2>3, <2>4 DEF IsPart
  <2> QED
    BY <2>5, <2>6
<1> QED
  BY <1>1, <1>2

\* A text with spaces around another is trimmed to the same.
LEMMA TrimmedAround ==
  ASSUME NEW s \in Seq(Char), NEW v \in Seq(Char), NEW k \in Nat, k + Len(v) <= Len(s),
         \A i \in 1 .. Len(v) : s[k + i] = v[i],
         \A i \in 1 .. Len(s) : i <= k \/ i > k + Len(v) => isspace(s[i])
  PROVE  Trimmed(s) = Trimmed(v)
<1>1. Len(s) \in Nat /\ Len(v) \in Nat /\ DOMAIN s = 1 .. Len(s) /\ DOMAIN v = 1 .. Len(v)
  BY LenProperties
<1>2. \A i \in Solid(v) : k + i \in Solid(s) /\ i \in 1 .. Len(v)
  BY <1>1 DEF Solid
<1>3. ASSUME NEW i \in Solid(s) PROVE i - k \in Solid(v) /\ i \in 1 .. Len(s)
  <2>1. i \in 1 .. Len(s) /\ ~isspace(s[i])
    BY <1>1 DEF Solid
  <2>2. i - k \in 1 .. Len(v)
    BY <1>1, <2>1
  <2>3. s[k + (i - k)] = v[i - k] /\ k + (i - k) = i
    BY <2>1, <2>2
  <2> QED
    BY <1>1, <2>1, <2>2, <2>3 DEF Solid
<1>4. CASE Trimmed(v) = <<>> /\ Solid(v) = {}
  <2>1. Solid(s) = {}
    BY <1>3, <1>4
  <2> QED
    BY <1>4, <2>1, TrimmedNone
<1>5. CASE \E a, b : IsPart(Trimmed(v), v, a, b)
  <2>1. PICK a, b : IsPart(Trimmed(v), v, a, b)
    BY <1>5
  <2> DEFINE c == k + a
             d == k + b
  <2>2. a \in 1 .. Len(v) /\ b \in a .. Len(v) /\ a \in Solid(v) /\ b \in Solid(v)
    BY <2>1 DEF IsPart
  <2>3. c \in Solid(s) /\ d \in Solid(s)
    BY <1>2, <2>2
  <2>4. \A i \in Solid(s) : c <= i /\ i <= d
    <3>1. \A i \in Solid(v) : a <= i /\ i <= b
      BY <2>1 DEF IsPart
    <3> QED
      BY <1>1, <1>3, <2>2, <3>1
  <2>5. c \in Nat /\ d \in Nat /\ c >= 1 /\ c <= d /\ d <= Len(s) /\ d - c = b - a
    BY <1>1, <2>2
  <2>6. \A i \in 1 .. b - a + 1 : c + i - 1 = k + (a + i - 1) /\ a + i - 1 \in 1 .. Len(v)
    BY <1>1, <2>2
  <2> HIDE DEF c, d
  <2>7. Trimmed(s) = SubSeq(s, c, d)
    BY <2>3, <2>4, TrimmedIs
  <2>8. /\ SubSeq(s, c, d) \in Seq(Char) /\ Len(SubSeq(s, c, d)) = d - c + 1
        /\ \A i \in 1 .. d - c + 1 : SubSeq(s, c, d)[i] = s[c + i - 1]
    <3>1. c \in Nat \ {0} /\ c <= d + 1
      BY <2>5
    <3> QED
      BY <2>5, <3>1, PartOf
  <2>9. /\ Trimmed(v) \in Seq(Char) /\ Len(Trimmed(v)) = b - a + 1
        /\ \A i \in 1 .. b - a + 1 : Trimmed(v)[i] = v[a + i - 1]
    BY <2>1 DEF IsPart
  <2>10. \A i \in 1 .. b - a + 1 : SubSeq(s, c, d)[i] = Trimmed(v)[i]
    BY <2>5, <2>6, <2>8, <2>9
  <2> QED
    BY <2>5, <2>7, <2>8, <2>9, <2>10, SeqEqual
<1> QED
  BY <1>4, <1>5, TrimmedHas

------------------------------------------------------------------------------
(* Pieces and entries *)

LEMMA GetsNone == f_gets(<<>>) = <<>>
<1>1. Places(<<>>, "\n") \cup {Size - 1, Len(<<>>)} = {0, Size - 1}
  BY DEF Places
<1>2. Size - 1 \in Nat
  BY ConfigTextAssumption
<1>3. Min({0, Size - 1}) = 0
  <2>1. Min({0, Size - 1}) \in {0, Size - 1} /\ \A n \in {0, Size - 1} : Min({0, Size - 1}) <= n
    BY <1>2, MinIs
  <2> QED
    BY <1>2, <2>1
<1>4. SubSeq(<<>>, 1, 0) = <<>>
  BY SubSeqEmpty
<1> QED
  BY <1>1, <1>3, <1>4 DEF f_gets

\* q is the piece that text begins with.
IsPiece(q, text) ==
  /\ q \in Seq(Char) /\ Len(q) \in 1 .. Len(text) /\ Len(q) <= Size - 1
  /\ \A i \in 1 .. Len(q) : text[i] = q[i]
  /\ \A i \in 1 .. Len(q) - 1 : q[i] # "\n"

LEMMA PieceEnds ==
  ASSUME NEW text \in Seq(Char), text # <<>>
  PROVE  \E m \in 1 .. Len(text) :
           /\ f_gets(text) = SubSeq(text, 1, m)
           /\ m <= Size - 1
           /\ \A i \in 1 .. m - 1 : text[i] # "\n"
           /\ text[m] = "\n" \/ m = Size - 1 \/ m = Len(text)
<1> DEFINE places == Places(text, "\n")
           l == Len(text)
           k == Size - 1
           ends == places \cup {k, l}
           m == Min(ends)
<1>1. l \in Nat \ {0} /\ DOMAIN text = 1 .. l /\ k \in Nat \ {0}
  BY LenProperties, EmptySeq, ConfigTextAssumption
<1>2. places \subseteq 1 .. l /\ \A i \in 1 .. l : i \in places <=> text[i] = "\n"
  BY <1>1 DEF Places
<1>3. f_gets(text) = SubSeq(text, 1, m)
  BY DEF f_gets
<1> HIDE DEF places, l, k
<1>4. ends \in SUBSET Nat /\ ends # {} /\ \A n \in ends : n >= 1
  <2>1. \A n \in places : n \in Nat /\ n >= 1
    BY <1>1, <1>2
  <2> QED
    BY <1>1, <2>1
<1>5. m \in ends /\ \A n \in ends : m <= n
  <2> HIDE DEF ends
  <2> QED
    BY <1>4, MinIs
<1>6. k \in ends /\ l \in ends /\ places \subseteq ends
  OBVIOUS
<1>7. m \in places \/ m = k \/ m = l
  BY <1>5
<1> HIDE DEF m, ends
<1>8. m \in Nat /\ 1 <= m /\ m <= l /\ m <= k
  BY <1>4, <1>5, <1>6
<1>9. ASSUME NEW i \in 1 .. m - 1 PROVE text[i] # "\n"
  <2>1. i \in 1 .. l /\ ~(m <= i)
    BY <1>1, <1>8
  <2>2. i \notin places
    BY <1>5, <1>6, <2>1
  <2> QED
    BY <1>2, <2>1, <2>2
<1>10. text[m] = "\n" \/ m = k \/ m = l
  BY <1>2, <1>7
<1>11. m \in 1 .. l
  BY <1>1, <1>8
<1> QED
  BY <1>3, <1>8, <1>9, <1>10, <1>11 DEF k, l

LEMMA GetsIs ==
  ASSUME NEW text \in Seq(Char), text # <<>>
  PROVE  /\ IsPiece(f_gets(text), text)
         /\ LET n == Len(f_gets(text))
            IN f_gets(text)[n] = "\n" \/ n = Size - 1 \/ n = Len(text)
<1> DEFINE q == f_gets(text)
<1>1. PICK m \in 1 .. Len(text) :
        /\ q = SubSeq(text, 1, m)
        /\ m <= Size - 1
        /\ \A i \in 1 .. m - 1 : text[i] # "\n"
        /\ text[m] = "\n" \/ m = Size - 1 \/ m = Len(text)
  BY PieceEnds
<1>2. Len(text) \in Nat
  BY LenProperties
<1>3. q \in Seq(Char) /\ Len(q) = m /\ \A i \in 1 .. m : q[i] = text[i]
  <2>1. /\ SubSeq(text, 1, m) \in Seq(Char) /\ Len(SubSeq(text, 1, m)) = m - 1 + 1
        /\ \A i \in 1 .. m - 1 + 1 : SubSeq(text, 1, m)[i] = text[1 + i - 1]
    <3>1. 1 \in Nat \ {0} /\ m \in Nat /\ m <= Len(text) /\ 1 <= m + 1
      BY <1>2
    <3> QED
      BY <3>1, PartOf
  <2>2. /\ q \in Seq(Char) /\ Len(q) = m - 1 + 1
        /\ \A i \in 1 .. m - 1 + 1 : q[i] = text[1 + i - 1]
    BY <1>1, <2>1
  <2> HIDE DEF q
  <2> QED
    BY <2>2
<1> HIDE DEF q
<1>4. IsPiece(q, text)
  <2>1. Len(q) \in 1 .. Len(text) /\ Len(q) <= Size - 1
    BY <1>1, <1>3
  <2>2. \A i \in 1 .. Len(q) : text[i] = q[i]
    BY <1>3
  <2>3. \A i \in 1 .. Len(q) - 1 : q[i] # "\n"
    <3>1. \A i \in 1 .. m - 1 : i \in 1 .. m
      OBVIOUS
    <3> QED
      BY <1>1, <1>3, <3>1
  <2> QED
    BY <1>3, <2>1, <2>2, <2>3 DEF IsPiece
<1>5. q[Len(q)] = "\n" \/ Len(q) = Size - 1 \/ Len(q) = Len(text)
  <2>1. m \in 1 .. m
    OBVIOUS
  <2> QED
    BY <1>1, <1>3, <2>1
<1> QED
  BY <1>4, <1>5 DEF q

LEMMA GetsExact ==
  ASSUME NEW text \in Seq(Char), NEW q, IsPiece(q, text),
         q[Len(q)] = "\n" \/ Len(q) = Size - 1
  PROVE  f_gets(text) = q
<1> DEFINE p == f_gets(text)
<1>1. q \in Seq(Char) /\ Len(text) \in Nat /\ Len(q) \in 1 .. Len(text)
  BY LenProperties DEF IsPiece
<1>2. text # <<>>
  BY <1>1, EmptySeq
<1>3. IsPiece(p, text)
  BY <1>2, GetsIs
<1>4. p[Len(p)] = "\n" \/ Len(p) = Size - 1 \/ Len(p) = Len(text)
  BY <1>2, GetsIs
<1> HIDE DEF p
<1>5. /\ p \in Seq(Char) /\ Len(p) \in 1 .. Len(text) /\ Len(p) <= Size - 1
      /\ \A i \in 1 .. Len(p) : text[i] = p[i]
      /\ \A i \in 1 .. Len(p) - 1 : p[i] # "\n"
  BY <1>3 DEF IsPiece
<1>6. /\ Len(q) <= Size - 1
      /\ \A i \in 1 .. Len(q) : text[i] = q[i]
      /\ \A i \in 1 .. Len(q) - 1 : q[i] # "\n"
  BY DEF IsPiece
<1>7. Size \in Nat
  BY ConfigTextAssumption
<1>8. ~(Len(p) < Len(q))
  <2>1. SUFFICES ASSUME Len(p) < Len(q) PROVE FALSE
    OBVIOUS
  <2>2. Len(p) \in 1 .. Len(q) - 1
    BY <1>1, <1>5, <2>1
  <2>3. p[Len(p)] # "\n"
    <3>1. Len(p) \in 1 .. Len(q) /\ Len(p) \in 1 .. Len(p)
      BY <2>2, <1>1
    <3>2. p[Len(p)] = q[Len(p)]
      BY <1>5, <1>6, <3>1
    <3> QED
      BY <1>6, <2>2, <3>2
  <2> QED
    BY <1>1, <1>4, <1>5, <1>6, <1>7, <2>1, <2>3
<1>9. ~(Len(q) < Len(p))
  <2>1. SUFFICES ASSUME Len(q) < Len(p) PROVE FALSE
    OBVIOUS
  <2>2. Len(q) \in 1 .. Len(p) - 1 /\ Len(q) \in 1 .. Len(p) /\ Len(q) \in 1 .. Len(q)
    BY <1>1, <1>5, <2>1
  <2>3. q[Len(q)] # "\n"
    BY <1>5, <1>6, <2>2
  <2> QED
    BY <1>1, <1>5, <1>7, <2>1, <2>3
<1>10. Len(p) = Len(q)
  BY <1>1, <1>5, <1>8, <1>9
<1>11. p = q
  BY <1>1, <1>5, <1>6, <1>10, SeqEqual
<1> QED
  BY <1>11 DEF p

\* What config_fetch sets: no name has a divider in it, or spaces around it, and
\* nothing has the end of a line in it.
NoneOf(s, c) == \A i \in 1 .. Len(s) : s[i] # c
Entry ==
  {e \in [name : Seq(Char), value : Seq(Char)] :
     /\ NoneOf(e.name, "\n") /\ NoneOf(e.name, ":") /\ Trimmed(e.name) = e.name
     /\ NoneOf(e.value, "\n")}

LEMMA TrimmedOnce ==
  ASSUME NEW s \in Seq(Char)
  PROVE  Trimmed(s) \in Seq(Char) /\ Trimmed(Trimmed(s)) = Trimmed(s)
<1> DEFINE v == Trimmed(s)
<1>1. CASE v = <<>>
  <2>1. Solid(<<>>) = {}
    BY DEF Solid
  <2>2. <<>> \in Seq(Char)
    BY EmptySeq
  <2> QED
    BY <1>1, <2>1, <2>2, TrimmedNone
<1>2. CASE \E a, b : IsPart(v, s, a, b)
  <2>1. PICK a, b : IsPart(v, s, a, b)
    BY <1>2
  <2> HIDE DEF v
  <2>2. v \in Seq(Char) /\ Len(v) \in Nat
    BY <2>1, LenProperties DEF IsPart
  <2>3. Len(s) \in Nat /\ DOMAIN s = 1 .. Len(s)
    BY LenProperties
  <2> DEFINE k == a - 1
  <2>4. a \in 1 .. Len(s) /\ b \in a .. Len(s) /\ Len(v) = b - a + 1
    BY <2>1 DEF IsPart
  <2>5. k \in Nat /\ k + Len(v) <= Len(s)
    BY <2>3, <2>4
  <2>6. \A i \in 1 .. Len(v) : s[k + i] = v[i]
    <3>1. \A i \in 1 .. Len(v) : k + i = a + i - 1
      BY <2>4
    <3>2. \A i \in 1 .. Len(v) : v[i] = s[a + i - 1]
      BY <2>1 DEF IsPart
    <3> QED
      BY <3>1, <3>2
  <2>7. \A i \in 1 .. Len(s) : i <= k \/ i > k + Len(v) => isspace(s[i])
    <3>1. \A i \in Solid(s) : a <= i /\ i <= b
      BY <2>1 DEF IsPart
    <3>2. ASSUME NEW i \in 1 .. Len(s), ~isspace(s[i]) PROVE i \in Solid(s)
      BY <2>3, <3>2 DEF Solid
    <3> QED
      BY <2>2, <2>4, <3>1, <3>2
  <2> HIDE DEF k
  <2>8. Trimmed(s) = Trimmed(v)
    BY <2>2, <2>5, <2>6, <2>7, TrimmedAround
  <2> QED
    BY <2>2, <2>8 DEF v
<1> QED
  BY <1>1, <1>2, TrimmedHas

LEMMA TrimmedWithout ==
  ASSUME NEW s \in Seq(Char), NEW c, NoneOf(s, c)
  PROVE  NoneOf(Trimmed(s), c)
<1> DEFINE v == Trimmed(s)
<1>1. CASE v = <<>>
  BY <1>1 DEF NoneOf
<1>2. CASE \E a, b : IsPart(v, s, a, b)
  <2>1. PICK a, b : IsPart(v, s, a, b)
    BY <1>2
  <2> HIDE DEF v
  <2>2. a \in 1 .. Len(s) /\ b \in a .. Len(s) /\ Len(v) = b - a + 1
    BY <2>1 DEF IsPart
  <2>3. \A i \in 1 .. Len(v) : v[i] = s[a + i - 1]
    BY <2>1 DEF IsPart
  <2>4. Len(s) \in Nat
    BY LenProperties
  <2>5. \A i \in 1 .. Len(v) : a + i - 1 \in 1 .. Len(s)
    BY <2>2, <2>4
  <2>6. NoneOf(v, c)
    BY <2>3, <2>5 DEF NoneOf
  <2> QED
    BY <2>6 DEF v
<1> QED
  BY <1>1, <1>2, TrimmedHas

\* The end of a line, at its end, is a space that is trimmed.
LEMMA TrimmedEnd ==
  ASSUME NEW s \in Seq(Char), \A i \in 1 .. Len(s) - 1 : s[i] # "\n"
  PROVE  NoneOf(Trimmed(s), "\n")
<1> DEFINE v == Trimmed(s)
<1>1. CASE v = <<>>
  BY <1>1 DEF NoneOf
<1>2. CASE \E a, b : IsPart(v, s, a, b)
  <2>1. PICK a, b : IsPart(v, s, a, b)
    BY <1>2
  <2> HIDE DEF v
  <2>2. a \in 1 .. Len(s) /\ b \in a .. Len(s) /\ Len(v) = b - a + 1 /\ b \in Solid(s)
    BY <2>1 DEF IsPart
  <2>3. \A i \in 1 .. Len(v) : v[i] = s[a + i - 1]
    BY <2>1 DEF IsPart
  <2>4. Len(s) \in Nat
    BY LenProperties
  <2>5. s[b] # "\n"
    BY <2>2 DEF Solid, isspace
  <2>6. ASSUME NEW i \in 1 .. Len(v) PROVE v[i] # "\n"
    <3>1. CASE i = Len(v)
      <4>1. a + i - 1 = b
        BY <2>2, <3>1
      <4> QED
        BY <2>3, <2>5, <4>1
    <3>2. CASE i # Len(v)
      <4>1. a + i - 1 \in 1 .. Len(s) - 1
        BY <2>2, <2>4, <3>2
      <4> QED
        BY <2>3, <4>1
    <3> QED
      BY <3>1, <3>2
  <2>7. NoneOf(v, "\n")
    BY <2>6 DEF NoneOf
  <2> QED
    BY <2>7 DEF v
<1> QED
  BY <1>1, <1>2, TrimmedHas

LEMMA SplitEntry ==
  ASSUME NEW piece \in Seq(Char), \A i \in 1 .. Len(piece) - 1 : piece[i] # "\n",
         Places(piece, ":") # {}
  PROVE  Split(piece) \in Entry
<1> DEFINE l == Len(piece)
           d == Min(Places(piece, ":"))
           n == SubSeq(piece, 1, d - 1)
           v == SubSeq(piece, d + 1, l)
<1>1. l \in Nat /\ DOMAIN piece = 1 .. l
  BY LenProperties
<1>2. d \in Places(piece, ":") /\ \A i \in Places(piece, ":") : d <= i
  <2>1. Places(piece, ":") \in SUBSET Nat
    BY <1>1 DEF Places
  <2> QED
    BY <2>1, MinIs
<1>3. Split(piece) = [name |-> Trimmed(n), value |-> Trimmed(v)]
  BY DEF Split
<1> HIDE DEF d
<1>4. d \in 1 .. l /\ d \in Nat /\ piece[d] = ":"
  BY <1>1, <1>2 DEF Places
<1>5. ASSUME NEW i \in 1 .. d - 1 PROVE piece[i] # ":" /\ piece[i] # "\n"
  <2>1. i \in 1 .. l - 1 /\ i \in 1 .. l /\ ~(d <= i)
    BY <1>1, <1>4
  <2>2. i \notin Places(piece, ":")
    BY <1>2, <2>1
  <2> QED
    BY <1>1, <2>1, <2>2 DEF Places
<1>6. n \in Seq(Char) /\ Len(n) = d - 1 /\ \A i \in 1 .. d - 1 : n[i] = piece[i]
  <2> DEFINE c == d - 1
  <2>1. c \in Nat /\ c <= l /\ 1 <= c + 1
    BY <1>1, <1>4
  <2> HIDE DEF c
  <2>2. /\ SubSeq(piece, 1, c) \in Seq(Char) /\ Len(SubSeq(piece, 1, c)) = c - 1 + 1
        /\ \A i \in 1 .. c - 1 + 1 : SubSeq(piece, 1, c)[i] = piece[1 + i - 1]
    BY <2>1, PartOf
  <2>3. Len(SubSeq(piece, 1, c)) = c /\ \A i \in 1 .. c : SubSeq(piece, 1, c)[i] = piece[i]
    BY <2>1, <2>2
  <2> QED
    BY <2>2, <2>3 DEF c
<1>7. v \in Seq(Char) /\ Len(v) = l - d /\ \A i \in 1 .. l - d : v[i] = piece[d + i]
  <2> DEFINE c == d + 1
  <2>1. c \in Nat \ {0} /\ l <= l /\ c <= l + 1 /\ c = d + 1
    BY <1>1, <1>4
  <2> HIDE DEF c, l
  <2>2. /\ SubSeq(piece, c, l) \in Seq(Char) /\ Len(SubSeq(piece, c, l)) = l - c + 1
        /\ \A i \in 1 .. l - c + 1 : SubSeq(piece, c, l)[i] = piece[c + i - 1]
    BY <1>1, <2>1, PartOf DEF l
  <2>3. l - c + 1 = l - d /\ \A i \in 1 .. l - d : c + i - 1 = d + i
    BY <1>1, <1>4, <2>1
  <2>4. /\ SubSeq(piece, c, l) \in Seq(Char) /\ Len(SubSeq(piece, c, l)) = l - d
        /\ \A i \in 1 .. l - d : SubSeq(piece, c, l)[i] = piece[d + i]
    BY <2>2, <2>3
  <2> QED
    BY <2>4 DEF c
<1> HIDE DEF n, v
<1>8. NoneOf(n, "\n") /\ NoneOf(n, ":")
  BY <1>5, <1>6 DEF NoneOf
<1>9. \A i \in 1 .. Len(v) - 1 : v[i] # "\n"
  <2>1. \A i \in 1 .. l - d - 1 : d + i \in 1 .. l - 1 /\ i \in 1 .. l - d
    BY <1>1, <1>4
  <2> QED
    BY <1>7, <2>1
<1>10. Trimmed(n) \in Seq(Char) /\ Trimmed(v) \in Seq(Char) /\ Trimmed(Trimmed(n)) = Trimmed(n)
  BY <1>6, <1>7, TrimmedOnce
<1>11. NoneOf(Trimmed(n), "\n") /\ NoneOf(Trimmed(n), ":") /\ NoneOf(Trimmed(v), "\n")
  BY <1>6, <1>7, <1>8, <1>9, TrimmedWithout, TrimmedEnd
<1> QED
  BY <1>3, <1>10, <1>11 DEF Entry

Read == [text : Seq(Char), set : Seq(Entry)]

\* What is left of a text after its first n characters.
LEMMA LeftOf ==
  ASSUME NEW s \in Seq(Char), NEW n \in 0 .. Len(s)
  PROVE  LET r == SubSeq(s, n + 1, Len(s))
         IN r \in Seq(Char) /\ Len(r) = Len(s) - n /\ \A i \in 1 .. Len(s) - n : r[i] = s[n + i]
<1> DEFINE l == Len(s)
           c == n + 1
           r == SubSeq(s, c, l)
<1>1. l \in Nat
  BY LenProperties
<1>2. c \in Nat \ {0} /\ l <= l /\ c <= l + 1 /\ c = n + 1
  BY <1>1
<1> HIDE DEF c, l
<1>3. r \in Seq(Char) /\ Len(r) = l - c + 1 /\ \A i \in 1 .. l - c + 1 : r[i] = s[c + i - 1]
  BY <1>1, <1>2, PartOf DEF l
<1>4. l - c + 1 = l - n /\ \A i \in 1 .. l - n : c + i - 1 = n + i
  BY <1>1, <1>2 DEF l
<1> HIDE DEF r
<1>5. r \in Seq(Char) /\ Len(r) = l - n /\ \A i \in 1 .. l - n : r[i] = s[n + i]
  BY <1>3, <1>4
<1> QED
  BY <1>5 DEF r, c, l

LEMMA TurnType ==
  ASSUME NEW r \in Read
  PROVE  Turn(r) \in Read
<1> DEFINE piece == f_gets(r.text)
           rest == SubSeq(r.text, Len(piece) + 1, Len(r.text))
           set == IF piece # <<>> /\ IsSetting(piece) THEN Append(r.set, Split(piece)) ELSE r.set
<1>1. r.text \in Seq(Char) /\ r.set \in Seq(Entry) /\ Len(r.text) \in Nat
  <2>1. r.text \in Seq(Char) /\ r.set \in Seq(Entry)
    BY DEF Read
  <2> QED
    BY <2>1, LenProperties
<1>2. Turn(r) = [text |-> rest, set |-> set]
  BY DEF Turn
<1>3. CASE r.text = <<>>
  <2>1. piece = <<>>
    BY <1>3, GetsNone
  <2>2. rest \in Seq(Char)
    <3>1. Len(piece) = 0
      BY <2>1
    <3>2. 0 \in 0 .. Len(r.text)
      BY <1>1
    <3>3. SubSeq(r.text, 0 + 1, Len(r.text)) \in Seq(Char)
      BY <1>1, <3>2, LeftOf
    <3> QED
      BY <3>1, <3>3
  <2> QED
    BY <1>1, <1>2, <2>1, <2>2 DEF Read
<1>4. CASE r.text # <<>>
  <2>1. IsPiece(piece, r.text)
    BY <1>1, <1>4, GetsIs
  <2> HIDE DEF piece
  <2>2. piece \in Seq(Char) /\ Len(piece) \in 0 .. Len(r.text)
    BY <1>1, <2>1 DEF IsPiece
  <2>3. rest \in Seq(Char)
    BY <1>1, <2>2, LeftOf
  <2>4. IsSetting(piece) => Split(piece) \in Entry
    <3>1. \A i \in 1 .. Len(piece) - 1 : piece[i] # "\n"
      BY <2>1 DEF IsPiece
    <3> QED
      BY <2>2, <3>1, SplitEntry DEF IsSetting
  <2>5. set \in Seq(Entry)
    <3>1. ASSUME NEW e \in Entry PROVE Append(r.set, e) \in Seq(Entry)
      BY <1>1, AppendProperties
    <3> QED
      BY <1>1, <2>4, <3>1
  <2> HIDE DEF rest, set
  <2> QED
    BY <1>2, <2>3, <2>5 DEF Read
<1> QED
  BY <1>3, <1>4

LEMMA TurnsFrom ==
  ASSUME NEW start \in Read
  PROVE  \E f \in [Nat -> Read] :
           f[0] = start /\ \A n \in Nat \ {0} : f[n] = Turn(f[n - 1])
<1> DEFINE S == Read
           turn == [n \in Nat |-> [r \in S |-> Turn(r)]]
<1>1. start \in S
  OBVIOUS
<1>2. turn \in [Nat -> [S -> S]]
  BY TurnType
<1>3. PICK f \in [Nat -> S] : f[0] = start /\ \A n \in Nat \ {0} : f[n] = turn[n][f[n - 1]]
  <2> HIDE DEF S, turn
  <2> QED
    BY <1>1, <1>2, Recursion
<1>4. ASSUME NEW n \in Nat \ {0} PROVE f[n] = Turn(f[n - 1])
  <2>1. n - 1 \in Nat /\ f[n - 1] \in S
    BY <1>3
  <2> QED
    BY <1>3, <2>1
<1> HIDE DEF turn
<1> QED
  BY <1>3, <1>4

LEMMA FetchingIs ==
  ASSUME NEW text \in Seq(Char)
  PROVE  /\ \A n \in Nat : Fetching(text)[n] \in Read
         /\ Fetching(text)[0] = [text |-> text, set |-> <<>>]
         /\ \A n \in Nat \ {0} : Fetching(text)[n] = Turn(Fetching(text)[n - 1])
<1> DEFINE first == [text |-> text, set |-> <<>>]
           S == Read
<1>1. first \in S
  BY EmptySeq DEF Read
<1>2. PICK f \in [Nat -> S] : f[0] = first /\ \A n \in Nat \ {0} : f[n] = Turn(f[n - 1])
  <2> HIDE DEF first
  <2> QED
    BY <1>1, TurnsFrom
<1> DEFINE Fits(g) == g = [n \in Nat |-> IF n = 0 THEN first ELSE Turn(g[n - 1])]
<1>5. Fits(f)
  <2> HIDE DEF first, S
  <2> QED
    BY <1>2
<1>6. Fetching(text) = CHOOSE g : Fits(g)
  BY DEF Fetching
<1>7. Fits(Fetching(text))
  <2> HIDE DEF Fits
  <2> QED
    BY <1>5, <1>6
<1> HIDE DEF S, first
<1>8. Fetching(text)[0] = first
  BY <1>7
<1>9. ASSUME NEW n \in Nat \ {0} PROVE Fetching(text)[n] = Turn(Fetching(text)[n - 1])
  BY <1>7
<1> HIDE DEF Fits
<1>10. ASSUME NEW n \in Nat PROVE Fetching(text)[n] \in S
  <2> DEFINE Bad == {m \in Nat : Fetching(text)[m] \notin S}
  <2>1. SUFFICES ASSUME Bad # {} PROVE FALSE
    OBVIOUS
  <2>2. PICK m \in Bad : \A k \in Bad : m <= k
    <3>1. Bad \in SUBSET Nat
      OBVIOUS
    <3> HIDE DEF Bad
    <3> QED
      BY <2>1, <3>1, LeastOf
  <2>3. m # 0
    BY <1>1, <1>8, <2>2
  <2>4. m - 1 \in Nat /\ m - 1 \notin Bad
    BY <2>2, <2>3
  <2>5. Turn(Fetching(text)[m - 1]) \in S
    BY <2>4, TurnType DEF S
  <2> QED
    BY <1>9, <2>2, <2>3, <2>5
<1> QED
  BY <1>8, <1>9, <1>10 DEF first, S

------------------------------------------------------------------------------
(* A line that is printed, and read again *)

LEMMA CutIs ==
  ASSUME NEW s \in Seq(Char), NEW n \in Nat
  PROVE  /\ Cut(s, n) \in Seq(Char)
         /\ Len(Cut(s, n)) = IF n <= Len(s) THEN n ELSE Len(s)
         /\ \A i \in 1 .. Len(Cut(s, n)) : Cut(s, n)[i] = s[i]
<1> DEFINE l == Len(s)
           m == Min({n, l})
           c == SubSeq(s, 1, m)
<1>1. l \in Nat
  BY LenProperties
<1>2. m \in {n, l} /\ \A i \in {n, l} : m <= i
  BY <1>1, MinIs
<1>3. Cut(s, n) = c
  BY DEF Cut
<1> HIDE DEF m
<1>4. m \in Nat /\ m <= l /\ m = IF n <= l THEN n ELSE l
  BY <1>1, <1>2
<1>5. c \in Seq(Char) /\ Len(c) = m - 1 + 1 /\ \A i \in 1 .. m - 1 + 1 : c[i] = s[1 + i - 1]
  <2>1. 1 \in Nat \ {0} /\ 1 <= m + 1
    BY <1>4
  <2> QED
    BY <1>4, <2>1, PartOf
<1> HIDE DEF c
<1>6. c \in Seq(Char) /\ Len(c) = m /\ \A i \in 1 .. m : c[i] = s[i]
  BY <1>4, <1>5
<1> QED
  BY <1>3, <1>4, <1>6

LEMMA ConcatIs ==
  ASSUME NEW s \in Seq(Char), NEW t \in Seq(Char), NEW a, NEW b, Len(s) = a, Len(t) = b
  PROVE  /\ s \o t \in Seq(Char) /\ Len(s \o t) = a + b
         /\ \A i \in 1 .. a + b : (s \o t)[i] = IF i <= a THEN s[i] ELSE t[i - a]
BY ConcatProperties

\* p is the line of an entry: its name, the divider, and as much of its value as there
\* is room for.
IsLine(p, e) ==
  LET n == Len(e.name)
      v == Cut(e.value, RoomFor(e))
  IN /\ p \in Seq(Char) /\ Len(p) <= Size - 1
     /\ n + 2 + Len(v) <= Len(p) /\ Len(p) <= n + 2 + Len(v) + 1
     /\ \A i \in 1 .. n : p[i] = e.name[i]
     /\ p[n + 1] = ":" /\ p[n + 2] = " "
     /\ \A i \in 1 .. Len(v) : p[n + 2 + i] = v[i]
     /\ Len(p) = n + 2 + Len(v) + 1 => p[Len(p)] = "\n"
     /\ Len(p) = n + 2 + Len(v) => Len(p) = Size - 1

LEMMA PrintedIsLine ==
  ASSUME NEW e \in Entry, RoomFor(e) >= 0
  PROVE  IsLine(Printed(e), e)
<1> DEFINE name == e.name
           value == e.value
           n == Len(name)
           l == Len(value)
           middle == <<":", " ">>
           end == <<"\n">>
           whole == name \o middle \o value \o end
           k == Size - 1
           p == Printed(e)
           v == Cut(value, RoomFor(e))
<1>1. name \in Seq(Char) /\ value \in Seq(Char) /\ n \in Nat /\ l \in Nat
  <2>1. name \in Seq(Char) /\ value \in Seq(Char)
    BY DEF Entry
  <2> QED
    BY <2>1, LenProperties
<1>2. /\ middle \in Seq(Char) /\ Len(middle) = 2 /\ middle[1] = ":" /\ middle[2] = " "
      /\ end \in Seq(Char) /\ Len(end) = 1 /\ end[1] = "\n"
  BY DEF Char
<1>3. k \in Nat /\ RoomFor(e) \in Nat /\ RoomFor(e) = k - n - 2
  BY <1>1, ConfigTextAssumption DEF RoomFor
<1> HIDE DEF name, value, middle, end, n, l
<1> DEFINE w1 == name \o middle
           w2 == w1 \o value
<1>4. /\ w1 \in Seq(Char) /\ Len(w1) = n + 2
      /\ \A i \in 1 .. n + 2 : w1[i] = IF i <= n THEN name[i] ELSE middle[i - n]
  <2>1. Len(name) = n
    BY DEF n
  <2>2. /\ name \o middle \in Seq(Char) /\ Len(name \o middle) = n + 2
        /\ \A i \in 1 .. n + 2 : (name \o middle)[i] = IF i <= n THEN name[i] ELSE middle[i - n]
    <3> DEFINE two == Len(middle)
    <3>1. Len(middle) = two /\ two = 2
      BY <1>2
    <3>3. Len(middle) = two /\ middle \in Seq(Char) /\ name \in Seq(Char)
      BY <1>1, <1>2
    <3> HIDE DEF two
    <3>2. /\ name \o middle \in Seq(Char) /\ Len(name \o middle) = n + two
          /\ \A i \in 1 .. n + two : (name \o middle)[i] = IF i <= n THEN name[i] ELSE middle[i - n]
      BY <2>1, <3>3, ConcatIs
    <3> QED
      BY <3>1, <3>2
  <2> QED
    BY <2>2
<1> HIDE DEF w1
<1>5. /\ w2 \in Seq(Char) /\ Len(w2) = n + 2 + l
      /\ \A i \in 1 .. n + 2 + l : w2[i] = IF i <= n + 2 THEN w1[i] ELSE value[i - (n + 2)]
  <2> DEFINE m == n + 2
  <2>1. Len(value) = l /\ Len(w1) = m
    BY <1>4 DEF l
  <2> HIDE DEF m
  <2>2. /\ w1 \o value \in Seq(Char) /\ Len(w1 \o value) = m + l
        /\ \A i \in 1 .. m + l : (w1 \o value)[i] = IF i <= m THEN w1[i] ELSE value[i - m]
    BY <1>1, <1>4, <2>1, ConcatIs
  <2> QED
    BY <2>2 DEF m
<1> HIDE DEF w2
<1>6. /\ whole \in Seq(Char) /\ Len(whole) = n + 2 + l + 1
      /\ \A i \in 1 .. n + 2 + l + 1 : whole[i] = IF i <= n + 2 + l THEN w2[i] ELSE end[i - (n + 2 + l)]
  <2>1. whole = w2 \o end
    BY DEF w1, w2
  <2>2. /\ w2 \o end \in Seq(Char) /\ Len(w2 \o end) = n + 2 + l + 1
        /\ \A i \in 1 .. n + 2 + l + 1 : (w2 \o end)[i] = IF i <= n + 2 + l THEN w2[i] ELSE end[i - (n + 2 + l)]
    <3> DEFINE m == n + 2 + l
           one == Len(end)
    <3>1. Len(w2) = m /\ Len(end) = one
      BY <1>5
    <3>2. one = 1
      BY <1>2
    <3>4. w2 \in Seq(Char) /\ end \in Seq(Char)
      BY <1>2, <1>5
    <3> HIDE DEF m, one
    <3>3. /\ w2 \o end \in Seq(Char) /\ Len(w2 \o end) = m + one
          /\ \A i \in 1 .. m + one : (w2 \o end)[i] = IF i <= m THEN w2[i] ELSE end[i - m]
      BY <3>1, <3>4, ConcatIs
    <3> QED
      BY <3>2, <3>3 DEF m
  <2> HIDE DEF whole
  <2> QED
    BY <2>1, <2>2
<1>7. p = Cut(whole, k)
  BY DEF Printed, name, value, middle, end
<1> HIDE DEF whole, k, p, v
<1>8. /\ p \in Seq(Char) /\ Len(p) = (IF k <= n + 2 + l + 1 THEN k ELSE n + 2 + l + 1)
      /\ \A i \in 1 .. Len(p) : p[i] = whole[i]
  BY <1>3, <1>6, <1>7, CutIs
<1>9. /\ v \in Seq(Char) /\ Len(v) = (IF RoomFor(e) <= l THEN RoomFor(e) ELSE l)
      /\ \A i \in 1 .. Len(v) : v[i] = value[i]
  BY <1>1, <1>3, CutIs DEF v, l
<1> DEFINE lp == Len(p)
           lv == Len(v)
<1>10. lp \in Nat /\ lv \in Nat /\ lp = (IF k <= n + 2 + l + 1 THEN k ELSE n + 2 + l + 1)
       /\ lv = (IF k - n - 2 <= l THEN k - n - 2 ELSE l)
  BY <1>1, <1>3, <1>8, <1>9
<1>11. /\ lp <= k /\ n + 2 + lv <= lp /\ lp <= n + 2 + lv + 1
       /\ lp = n + 2 + lv + 1 => lp = n + 2 + l + 1
       /\ lp = n + 2 + lv => lp = k
       /\ lv <= l
  <2> HIDE DEF lp, lv
  <2> QED
    BY <1>1, <1>3, <1>10
<1>12. \A i \in 1 .. n : p[i] = name[i]
  <2>1. ASSUME NEW i \in 1 .. n PROVE p[i] = name[i]
    <3>1. i \in 1 .. lp /\ i \in 1 .. n + 2 + l + 1 /\ i \in 1 .. n + 2 + l /\ i \in 1 .. n + 2 /\ i <= n /\ i <= n + 2 /\ i <= n + 2 + l
      <4> HIDE DEF lp, lv
      <4> QED
        BY <1>1, <1>10, <1>11
    <3>2. p[i] = whole[i]
      BY <1>8, <3>1
    <3>3. whole[i] = w2[i] /\ w2[i] = w1[i] /\ w1[i] = name[i]
      BY <1>4, <1>5, <1>6, <3>1
    <3> QED
      BY <3>2, <3>3
  <2> QED
    BY <2>1
<1>13. p[n + 1] = ":" /\ p[n + 2] = " "
  <2>1. ASSUME NEW i \in 1 .. 2 PROVE p[n + i] = middle[i]
    <3> DEFINE j == n + i
    <3>1. j \in 1 .. lp /\ j \in 1 .. n + 2 + l + 1 /\ j \in 1 .. n + 2 + l /\ j \in 1 .. n + 2 /\ ~(j <= n) /\ j <= n + 2 /\ j <= n + 2 + l /\ j - n = i
      <4> HIDE DEF lp, lv
      <4> QED
        BY <1>1, <1>10, <1>11
    <3> HIDE DEF j
    <3>2. p[j] = whole[j]
      BY <1>8, <3>1
    <3>3. whole[j] = w2[j] /\ w2[j] = w1[j] /\ w1[j] = middle[j - n]
      BY <1>4, <1>5, <1>6, <3>1
    <3>4. p[j] = middle[i]
      BY <3>1, <3>2, <3>3
    <3> QED
      BY <3>4 DEF j
  <2>2. 1 \in 1 .. 2 /\ 2 \in 1 .. 2
    OBVIOUS
  <2> QED
    BY <1>2, <2>1, <2>2
<1>14. \A i \in 1 .. lv : p[n + 2 + i] = v[i]
  <2>1. ASSUME NEW i \in 1 .. lv PROVE p[n + 2 + i] = v[i]
    <3> DEFINE j == n + 2 + i
    <3>1. /\ j \in 1 .. lp /\ j \in 1 .. n + 2 + l + 1 /\ j \in 1 .. n + 2 + l /\ ~(j <= n + 2)
          /\ j <= n + 2 + l /\ j - (n + 2) = i
      <4> HIDE DEF lp, lv
      <4> QED
        BY <1>1, <1>10, <1>11
    <3> HIDE DEF j
    <3>2. p[j] = whole[j]
      BY <1>8, <3>1
    <3>3. whole[j] = w2[j] /\ w2[j] = value[j - (n + 2)]
      BY <1>5, <1>6, <3>1
    <3>4. v[i] = value[i]
      BY <1>9
    <3>5. p[j] = v[i]
      BY <3>1, <3>2, <3>3, <3>4
    <3> QED
      BY <3>5 DEF j
  <2> QED
    BY <2>1
<1>15. lp = n + 2 + lv + 1 => p[lp] = "\n"
  <2>1. SUFFICES ASSUME lp = n + 2 + lv + 1 PROVE p[lp] = "\n"
    OBVIOUS
  <2>2. /\ lp \in 1 .. lp /\ lp \in 1 .. n + 2 + l + 1 /\ ~(lp <= n + 2 + l)
        /\ lp - (n + 2 + l) = 1
    <3> HIDE DEF lp, lv
    <3> QED
      BY <1>1, <1>10, <1>11, <2>1
  <2>3. p[lp] = whole[lp]
    BY <1>8, <2>2
  <2>4. whole[lp] = end[lp - (n + 2 + l)]
    BY <1>6, <2>2
  <2> QED
    BY <1>2, <2>2, <2>3, <2>4
<1>16. /\ p \in Seq(Char) /\ lp <= k
       /\ n + 2 + lv <= lp /\ lp <= n + 2 + lv + 1
       /\ \A i \in 1 .. n : p[i] = name[i]
       /\ p[n + 1] = ":" /\ p[n + 2] = " "
       /\ \A i \in 1 .. lv : p[n + 2 + i] = v[i]
       /\ lp = n + 2 + lv + 1 => p[lp] = "\n"
       /\ lp = n + 2 + lv => lp = k
  <2> HIDE DEF lp, lv
  <2> QED
    BY <1>8, <1>11, <1>12, <1>13, <1>14, <1>15
<1> QED
  BY <1>16 DEF IsLine, p, k, v, n, name, value

LEMMA LineIsRead ==
  ASSUME NEW e \in Entry, RoomFor(e) >= 0, NEW p, IsLine(p, e),
         NEW text \in Seq(Char), Len(p) <= Len(text), \A i \in 1 .. Len(p) : text[i] = p[i]
  PROVE  f_gets(text) = p /\ p # <<>>
<1> DEFINE n == Len(e.name)
           v == Cut(e.value, RoomFor(e))
           lv == Len(v)
           lp == Len(p)
<1>1. e.name \in Seq(Char) /\ e.value \in Seq(Char) /\ NoneOf(e.name, "\n") /\ NoneOf(e.value, "\n")
  BY DEF Entry
<1>2. n \in Nat /\ Len(e.value) \in Nat /\ Len(text) \in Nat
  BY <1>1, LenProperties
<1>3. RoomFor(e) \in Nat /\ Size \in Nat
  BY <1>2, ConfigTextAssumption DEF RoomFor
<1>4. v \in Seq(Char) /\ lv \in Nat /\ lv <= Len(e.value) /\ \A i \in 1 .. lv : v[i] = e.value[i]
  <2>1. /\ v \in Seq(Char) /\ lv = (IF RoomFor(e) <= Len(e.value) THEN RoomFor(e) ELSE Len(e.value))
        /\ \A i \in 1 .. lv : v[i] = e.value[i]
    BY <1>1, <1>3, CutIs
  <2> HIDE DEF v, lv
  <2> QED
    BY <1>2, <1>3, <2>1
<1>5. /\ p \in Seq(Char) /\ lp <= Size - 1
      /\ n + 2 + lv <= lp /\ lp <= n + 2 + lv + 1
      /\ \A i \in 1 .. n : p[i] = e.name[i]
      /\ p[n + 1] = ":" /\ p[n + 2] = " "
      /\ \A i \in 1 .. lv : p[n + 2 + i] = v[i]
      /\ lp = n + 2 + lv + 1 => p[lp] = "\n"
      /\ lp = n + 2 + lv => lp = Size - 1
  BY DEF IsLine
<1>6. lp \in Nat
  BY <1>5, LenProperties
<1> HIDE DEF n, v, lv, lp
<1>12. /\ lp \in Nat /\ n \in Nat /\ lv \in Nat
       /\ n + 2 + lv <= lp /\ lp <= n + 2 + lv + 1
  BY <1>2, <1>4, <1>5, <1>6
<1>7. ASSUME NEW i \in 1 .. lp - 1 PROVE p[i] # "\n"
  <2>1. \/ i \in 1 .. n
        \/ i = n + 1
        \/ i = n + 2
        \/ i - (n + 2) \in 1 .. lv
    BY <1>12
  <2>2. ASSUME i \in 1 .. n PROVE p[i] # "\n"
    BY <1>1, <1>5, <2>2 DEF NoneOf, n
  <2>3. ASSUME i - (n + 2) \in 1 .. lv PROVE p[i] # "\n"
    <3> DEFINE j == i - (n + 2)
    <3>1. j \in 1 .. lv /\ n + 2 + j = i
      BY <1>12, <2>3
    <3>3. j \in 1 .. Len(e.value)
      BY <1>2, <1>4, <3>1
    <3> HIDE DEF j
    <3>2. p[n + 2 + j] = e.value[j]
      BY <1>4, <1>5, <3>1
    <3> QED
      BY <1>1, <3>1, <3>2, <3>3 DEF NoneOf
  <2> QED
    BY <1>5, <2>1, <2>2, <2>3
<1>8. lp \in 1 .. Len(text)
  <2>1. lp <= Len(text)
    BY DEF lp
  <2> QED
    BY <1>2, <1>12, <2>1
<1>9. IsPiece(p, text)
  BY <1>5, <1>7, <1>8 DEF IsPiece, lp
<1>10. p[Len(p)] = "\n" \/ Len(p) = Size - 1
  <2>1. lp = n + 2 + lv + 1 \/ lp = n + 2 + lv
    BY <1>12
  <2> QED
    BY <1>5, <2>1 DEF lp
<1>11. p # <<>>
  BY <1>8, EmptySeq DEF lp
<1> QED
  BY <1>9, <1>10, <1>11, GetsExact

LEMMA LineIsSet ==
  ASSUME NEW e \in Entry, Readable(e), NEW p, IsLine(p, e)
  PROVE  IsSetting(p) /\ Split(p) = Kept(e)
<1> DEFINE n == Len(e.name)
           v == Cut(e.value, RoomFor(e))
           lv == Len(v)
           lp == Len(p)
           d == Min(Places(p, ":"))
<1>1. /\ e.name \in Seq(Char) /\ e.value \in Seq(Char) /\ NoneOf(e.name, ":")
      /\ Trimmed(e.name) = e.name
  BY DEF Entry
<1>2. n \in Nat /\ Len(e.value) \in Nat
  BY <1>1, LenProperties
<1>3. RoomFor(e) \in Nat
  <2>1. RoomFor(e) \in Int
    BY <1>2, ConfigTextAssumption DEF RoomFor
  <2>2. RoomFor(e) >= 0
    BY DEF Readable
  <2> QED
    BY <2>1, <2>2
<1>4. v \in Seq(Char) /\ lv \in Nat
  BY <1>1, <1>3, CutIs, LenProperties
<1>5. /\ p \in Seq(Char) /\ n + 2 + lv <= lp /\ lp <= n + 2 + lv + 1
      /\ \A i \in 1 .. n : p[i] = e.name[i]
      /\ p[n + 1] = ":" /\ p[n + 2] = " "
      /\ \A i \in 1 .. lv : p[n + 2 + i] = v[i]
      /\ lp = n + 2 + lv + 1 => p[lp] = "\n"
  BY DEF IsLine
<1>6. lp \in Nat /\ DOMAIN p = 1 .. lp
  BY <1>5, LenProperties
<1>7. Split(p) = [name |-> Trimmed(SubSeq(p, 1, d - 1)), value |-> Trimmed(SubSeq(p, d + 1, lp))]
  BY DEF Split
<1>8. Kept(e) = [name |-> e.name, value |-> Trimmed(v)]
  BY DEF Kept, Entry
<1> HIDE DEF n, v, lv, lp
<1>16. /\ lp \in Nat /\ n \in Nat /\ lv \in Nat
       /\ n + 2 + lv <= lp /\ lp <= n + 2 + lv + 1
  BY <1>2, <1>4, <1>5, <1>6
<1>9. n + 1 \in Places(p, ":") /\ \A i \in Places(p, ":") : i \in Nat /\ n + 1 <= i
  <2>1. n + 1 \in Places(p, ":")
    <3>1. n + 1 \in 1 .. lp
      BY <1>16
    <3> QED
      BY <1>5, <1>6, <3>1 DEF Places
  <2>2. ASSUME NEW i \in Places(p, ":") PROVE i \in Nat /\ n + 1 <= i
    <3>1. i \in 1 .. lp /\ p[i] = ":"
      BY <1>6 DEF Places
    <3>2. i \notin 1 .. n
      BY <1>1, <1>5, <3>1 DEF NoneOf, n
    <3> QED
      BY <1>2, <3>1, <3>2
  <2> QED
    BY <2>1, <2>2
<1>10. d = n + 1
  <2>1. Places(p, ":") \in SUBSET Nat /\ Places(p, ":") # {}
    BY <1>9
  <2>2. d \in Places(p, ":") /\ \A i \in Places(p, ":") : d <= i
    BY <2>1, MinIs
  <2> HIDE DEF d
  <2> QED
    BY <1>2, <1>9, <2>2
<1> HIDE DEF d
<1>11. SubSeq(p, 1, n) = e.name
  <2>1. n <= lp /\ 1 <= n + 1 /\ 1 \in Nat \ {0}
    BY <1>16
  <2>2. /\ SubSeq(p, 1, n) \in Seq(Char) /\ Len(SubSeq(p, 1, n)) = n - 1 + 1
        /\ \A i \in 1 .. n - 1 + 1 : SubSeq(p, 1, n)[i] = p[1 + i - 1]
    BY <1>2, <1>5, <2>1, PartOf DEF lp
  <2>3. n - 1 + 1 = n /\ \A i \in 1 .. n : 1 + i - 1 = i
    BY <1>2
  <2>4. Len(SubSeq(p, 1, n)) = n /\ \A i \in 1 .. n : SubSeq(p, 1, n)[i] = e.name[i]
    BY <1>5, <2>2, <2>3
  <2> QED
    BY <1>1, <2>2, <2>4, SeqEqual DEF n
<1>12. Trimmed(SubSeq(p, n + 2, lp)) = Trimmed(v)
  <2> DEFINE m == n + 1
             s == SubSeq(p, m + 1, lp)
  <2>1. m \in 0 .. lp /\ m \in Nat
    BY <1>16
  <2>2. s \in Seq(Char) /\ Len(s) = lp - m /\ \A i \in 1 .. lp - m : s[i] = p[m + i]
    <3> HIDE DEF m, s
    <3>1. m \in 0 .. Len(p)
      BY <2>1 DEF lp
    <3> QED
      BY <1>5, <3>1, LeftOf DEF lp, s
  <2> HIDE DEF s
  <2>3. 1 + lv <= Len(s) /\ Len(s) <= lv + 2 /\ Len(s) \in Nat
    BY <1>16, <2>1, <2>2
  <2>4. \A i \in 1 .. lv : s[1 + i] = v[i]
    <3>1. ASSUME NEW i \in 1 .. lv PROVE 1 + i \in 1 .. lp - m /\ m + (1 + i) = n + 2 + i
      BY <1>16
    <3> QED
      BY <1>5, <2>2, <3>1
  <2>5. ASSUME NEW i \in 1 .. Len(s), i <= 1 \/ i > 1 + lv PROVE isspace(s[i])
    <3>1. i = 1 \/ (i = lv + 2 /\ Len(s) = lv + 2)
      BY <1>16, <2>3, <2>5
    <3>2. ASSUME i = 1 PROVE s[i] = " "
      <4>1. m + 1 = n + 2 /\ 1 \in 1 .. lp - m
        BY <1>16
      <4> QED
        BY <1>5, <2>2, <3>2, <4>1
    <3>3. ASSUME i = lv + 2, Len(s) = lv + 2 PROVE s[i] = "\n"
      <4>1. m + i = lp /\ lp = n + 2 + lv + 1 /\ i \in 1 .. lp - m
        BY <1>16, <2>2, <3>3
      <4> QED
        BY <1>5, <2>2, <4>1
    <3> QED
      BY <3>1, <3>2, <3>3 DEF isspace
  <2>6. 1 \in Nat /\ Len(v) = lv
    BY DEF lv
  <2>7. /\ 1 + Len(v) <= Len(s)
        /\ \A i \in 1 .. Len(v) : s[1 + i] = v[i]
        /\ \A i \in 1 .. Len(s) : i <= 1 \/ i > 1 + Len(v) => isspace(s[i])
    BY <2>3, <2>4, <2>5, <2>6
  <2>8. Trimmed(s) = Trimmed(v)
    BY <1>4, <2>2, <2>6, <2>7, TrimmedAround
  <2>9. m + 1 = n + 2
    BY <1>2
  <2> QED
    BY <2>8, <2>9 DEF s
<1>13. d - 1 = n /\ d + 1 = n + 2
  BY <1>2, <1>10
<1>14. Split(p) = Kept(e)
  BY <1>1, <1>7, <1>8, <1>11, <1>12, <1>13
<1>15. p[1] # "#"
  <2>1. CASE e.name = <<>>
    <3>1. n + 1 = 1
      BY <2>1 DEF n
    <3>2. p[1] = ":"
      BY <1>5, <3>1
    <3> QED
      BY <3>2
  <2>2. CASE e.name # <<>>
    <3>1. 1 \in 1 .. n
      BY <1>1, <1>2, <2>2, EmptySeq DEF n
    <3>2. e.name[1] # "#"
      BY <2>2 DEF Readable
    <3> QED
      BY <1>5, <3>1, <3>2
  <2> QED
    BY <2>1, <2>2
<1> QED
  BY <1>9, <1>14, <1>15 DEF IsSetting

LEMMA TurnReads ==
  ASSUME NEW r \in Read, NEW e \in Entry, Readable(e), NEW p, p = Printed(e),
         Len(p) <= Len(r.text), \A i \in 1 .. Len(p) : r.text[i] = p[i]
  PROVE  /\ Turn(r).text = SubSeq(r.text, Len(p) + 1, Len(r.text))
         /\ Turn(r).set = Append(r.set, Kept(e))
<1>1. RoomFor(e) >= 0
  BY DEF Readable
<1>2. IsLine(p, e)
  BY <1>1, PrintedIsLine
<1>3. r.text \in Seq(Char)
  BY DEF Read
<1>4. f_gets(r.text) = p /\ p # <<>>
  BY <1>1, <1>2, <1>3, LineIsRead
<1>5. IsSetting(p) /\ Split(p) = Kept(e)
  BY <1>2, LineIsSet
<1> QED
  BY <1>4, <1>5 DEF Turn

LEMMA TurnRests ==
  ASSUME NEW r \in Read, r.text = <<>>
  PROVE  Turn(r) = r
<1>1. f_gets(r.text) = <<>>
  BY GetsNone
<1>2. Len(<<>>) = 0 /\ SubSeq(<<>>, 1, 0) = <<>>
  BY SubSeqEmpty
<1>3. Turn(r) = [text |-> <<>>, set |-> r.set]
  BY <1>1, <1>2 DEF Turn
<1>4. r = [text |-> <<>>, set |-> r.set]
  BY DEF Read
<1> QED
  BY <1>3, <1>4

LEMMA TextsFrom ==
  \A turn \in [Nat -> [Seq(Char) -> Seq(Char)]] :
    \E f \in [Nat -> Seq(Char)] :
      f[0] = <<>> /\ \A n \in Nat \ {0} : f[n] = turn[n][f[n - 1]]
<1> DEFINE S == Seq(Char)
<1>1. <<>> \in S
  BY EmptySeq
<1>2. \A turn \in [Nat -> [S -> S]] :
        \E f \in [Nat -> S] : f[0] = <<>> /\ \A n \in Nat \ {0} : f[n] = turn[n][f[n - 1]]
  <2> HIDE DEF S
  <2> QED
    BY <1>1, Recursion
<1> QED
  BY <1>2

LEMMA LinesFrom ==
  ASSUME NEW E \in Seq(Entry), \A i \in 1 .. Len(E) : RoomFor(E[i]) >= 0
  PROVE  \E f \in [Nat -> Seq(Char)] :
           /\ f[0] = <<>>
           /\ \A n \in Nat \ {0} :
                f[n] = IF n \in 1 .. Len(E) THEN f[n - 1] \o Printed(E[n]) ELSE f[n - 1]
<1> DEFINE S == Seq(Char)
           longer(n, s) == IF n \in 1 .. Len(E) THEN s \o Printed(E[n]) ELSE s
           turn == [n \in Nat |-> [s \in S |-> longer(n, s)]]
<1>1. ASSUME NEW n \in Nat, NEW s \in S PROVE longer(n, s) \in S
  <2>1. CASE n \in 1 .. Len(E)
    <3>1. E[n] \in Entry
      BY <2>1, ElementOfSeq
    <3>2. Printed(E[n]) \in S
      BY <2>1, <3>1, PrintedIsLine DEF IsLine
    <3> QED
      BY <2>1, <3>2, ConcatProperties
  <2>2. CASE n \notin 1 .. Len(E)
    BY <2>2
  <2> QED
    BY <2>1, <2>2
<1> HIDE DEF longer
<1>2. turn \in [Nat -> [S -> S]]
  BY <1>1
<1>4. PICK f \in [Nat -> S] : f[0] = <<>> /\ \A n \in Nat \ {0} : f[n] = turn[n][f[n - 1]]
  <2> HIDE DEF turn
  <2> QED
    BY <1>2, TextsFrom
<1>5. ASSUME NEW n \in Nat \ {0} PROVE f[n] = longer(n, f[n - 1])
  <2>1. n - 1 \in Nat /\ f[n - 1] \in S
    BY <1>4
  <2> QED
    BY <1>4, <2>1
<1> HIDE DEF turn
<1>6. ASSUME NEW n \in Nat \ {0}
      PROVE  f[n] = IF n \in 1 .. Len(E) THEN f[n - 1] \o Printed(E[n]) ELSE f[n - 1]
  BY <1>5 DEF longer
<1> QED
  BY <1>4, <1>6

LEMMA SavingIs ==
  ASSUME NEW E \in Seq(Entry), \A i \in 1 .. Len(E) : RoomFor(E[i]) >= 0
  PROVE  /\ \A n \in 0 .. Len(E) : Saving(E)[n] \in Seq(Char) /\ Len(Saving(E)[n]) >= n
         /\ Saving(E)[0] = <<>>
         /\ \A n \in 1 .. Len(E) : Saving(E)[n] = Saving(E)[n - 1] \o Printed(E[n])
<1> DEFINE N == Len(E)
           file == Saving(E)
           Fits(g) == g = [n \in 0 .. N |-> IF n = 0 THEN <<>> ELSE g[n - 1] \o Printed(E[n])]
<1>1. N \in Nat
  BY LenProperties
<1>2. PICK f \in [Nat -> Seq(Char)] :
        /\ f[0] = <<>>
        /\ \A n \in Nat \ {0} : f[n] = IF n \in 1 .. N THEN f[n - 1] \o Printed(E[n]) ELSE f[n - 1]
  BY LinesFrom
<1> DEFINE g == [n \in 0 .. N |-> f[n]]
<1>3. Fits(g)
  <2>1. ASSUME NEW n \in 0 .. N
        PROVE  f[n] = IF n = 0 THEN <<>> ELSE g[n - 1] \o Printed(E[n])
    <3>1. CASE n = 0
      BY <1>2, <3>1
    <3>2. CASE n # 0
      <4>1. n \in 1 .. N /\ n \in Nat \ {0} /\ n - 1 \in 0 .. N
        BY <1>1, <3>2
      <4>2. g[n - 1] = f[n - 1]
        BY <4>1
      <4> HIDE DEF N
      <4>3. f[n] = f[n - 1] \o Printed(E[n])
        BY <1>2, <4>1
      <4> QED
        BY <3>2, <4>2, <4>3
    <3> QED
      BY <3>1, <3>2
  <2> QED
    BY <2>1
<1>4. file = CHOOSE h : Fits(h)
  BY DEF Saving
<1>5. Fits(file)
  <2> HIDE DEF Fits
  <2> QED
    BY <1>3, <1>4
<1> HIDE DEF N, file, g
<1>6. file[0] = <<>>
  BY <1>1, <1>5
<1>7. ASSUME NEW n \in 1 .. N PROVE file[n] = file[n - 1] \o Printed(E[n])
  <2>1. n \in 0 .. N /\ n # 0
    BY <1>1
  <2>2. \A m \in 0 .. N : file[m] = IF m = 0 THEN <<>> ELSE file[m - 1] \o Printed(E[m])
    BY <1>5, Zenon
  <2> QED
    BY <2>1, <2>2
<1> HIDE DEF Fits
<1>8. ASSUME NEW n \in 0 .. N PROVE file[n] \in Seq(Char) /\ Len(file[n]) >= n
  <2> DEFINE Bad == {m \in 0 .. N : ~(file[m] \in Seq(Char) /\ Len(file[m]) >= m)}
  <2>1. SUFFICES ASSUME Bad # {} PROVE FALSE
    BY DEF Bad
  <2>2. PICK m \in Bad : \A k \in Bad : m <= k
    <3>1. Bad \in SUBSET Nat
      OBVIOUS
    <3> HIDE DEF Bad
    <3> QED
      BY <2>1, <3>1, LeastOf
  <2>3. m \in 0 .. N /\ ~(file[m] \in Seq(Char) /\ Len(file[m]) >= m)
    BY <2>2
  <2>4. m # 0
    <3>1. file[0] \in Seq(Char) /\ Len(file[0]) >= 0
      BY <1>6, EmptySeq
    <3> QED
      BY <2>3, <3>1
  <2>5. m - 1 \in 0 .. N /\ m \in 1 .. N
    BY <1>1, <2>3, <2>4
  <2>6. m - 1 \notin Bad
    <3> HIDE DEF Bad
    <3>1. m \in Nat /\ ~(m <= m - 1)
      BY <2>3
    <3> QED
      BY <2>2, <3>1
  <2> DEFINE a == file[m - 1]
             p == Printed(E[m])
  <2>7. a \in Seq(Char) /\ Len(a) >= m - 1
    BY <2>5, <2>6
  <2>8. E[m] \in Entry /\ RoomFor(E[m]) >= 0
    BY <2>5, ElementOfSeq DEF N
  <2>9. p \in Seq(Char) /\ Len(p) >= 1
    <3>1. IsLine(p, E[m])
      BY <2>8, PrintedIsLine
    <3> HIDE DEF p
    <3>2. /\ p \in Seq(Char)
          /\ Len(E[m].name) + 2 + Len(Cut(E[m].value, RoomFor(E[m]))) <= Len(p)
      BY <3>1 DEF IsLine
    <3>3. Len(E[m].name) \in Nat
      BY <2>8, LenProperties DEF Entry
    <3>4. Len(Cut(E[m].value, RoomFor(E[m]))) \in Nat
      <4>1. E[m].value \in Seq(Char)
        BY <2>8 DEF Entry
      <4>2. RoomFor(E[m]) \in Nat
        BY <2>8, <3>3, ConfigTextAssumption DEF RoomFor
      <4> QED
        BY <4>1, <4>2, CutIs, LenProperties
    <3>5. Len(p) \in Nat
      BY <3>2, LenProperties
    <3> DEFINE x == Len(E[m].name)
               y == Len(Cut(E[m].value, RoomFor(E[m])))
               z == Len(p)
    <3>6. x \in Nat /\ y \in Nat /\ z \in Nat /\ x + 2 + y <= z
      BY <3>2, <3>3, <3>4, <3>5
    <3> HIDE DEF x, y, z
    <3>7. z >= 1
      BY <3>6
    <3> QED
      BY <3>2, <3>7 DEF z
  <2>10. file[m] = a \o p
    BY <1>7, <2>5
  <2> HIDE DEF a, p
  <2>11. a \o p \in Seq(Char) /\ Len(a \o p) = Len(a) + Len(p)
    BY <2>7, <2>9, ConcatProperties
  <2>12. Len(a) \in Nat /\ Len(p) \in Nat
    BY <2>7, <2>9, LenProperties
  <2>13. Len(a \o p) >= m
    BY <2>3, <2>7, <2>9, <2>11, <2>12
  <2> QED
    BY <2>3, <2>10, <2>11, <2>13
<1> QED
  BY <1>6, <1>7, <1>8 DEF N, file

\* What has been saved, at any time, is what the whole begins with.
LEMMA SavingBegins ==
  ASSUME NEW E \in Seq(Entry), \A i \in 1 .. Len(E) : RoomFor(E[i]) >= 0, NEW n \in 0 .. Len(E)
  PROVE  /\ Len(Saving(E)[n]) <= Len(Saving(E)[Len(E)])
         /\ \A i \in 1 .. Len(Saving(E)[n]) : Saving(E)[Len(E)][i] = Saving(E)[n][i]
<1> DEFINE N == Len(E)
           file == Saving(E)
           T == file[N]
           Begins(s) == Len(s) <= Len(T) /\ \A i \in 1 .. Len(s) : T[i] = s[i]
           Bad == {k \in 0 .. N : ~Begins(file[N - k])}
<1>1. N \in Nat
  BY LenProperties
<1>2. /\ \A m \in 0 .. N : file[m] \in Seq(Char)
      /\ \A m \in 1 .. N : file[m] = file[m - 1] \o Printed(E[m])
  BY SavingIs
<1>3. \A m \in 1 .. N : Printed(E[m]) \in Seq(Char)
  <2>1. ASSUME NEW m \in 1 .. N PROVE Printed(E[m]) \in Seq(Char)
    BY ElementOfSeq, PrintedIsLine DEF IsLine
  <2> QED
    BY <2>1
<1>4. Len(T) \in Nat
  BY <1>1, <1>2, LenProperties
<1> HIDE DEF N, file, T
<1>5. Begins(T)
  BY <1>4
<1>6. Bad = {}
  <2>1. SUFFICES ASSUME Bad # {} PROVE FALSE
    OBVIOUS
  <2>2. PICK k \in Bad : \A l \in Bad : k <= l
    <3>1. Bad \in SUBSET Nat
      OBVIOUS
    <3> HIDE DEF Bad
    <3> QED
      BY <2>1, <3>1, LeastOf
  <2>3. k \in 0 .. N /\ ~Begins(file[N - k])
    BY <2>2
  <2>4. k # 0
    <3>1. ASSUME k = 0 PROVE Begins(file[N - k])
      <4>1. N - k = N
        BY <1>1, <3>1
      <4> QED
        BY <1>5, <4>1 DEF T
    <3> QED
      BY <2>3, <3>1
  <2> DEFINE m == N - k
             a == file[m]
             p == Printed(E[m + 1])
             b == file[m + 1]
  <2>5. m \in 0 .. N /\ m + 1 \in 1 .. N /\ m + 1 \in 0 .. N /\ m + 1 - 1 = m /\ N - (k - 1) = m + 1 /\ k - 1 \in 0 .. N
    BY <1>1, <2>3, <2>4
  <2>6. k - 1 \notin Bad
    BY <2>2, <2>3, <2>5
  <2>7. Begins(b)
    BY <2>5, <2>6
  <2>8. a \in Seq(Char) /\ p \in Seq(Char) /\ b = a \o p
    <3> HIDE DEF m
    <3>1. file[m] \in Seq(Char)
      BY <1>2, <2>5
    <3>2. Printed(E[m + 1]) \in Seq(Char)
      BY <1>3, <2>5
    <3>3. file[m + 1] = file[m] \o Printed(E[m + 1])
      <4> DEFINE j == m + 1
      <4>1. j \in 1 .. N /\ j - 1 = m
        BY <2>5
      <4> HIDE DEF j
      <4>2. file[j] = file[j - 1] \o Printed(E[j])
        BY <1>2, <4>1
      <4>3. file[j] = file[m] \o Printed(E[j])
        BY <4>1, <4>2
      <4> QED
        BY <4>3 DEF j
    <3> QED
      BY <3>1, <3>2, <3>3
  <2>9. ~Begins(a)
    BY <2>3
  <2> HIDE DEF a, p, b, m
  <2>10. Len(a) \in Nat /\ Len(p) \in Nat
    BY <2>8, LenProperties
  <2>11. /\ Len(b) = Len(a) + Len(p)
         /\ \A i \in 1 .. Len(a) + Len(p) : b[i] = IF i <= Len(a) THEN a[i] ELSE p[i - Len(a)]
    BY <2>8, ConcatProperties
  <2>12. Len(a) <= Len(T)
    BY <1>4, <2>7, <2>10, <2>11
  <2>13. ASSUME NEW i \in 1 .. Len(a) PROVE T[i] = a[i]
    <3>1. i \in 1 .. Len(a) + Len(p) /\ i <= Len(a) /\ i \in 1 .. Len(b)
      BY <2>10, <2>11
    <3> QED
      BY <2>7, <2>11, <3>1
  <2> QED
    BY <2>9, <2>12, <2>13
<1>7. Begins(file[n])
  <2> DEFINE k == N - n
  <2>1. k \in 0 .. N /\ N - k = n
    BY <1>1 DEF N
  <2>2. k \notin Bad
    BY <1>6
  <2> HIDE DEF k
  <2> QED
    BY <2>1, <2>2
<1> QED
  BY <1>7 DEF N, file, T

LEMMA PrintedType ==
  ASSUME NEW e \in Entry, Readable(e)
  PROVE  RoomFor(e) >= 0 /\ Printed(e) \in Seq(Char) /\ Len(Printed(e)) \in Nat
<1>1. RoomFor(e) >= 0
  BY DEF Readable
<1>2. Printed(e) \in Seq(Char)
  BY <1>1, PrintedIsLine DEF IsLine
<1> QED
  BY <1>1, <1>2, LenProperties

\* After n turns, the first n entries are set, and what follows their lines is to be read.
IsAt(r, E, n) ==
  LET T == Saving(E)[Len(E)]
      l == Len(Saving(E)[n])
  IN /\ Len(r.text) = Len(T) - l
     /\ \A i \in 1 .. Len(T) - l : r.text[i] = T[l + i]
     /\ Len(r.set) = n
     /\ \A i \in 1 .. n : r.set[i] = Kept(E[i])

LEMMA TurnGoesOn ==
  ASSUME NEW E \in Seq(Entry), \A i \in 1 .. Len(E) : Readable(E[i]),
         NEW n \in 1 .. Len(E), NEW r \in Read, IsAt(r, E, n - 1)
  PROVE  IsAt(Turn(r), E, n)
<1> DEFINE T == Saving(E)[Len(E)]
           a == Saving(E)[n - 1]
           b == Saving(E)[n]
           e == E[n]
           p == Printed(e)
           text == r.text
           set == r.set
           la == Len(a)
           lb == Len(b)
           lp == Len(p)
           lt == Len(T)
<1>1. e \in Entry /\ Readable(e) /\ Len(E) \in Nat
  BY ElementOfSeq, LenProperties
<1>2. p \in Seq(Char) /\ lp \in Nat
  BY <1>1, PrintedType
<1>3. \A i \in 1 .. Len(E) : RoomFor(E[i]) >= 0
  BY DEF Readable
<1>4. n - 1 \in 0 .. Len(E) /\ n \in 0 .. Len(E) /\ Len(E) \in 0 .. Len(E)
  BY <1>1
<1>5. a \in Seq(Char) /\ b \in Seq(Char) /\ T \in Seq(Char)
  BY <1>3, <1>4, SavingIs
<1>6. b = a \o p
  BY <1>3, SavingIs
<1>7. lb <= lt /\ \A i \in 1 .. lb : T[i] = b[i]
  BY <1>3, <1>4, SavingBegins
<1>8. /\ Len(text) = lt - la
      /\ \A i \in 1 .. lt - la : text[i] = T[la + i]
      /\ Len(set) = n - 1
      /\ \A i \in 1 .. n - 1 : set[i] = Kept(E[i])
  BY DEF IsAt
<1>9. text \in Seq(Char) /\ set \in Seq(Entry)
  BY DEF Read
<1>10. la \in Nat /\ lt \in Nat /\ lb \in Nat
  BY <1>5, LenProperties
<1> HIDE DEF T, a, b, p, la, lb, lp, lt, e, text, set
<1>11. lb = la + lp /\ \A i \in 1 .. la + lp : b[i] = IF i <= la THEN a[i] ELSE p[i - la]
  <2>1. Len(a) = la /\ Len(p) = lp
    BY DEF la, lp
  <2>2. Len(a \o p) = la + lp /\ \A i \in 1 .. la + lp : (a \o p)[i] = IF i <= la THEN a[i] ELSE p[i - la]
    BY <1>2, <1>5, <2>1, ConcatIs
  <2> QED
    BY <1>6, <2>2 DEF lb
<1>12. lp <= Len(text) /\ Len(text) \in Nat
  BY <1>2, <1>7, <1>8, <1>10, <1>11
<1>13. ASSUME NEW i \in 1 .. lp PROVE text[i] = p[i]
  <2> DEFINE j == la + i
  <2>1. i \in 1 .. lt - la /\ j \in 1 .. lb /\ j \in 1 .. la + lp /\ ~(j <= la) /\ j - la = i
    BY <1>2, <1>8, <1>10, <1>11, <1>12
  <2> HIDE DEF j
  <2>2. text[i] = T[j]
    BY <1>8, <2>1 DEF j
  <2>3. T[j] = b[j] /\ b[j] = p[j - la]
    BY <1>7, <1>11, <2>1
  <2> QED
    BY <2>1, <2>2, <2>3
<1>14. /\ Turn(r).text = SubSeq(text, lp + 1, Len(text))
       /\ Turn(r).set = Append(set, Kept(e))
  <2>1. p = Printed(e) /\ Len(p) <= Len(r.text) /\ \A i \in 1 .. Len(p) : r.text[i] = p[i]
    BY <1>12, <1>13 DEF p, lp, text
  <2> QED
    BY <1>1, <2>1, TurnReads DEF lp, text, set
<1>15. Turn(r).set \in Seq(Entry)
  BY TurnType DEF Read
<1> DEFINE rest == SubSeq(text, lp + 1, Len(text))
<1>16. Len(rest) = Len(text) - lp /\ \A i \in 1 .. Len(text) - lp : rest[i] = text[lp + i]
  <2>1. lp \in 0 .. Len(text)
    BY <1>2, <1>12
  <2> HIDE DEF rest
  <2> QED
    BY <1>9, <2>1, LeftOf DEF rest
<1> HIDE DEF rest
<1>17. Len(rest) = lt - lb
  BY <1>2, <1>8, <1>10, <1>11, <1>16
<1>18. ASSUME NEW i \in 1 .. lt - lb PROVE rest[i] = T[lb + i]
  <2> DEFINE j == lp + i
  <2>1. i \in 1 .. Len(text) - lp /\ j \in 1 .. lt - la /\ la + j = lb + i
    BY <1>2, <1>8, <1>10, <1>11
  <2> HIDE DEF j
  <2>2. rest[i] = text[j]
    BY <1>16, <2>1 DEF j
  <2>3. text[j] = T[la + j]
    BY <1>8, <2>1
  <2> QED
    BY <2>1, <2>2, <2>3
<1> DEFINE more == Append(set, Kept(e))
<1>19. Len(more) = n /\ \A i \in 1 .. n : more[i] = Kept(E[i])
  <2> DEFINE c == Kept(e)
  <2>1. Len(Append(set, c)) = Len(set) + 1
        /\ \A i \in 1 .. Len(set) + 1 : Append(set, c)[i] = IF i <= Len(set) THEN set[i] ELSE c
    <3>1. set \in Seq(Entry \cup {c})
      <4>1. Entry \subseteq Entry \cup {c}
        OBVIOUS
      <4> HIDE DEF c
      <4> QED
        BY <1>9
    <3>2. c \in Entry \cup {c}
      OBVIOUS
    <3> HIDE DEF c
    <3> QED
      BY <3>1, <3>2, AppendProperties
  <2>2. Len(set) = n - 1 /\ n - 1 + 1 = n
    BY <1>1, <1>8
  <2> HIDE DEF c
  <2>3. Len(Append(set, c)) = n /\ \A i \in 1 .. n : Append(set, c)[i] = IF i <= n - 1 THEN set[i] ELSE c
    BY <2>1, <2>2
  <2>4. ASSUME NEW i \in 1 .. n PROVE Append(set, c)[i] = Kept(E[i])
    <3>1. CASE i \in 1 .. n - 1
      <4>1. i <= n - 1
        BY <3>1
      <4> QED
        BY <1>8, <2>3, <3>1, <4>1
    <3>2. CASE i \notin 1 .. n - 1
      <4>1. i = n /\ ~(i <= n - 1)
        BY <3>2
      <4>2. c = Kept(E[i])
        BY <4>1 DEF c, e
      <4> QED
        BY <2>3, <4>1, <4>2
    <3> QED
      BY <3>1, <3>2
  <2> QED
    BY <2>3, <2>4 DEF c
<1> HIDE DEF more
<1>20. Turn(r).text = rest /\ Turn(r).set = more
  BY <1>14 DEF rest, more
<1>21. /\ Len(rest) = lt - lb
       /\ \A i \in 1 .. lt - lb : rest[i] = T[lb + i]
       /\ Len(more) = n
       /\ \A i \in 1 .. n : more[i] = Kept(E[i])
  BY <1>17, <1>18, <1>19
<1> QED
  BY <1>20, <1>21 DEF IsAt, T, b, lb, lt

LEMMA AllAreRead ==
  ASSUME NEW E \in Seq(Entry), \A i \in 1 .. Len(E) : Readable(E[i])
  PROVE  config_fetch(config_save(E)) = [i \in DOMAIN E |-> Kept(E[i])]
<1> DEFINE N == Len(E)
           T == Saving(E)[N]
           f == Fetching(T)
           lt == Len(T)
<1>1. N \in Nat /\ DOMAIN E = 1 .. N
  BY LenProperties
<1>2. \A i \in 1 .. N : RoomFor(E[i]) >= 0
  BY DEF Readable
<1>3. T \in Seq(Char) /\ lt >= N /\ lt \in Nat
  <2>1. N \in 0 .. N
    BY <1>1
  <2>2. T \in Seq(Char) /\ lt >= N
    BY <1>2, <2>1, SavingIs
  <2> QED
    BY <2>2, LenProperties
<1>4. /\ \A n \in Nat : f[n] \in Read
      /\ f[0] = [text |-> T, set |-> <<>>]
      /\ \A n \in Nat \ {0} : f[n] = Turn(f[n - 1])
  BY <1>3, FetchingIs
<1>5. config_fetch(config_save(E)) = f[lt].set
  BY DEF config_fetch, config_save
<1> HIDE DEF f, T, lt, N
<1>6. IsAt(f[0], E, 0)
  <2>1. Saving(E)[0] = <<>>
    BY <1>2, SavingIs DEF N
  <2>2. Len(Saving(E)[0]) = 0 /\ Saving(E)[Len(E)] = T /\ Len(T) = lt
    BY <2>1 DEF T, N, lt
  <2>3. /\ lt = lt - 0 /\ \A i \in 1 .. lt - 0 : T[i] = T[0 + i]
        /\ Len(<<>>) = 0
    BY <1>3
  <2>4. f[0].text = T /\ f[0].set = <<>>
    BY <1>4
  <2>5. \A i \in 1 .. 0 : f[0].set[i] = Kept(E[i])
    OBVIOUS
  <2> QED
    BY <2>2, <2>3, <2>4, <2>5 DEF IsAt
<1>7. IsAt(f[N], E, N)
  <2> DEFINE Bad == {n \in 0 .. N : ~IsAt(f[n], E, n)}
  <2>1. SUFFICES ASSUME Bad # {} PROVE FALSE
    BY <1>1
  <2>2. PICK n \in Bad : \A k \in Bad : n <= k
    <3>1. Bad \in SUBSET Nat
      OBVIOUS
    <3> HIDE DEF Bad
    <3> QED
      BY <2>1, <3>1, LeastOf
  <2>3. n \in 0 .. N /\ ~IsAt(f[n], E, n)
    BY <2>2
  <2>4. n # 0
    BY <1>6, <2>3
  <2>5. n \in 1 .. N /\ n - 1 \in 0 .. N /\ n - 1 \in Nat /\ n \in Nat \ {0}
    BY <1>1, <2>3, <2>4
  <2>6. IsAt(f[n - 1], E, n - 1)
    <3>1. ~(n <= n - 1)
      BY <2>5
    <3>2. n - 1 \notin Bad
      BY <2>2, <3>1
    <3> QED
      BY <2>5, <3>2
  <2>7. f[n - 1] \in Read /\ f[n] = Turn(f[n - 1])
    BY <1>4, <2>5
  <2>8. IsAt(Turn(f[n - 1]), E, n)
    <3> DEFINE r == f[n - 1]
    <3>1. r \in Read /\ IsAt(r, E, n - 1) /\ n \in 1 .. Len(E)
      BY <2>5, <2>6, <2>7 DEF N
    <3> HIDE DEF r
    <3>2. IsAt(Turn(r), E, n)
      BY <3>1, TurnGoesOn
    <3> QED
      BY <3>2 DEF r
  <2> QED
    BY <2>3, <2>7, <2>8
<1>8. f[N].text = <<>>
  <2>1. Len(f[N].text) = lt - lt
    BY <1>7 DEF IsAt, T, lt, N
  <2>2. f[N].text \in Seq(Char)
    BY <1>1, <1>4 DEF Read
  <2>3. lt - lt = 0
    BY <1>3
  <2> QED
    BY <2>1, <2>2, <2>3, EmptySeq
<1>9. f[lt] = f[N]
  <2> DEFINE Bad == {n \in Nat : n >= N /\ f[n] # f[N]}
  <2>1. SUFFICES ASSUME Bad # {} PROVE FALSE
    BY <1>3
  <2>2. PICK n \in Bad : \A k \in Bad : n <= k
    <3>1. Bad \in SUBSET Nat
      OBVIOUS
    <3> HIDE DEF Bad
    <3> QED
      BY <2>1, <3>1, LeastOf
  <2>3. n \in Nat /\ n >= N /\ f[n] # f[N]
    BY <2>2
  <2>4. n # N
    BY <2>3
  <2>5. n - 1 \in Nat /\ n - 1 >= N /\ n \in Nat \ {0} /\ ~(n <= n - 1)
    BY <1>1, <2>3, <2>4
  <2>6. n - 1 \notin Bad
    BY <2>2, <2>5
  <2>7. f[n - 1] = f[N]
    BY <2>5, <2>6
  <2>8. f[n] = Turn(f[N])
    BY <1>4, <2>5, <2>7
  <2>9. f[N] \in Read
    BY <1>1, <1>4
  <2> QED
    BY <1>8, <2>3, <2>8, <2>9, TurnRests
<1> DEFINE s == f[N].set
<1>10. s \in Seq(Entry) /\ Len(s) = N /\ \A i \in 1 .. N : s[i] = Kept(E[i])
  <2>1. f[N] \in Read
    BY <1>1, <1>4
  <2> QED
    BY <1>7, <2>1 DEF IsAt, Read
<1> HIDE DEF s
<1>11. s = [i \in 1 .. N |-> Kept(E[i])]
  <2>1. s \in [1 .. N -> Entry]
    BY <1>10, LenProperties
  <2> QED
    BY <1>10, <2>1
<1> QED
  BY <1>1, <1>5, <1>9, <1>11 DEF s

\* Rereads: whatever the user wrote, and for lines of any length, config_fetch reads of
\* what config_save writes the entries that were saved, as far as lines hold them.
THEOREM TextIsReread == Rereads
<1>1. ASSUME NEW text \in Inputs PROVE config_fetch(text) \in Seq(Entry)
  <2>1. text \in Seq(Char)
    BY ConfigTextAssumption
  <2>2. Len(text) \in Nat
    BY <2>1, LenProperties
  <2>3. Fetching(text)[Len(text)] \in Read
    BY <2>1, <2>2, FetchingIs
  <2> QED
    BY <2>3 DEF config_fetch, Read
<1>2. ASSUME NEW E \in Seq(Entry), \A i \in DOMAIN E : Readable(E[i])
      PROVE  config_fetch(config_save(E)) = [i \in DOMAIN E |-> Kept(E[i])]
  <2>1. DOMAIN E = 1 .. Len(E)
    BY LenProperties
  <2>2. \A i \in 1 .. Len(E) : Readable(E[i])
    BY <1>2, <2>1
  <2> QED
    BY <2>2, AllAreRead
<1> QED
  BY <1>1, <1>2 DEF Rereads

\* SavedIsReread: when config_save writes, it writes what the next boot reads.
THEOREM RereadsAlways == Spec => []SavedIsReread
<1>1. SavedIsReread
  BY TextIsReread DEF SavedIsReread
<1> QED
  BY <1>1, PTL
=============================================================================
