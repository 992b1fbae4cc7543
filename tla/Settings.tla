------------------------------ MODULE Settings ------------------------------
(***************************************************************************)
(* config.c and what becomes of config.txt.  The firmware reads the file   *)
(* at boot, writes it back with the defaults added, and rereads it when    *)
(* its timestamp changes; the USB host edits it, sector by sector and      *)
(* chunk by chunk, whenever the firmware sleeps.  Power may fail, and      *)
(* memory may run out: realloc and usbfs_open then give NULL.              *)
(***************************************************************************)
EXTENDS Integers, Sequences

CONSTANTS
  Name, Value,
  Stored,       \* Stored[n] is what config_t keeps of the name n: 31 characters
  Defaults,     \* default_config, a sequence of lines
  Needed,       \* the names that update_from_config makes a std::string of
  Files,        \* what the user makes of config.txt, sequences of lines
  CountMod,     \* the modulus of m_config_count (256)
  Block,        \* entries that memory is asked for at a time (5)
  Chunk,        \* lines in the 512 bytes that TinyUSB passes on at a time
  MaxStamp,     \* bound on the host's clock
  Orderly,      \* does the host write an entry after its data, and stamp each
                \*   edit anew?
  CutSave       \* may power fail while the firmware writes the file?

Line == [name : Name, value : Value]

ASSUME SettingsAssumption ==
  /\ Stored \in [Name -> Name]
  /\ Defaults \in Seq(Line)
  /\ Needed \subseteq Name
  /\ Files \subseteq Seq(Line)
  /\ CountMod \in Nat \ {0} /\ Block \in Nat \ {0} /\ Chunk \in Nat /\ MaxStamp \in Nat \ {0}
  /\ Orderly \in BOOLEAN /\ CutSave \in BOOLEAN

VARIABLES
  pc,                  \* where main.cpp is
  line,                \* the line, or default, to be set next
  settings,            \* m_config_settings[0 .. m_config_count - 1]
  used,                \* settings when main.cpp last took its copies of them
  m_config_timestamp,
  dir,                 \* flash: the directory entry of config.txt
  data,                \* flash: the data sector of config.txt
  clock,               \* the timestamp the host last gave
  host,                \* the host's edit in progress
  \* These three are not the program's.
  user,                \* the file as the user means it to be
  starved,             \* has memory run out since the boot, or the last change
                       \*   of the file, was noticed?
  spoiled              \* has the firmware, starved, since written the file anew?

progVars == <<pc, line, settings, used, m_config_timestamp, starved>>
hostVars == <<clock, host, user, spoiled>>
vars == <<progVars, dir, data, hostVars>>

Least(a, b) == IF a <= b THEN a ELSE b

\* usbfs_timestamp of a file that is not there is 0; FatFs, without a clock
\* (FF_FS_NORTC), stamps what the firmware writes 2022-01-01.
NoFile == [stamp |-> 0, size |-> 0]
Fixed == 1

Idle == [file |-> <<>>, stamp |-> 0, todo |-> {}]

\* The lines that a reader gets: the entry's size cuts the data off.  What lies
\* beyond the data is erased flash, which has no colon.
TextLen == Least(dir.size, Len(data))

Init ==
  /\ pc = "defaults" /\ line = 1
  /\ settings = <<>> /\ used = <<>>
  /\ m_config_timestamp = 0
  /\ dir = NoFile /\ data = <<>>
  /\ clock = Fixed /\ host = Idle /\ user = <<>>
  /\ starved = FALSE /\ spoiled = FALSE

------------------------------------------------------------------------------
(* config.c *)

\* The first entry with a name is its entry.
IsEntry(t, i, name) == t[i].name = name /\ \A j \in 1 .. i - 1 : t[j].name # name

\* config_get(name) is NULL, or gives this value.
Unset(t, name) == \A i \in 1 .. Len(t) : t[i].name # name
Holds(t, l) == \E i \in 1 .. Len(t) : IsEntry(t, i, l.name) /\ t[i].value = l.value

\* One more entry.  Every Block entries this takes memory, and without it the
\* entry is left out; the 8-bit count wraps, and then all entries are forgotten.
AddEntry(t, l, memory) ==
  IF Len(t) % Block = 0 /\ ~memory
  THEN t
  ELSE IF Len(t) + 1 = CountMod
  THEN <<>>
  ELSE Append(t, [name |-> Stored[l.name], value |-> l.value])

\* config_set
config_set_KeepsFirst(t, l, memory) ==
  IF Unset(t, l.name) THEN AddEntry(t, l, memory) ELSE t
config_set_Appends(t, l, memory) == AddEntry(t, l, memory)
config_set(t, l, memory) ==
  IF Unset(t, l.name)
  THEN AddEntry(t, l, memory)
  ELSE [i \in 1 .. Len(t) |->
          IF IsEntry(t, i, l.name) THEN [t[i] EXCEPT !.value = l.value] ELSE t[i]]

\* config_set calls realloc for this line, which may fail.
Asks(t, l) == Unset(t, l.name) /\ Len(t) % Block = 0

Set(l) ==
  \E memory \in {TRUE, ~Asks(settings, l)} :
    /\ settings' = config_set(settings, l, memory)
    /\ starved' = (starved \/ ~memory)

DefaultsLeft_OneShort == line < Len(Defaults)
DefaultsLeft == line <= Len(Defaults)

\* config_load, the loop over the defaults.
SetDefault ==
  /\ pc = "defaults" /\ DefaultsLeft
  /\ Set(Defaults[line])
  /\ line' = line + 1
  /\ UNCHANGED <<pc, used, m_config_timestamp, dir, data, hostVars>>

\* config_load, after it.
TakeTimestamp_SavesFirst ==
  /\ pc = "defaults" /\ ~DefaultsLeft
  /\ m_config_timestamp' = dir.stamp
  /\ pc' = "save" /\ line' = 1
  /\ UNCHANGED <<settings, used, starved, dir, data, hostVars>>
TakeTimestamp ==
  /\ pc = "defaults" /\ ~DefaultsLeft
  /\ m_config_timestamp' = dir.stamp
  /\ pc' = "load" /\ line' = 1
  /\ UNCHANGED <<settings, used, starved, dir, data, hostVars>>

\* config_fetch, one round of its loop; nothing runs meanwhile.
FetchLine ==
  /\ pc \in {"load", "fetch"} /\ line <= TextLen
  /\ Set(data[line])
  /\ line' = line + 1
  /\ UNCHANGED <<pc, used, m_config_timestamp, dir, data, hostVars>>

EndFetch_SaysUnchanged ==
  /\ pc \in {"load", "fetch"} /\ line > TextLen
  /\ pc' = IF pc = "load" THEN "save" ELSE "sleep"
  /\ UNCHANGED <<line, settings, used, m_config_timestamp, starved, dir, data, hostVars>>
EndFetch ==
  /\ pc \in {"load", "fetch"} /\ line > TextLen
  /\ pc' = IF pc = "load" THEN "save" ELSE "update"
  /\ UNCHANGED <<line, settings, used, m_config_timestamp, starved, dir, data, hostVars>>

\* usbfs_open returns NULL, for want of memory, and no line of the file is read.
\* The stamp has been recorded all the same.
FetchFails ==
  /\ pc \in {"load", "fetch"} /\ line = 1 /\ TextLen > 0
  /\ pc' = IF pc = "load" THEN "save" ELSE "update"
  /\ starved' = TRUE
  /\ UNCHANGED <<line, settings, used, m_config_timestamp, dir, data, hostVars>>

\* config_save opens the file, which empties it.
OpenToSave ==
  /\ pc = "save"
  /\ dir' = [stamp |-> Fixed, size |-> 0]
  /\ pc' = "write"
  /\ spoiled' = (spoiled \/ starved)
  /\ UNCHANGED <<line, settings, used, m_config_timestamp, starved, data, clock, host, user>>

\* usbfs_open returns NULL (no memory, a read-only file); nobody looks at that.
SaveFails ==
  /\ pc = "save"
  /\ pc' = "update"
  /\ UNCHANGED <<line, settings, used, m_config_timestamp, starved, dir, data, hostVars>>

\* All lines fit FatFs's buffer of a sector, which usbfs_close writes first ...
WriteData ==
  /\ pc = "write"
  /\ data' = settings
  /\ pc' = "close"
  /\ UNCHANGED <<line, settings, used, m_config_timestamp, starved, dir, hostVars>>

\* ... and the directory entry last.
WriteEntry ==
  /\ pc = "close"
  /\ dir' = [stamp |-> Fixed, size |-> Len(data)]
  /\ pc' = "update"
  /\ UNCHANGED <<line, settings, used, m_config_timestamp, starved, data, hostVars>>

\* config_check, when it is due and the timestamp has changed.  When it has not
\* changed the check does nothing.
config_check ==
  /\ pc = "sleep"
  /\ dir.stamp # m_config_timestamp
  /\ m_config_timestamp' = dir.stamp
  /\ pc' = "fetch" /\ line' = 1 /\ starved' = FALSE
  /\ UNCHANGED <<settings, used, dir, data, hostVars>>

\* update_from_config copies what the program uses; std::string(NULL) throws.
UpdateFromConfig ==
  /\ pc = "update"
  /\ used' = settings
  /\ pc' = IF \E n \in Needed : Unset(settings, n) THEN "halted" ELSE "sleep"
  /\ UNCHANGED <<line, settings, m_config_timestamp, starved, dir, data, hostVars>>

Program ==
  \/ SetDefault \/ TakeTimestamp \/ FetchLine \/ EndFetch \/ FetchFails
  \/ OpenToSave \/ SaveFails \/ WriteData \/ WriteEntry
  \/ config_check \/ UpdateFromConfig

------------------------------------------------------------------------------
(* The USB host; tud_task runs when the program sleeps, and only then. *)

\* The user edits the file; the host is to write two sectors.
HostEdit(f) ==
  /\ pc = "sleep" /\ host = Idle
  /\ clock' \in {clock, clock + 1} /\ clock' <= MaxStamp
  /\ clock' > IF Orderly THEN clock ELSE Fixed
  /\ host' = [file |-> f, stamp |-> clock', todo |-> {"first", "rest", "entry"}]
  /\ UNCHANGED <<progVars, dir, data, user, spoiled>>

\* tud_msc_write10_cb, for a chunk of the data sector or for the directory's.
\* The first chunk erases the sector.
HostWrite(part) ==
  /\ pc = "sleep" /\ part \in host.todo
  /\ part = "rest" => "first" \notin host.todo
  /\ part = "entry" /\ Orderly => host.todo = {"entry"}
  /\ data' = CASE part = "first" -> SubSeq(host.file, 1, Least(Chunk, Len(host.file)))
               [] part = "rest" -> host.file
               [] part = "entry" -> data
  /\ dir' = IF part = "entry" THEN [stamp |-> host.stamp, size |-> Len(host.file)] ELSE dir
  /\ IF host.todo = {part}
     THEN host' = Idle /\ user' = host.file /\ spoiled' = FALSE
     ELSE host' = [host EXCEPT !.todo = @ \ {part}] /\ UNCHANGED <<user, spoiled>>
  /\ UNCHANGED <<progVars, clock>>

HostDelete ==
  /\ pc = "sleep" /\ host = Idle /\ dir # NoFile
  /\ dir' = NoFile /\ user' = <<>> /\ spoiled' = FALSE
  /\ UNCHANGED <<progVars, data, clock, host>>

\* Power fails, or the watchdog bites.  Of an edit in progress there remains
\* what has been written.
Reset ==
  /\ pc \in {"write", "close"} => CutSave
  /\ pc' = "defaults" /\ line' = 1
  /\ settings' = <<>> /\ used' = <<>> /\ m_config_timestamp' = 0
  /\ host' = Idle
  /\ user' = IF host = Idle THEN user ELSE SubSeq(data, 1, TextLen)
  /\ starved' = FALSE
  /\ spoiled' = (spoiled /\ host = Idle)
  /\ UNCHANGED <<dir, data, clock>>

Host ==
  \/ \E f \in Files : HostEdit(f)
  \/ \E part \in {"first", "rest", "entry"} : HostWrite(part)
  \/ HostDelete

Next == Program \/ Host \/ Reset

Spec == Init /\ [][Next]_vars
FairSpec == Spec /\ WF_vars(Program)

------------------------------------------------------------------------------
(* Properties *)

Parts == {"first", "rest", "entry"}

TypeOK ==
  /\ pc \in {"defaults", "load", "save", "write", "close", "update", "sleep",
             "fetch", "halted"}
  /\ line \in Nat \ {0}
  /\ settings \in Seq(Line) /\ used \in Seq(Line) /\ data \in Seq(Line)
  /\ m_config_timestamp \in 0 .. MaxStamp /\ clock \in Fixed .. MaxStamp
  /\ dir \in [stamp : 0 .. MaxStamp, size : Nat]
  /\ host \in [file : Seq(Line), stamp : 0 .. MaxStamp, todo : SUBSET Parts]
  /\ user \in Seq(Line)
  /\ starved \in BOOLEAN /\ spoiled \in BOOLEAN

\* The last line of a text with its name, which is the one that counts.
IsLast(t, len, i) == \A j \in i + 1 .. len : t[j].name # t[i].name

\* config_set keeps one entry for each name: what a line changes is what
\* config_get gives, and the table does not grow with every reload.
UniqueNames ==
  \A i, j \in 1 .. Len(settings) : settings[i].name = settings[j].name => i = j

\* The defaults and the entries of the file never leave update_from_config
\* without a name it needs, so that it never makes a std::string of NULL: only a
\* default that there was no memory for can.
NeverHalted == pc = "halted" => starved

\* config.c:214: config_check "looks to see if the configuration file has changed
\* since the last time it was read".  A file whose timestamp has been recorded
\* has been read, every line of it, and is what main.cpp uses: no later check
\* will look at it again.  This needs an orderly host, and memory for that
\* reading: the timestamp is recorded before the file is opened.
StampMeansRead ==
  pc = "sleep" /\ host = Idle /\ dir.stamp = m_config_timestamp /\ ~starved =>
    \A i \in 1 .. TextLen : IsLast(data, TextLen, i) => Holds(used, data[i])

\* What the user wrote into the file is still there, whatever boots have since
\* written it anew, unless one of them had no memory to read it first.
UserKept ==
  pc = "sleep" /\ host = Idle /\ ~spoiled =>
    \A i \in 1 .. Len(user) : IsLast(user, Len(user), i) =>
      \E j \in 1 .. TextLen : data[j] = user[i] /\ IsLast(data, TextLen, j)

\* The program ends up with what the user wrote, unless the user goes on editing,
\* power goes on failing, or there was no memory to read it.
UserFollowed ==
  \/ []<>(host # Idle)
  \/ []<>(pc = "defaults")
  \/ []<>(starved \/ spoiled)
  \/ []<>(\A i \in 1 .. Len(user) : IsLast(user, Len(user), i) => Holds(used, user[i]))
=============================================================================
