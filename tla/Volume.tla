------------------------------- MODULE Volume --------------------------------
(***************************************************************************)
(* The flash that the firmware and the USB host share: storage.c and       *)
(* diskio.c below, FatFs and TinyUSB beside each other on top, usbfs.c and *)
(* usb.c over them, and the two who use those: config.c, and the host.     *)
(***************************************************************************)
EXTENDS FatFs, SequencesExt, Functions

CONSTANTS
  Config,       \* the name of the configuration file
  Defaults,     \* the text that config_save makes of the defaults alone
  Edits,        \* what the host's user makes of a file: [file, text]
  ChunkSlots,   \* directory entries in the 512 bytes that TinyUSB passes on at a time
  Orderly,      \* does the host write an entry after what it refers to?
  Absent,       \* the contents of a file that is not there
  MaxText,      \* bound on the sectors of a file
  MaxEdits,     \* bound on the edits
  MaxResets     \* bound on the resets

ASSUME VolumeAssumption ==
  /\ Config \in File
  /\ Defaults \in Seq(Unit) /\ Defaults # <<>>
  /\ Edits \subseteq [file : File, text : Seq(Unit)]
  /\ ChunkSlots \in SlotIndex /\ MaxEdits \in Nat /\ MaxText \in Nat /\ MaxResets \in Nat
  /\ Orderly \in BOOLEAN

VARIABLES
  flash,               \* its sectors
  erased,              \* has the sector of the next write been erased?
  out,                 \* writes that FatFs has asked for
  fs,                  \* m_fatfs
  fp,                  \* the file being saved
  pc,                  \* where the firmware is
  text,                \* what config_save would write
  pos,                 \* sectors of it written
  had,                 \* sectors of the file that was loaded, until it is saved
  full,                \* has a write found no free cluster?
  m_config_timestamp,
  unread,              \* is the file unread, for want of memory when it was to be?
  m_mounted, m_fs_changed,
  host,                \* the host: its state, its cached tables, and its writes to come
  edits,               \* how many it has made
  resets,              \* how often the program has begun again
  saved                \* is what config_save wrote still to be there?

diskVars == <<flash, erased, out>>
progVars == <<pc, text, pos, had, full, saved, unread, m_config_timestamp>>
usbVars == <<m_mounted, m_fs_changed>>
hostVars == <<host, edits, resets>>
vars == <<diskVars, fs, fp, progVars, usbVars, hostVars>>

Detached == [state |-> "detached", next |-> NextIn(Erased), slots |-> <<>>, todo |-> <<>>,
             half |-> FALSE]

Init ==
  /\ flash = [s \in 0 .. Sectors - 1 |-> Erased]
  /\ erased = FALSE /\ out = <<>>
  /\ fs = Unmounted /\ fp = NoFile
  /\ pc = "init" /\ text = Defaults /\ pos = 0 /\ had = 0 /\ full = FALSE
  /\ saved = FALSE /\ unread = FALSE
  /\ m_config_timestamp = 0
  /\ m_mounted = TRUE /\ m_fs_changed = FALSE
  /\ host = Detached /\ edits = 0 /\ resets = 0

------------------------------------------------------------------------------
(* storage.c: a sector is erased, then programmed; power may fail between. *)

EraseSector ==
  /\ out # <<>> /\ ~erased
  /\ flash' = [flash EXCEPT ![Head(out).sect] = Erased]
  /\ erased' = TRUE
  /\ UNCHANGED <<out, fs, fp, progVars, usbVars, hostVars>>

ProgramSector ==
  /\ erased
  /\ flash' = [flash EXCEPT ![Head(out).sect] = Head(out).content]
  /\ erased' = FALSE /\ out' = Tail(out)
  /\ UNCHANGED <<fs, fp, progVars, usbVars, hostVars>>

------------------------------------------------------------------------------
(* usbfs.c and config.c.  A call computes the writes it asks for, and the  *)
(* next begins when they are done.                                         *)

At_pc(place) == pc = place /\ out = <<>>
ThisDrive == Drive(fs, flash)
Leaves(v) == fs' = FsOf(v) /\ out' = v.out /\ UNCHANGED <<flash, erased>>

\* usbfs_init mounts, and formats what it cannot mount.
MountAtBoot ==
  /\ At_pc("init")
  /\ \E v \in {f_mount(ThisDrive)} :
       Leaves(v) /\ pc' = IF v.type = 0 THEN "format" ELSE "load"
  /\ UNCHANGED <<fp, text, pos, had, full, saved, unread, m_config_timestamp, usbVars, hostVars>>

\* Of l_options only fmt is set; the number of tables is what the stack held, and so
\* are the sizes that f_mkfs may refuse.
Format ==
  /\ At_pc("format")
  /\ \E n_fats \in {1, 2} : Leaves(f_mkfs(ThisDrive, n_fats))
  /\ pc' = "label"
  /\ UNCHANGED <<fp, text, pos, had, full, saved, unread, m_config_timestamp, usbVars, hostVars>>

FormatFails ==
  /\ At_pc("format")
  /\ pc' = "load"
  /\ UNCHANGED <<diskVars, fs, fp, text, pos, had, full, saved, unread, m_config_timestamp,
                 usbVars, hostVars>>

LabelAndMount ==
  /\ At_pc("label")
  /\ Leaves(f_mount(f_setlabel(ThisDrive)))
  /\ pc' = "load"
  /\ UNCHANGED <<fp, text, pos, had, full, saved, unread, m_config_timestamp, usbVars, hostVars>>

\* usbfs_timestamp mounts anew each time, as the host writes past the window.
Remounted_NotAtAll(v) == v
Remounted(v) == f_mount(v)
usbfs_timestamp(v) == f_stat(Remounted(v), Config)

\* The lines that config_fetch reads: erased flash has none.
Words(read) == LET data == SelectSeq(read, LAMBDA s : s # Erased)
               IN [i \in 1 .. Len(data) |-> data[i].unit]

\* What may become of it: without memory for a FIL usbfs_open gives NULL, and the
\* file is left unread.
config_fetch(v) ==
  LET Read(o) == IF o.fp.slot = NoSlot THEN [v |-> o.v, text |-> <<>>] ELSE f_read(o.v, o.fp)
      Result(w, t, left) == [v |-> w, text |-> t, unread |-> left]
  IN UNION {{Result(all.v, all.text, FALSE), Result(v, <<>>, all.text # <<>>)} :
              all \in {Read(f_open(v, Config))}}

config_load ==
  /\ At_pc("load")
  /\ \E s \in {usbfs_timestamp(ThisDrive)} : \E r \in config_fetch(s.v) :
       /\ Leaves(r.v) /\ unread' = r.unread
       /\ m_config_timestamp' = s.stamp
       /\ had' = Len(r.text)
       /\ text' = IF Words(r.text) = <<>> THEN Defaults ELSE Words(r.text)
  /\ pc' = "save"
  /\ UNCHANGED <<fp, pos, full, saved, usbVars, hostVars>>

\* config_save, first its usbfs_open.
OpenToSave ==
  /\ At_pc("save")
  /\ \E o \in {f_create(ThisDrive, Config)} :
       Leaves(o.v) /\ fp' = o.fp /\ pc' = IF o.fp.slot = NoSlot THEN "sleep" ELSE "puts"
  /\ pos' = 0
  /\ UNCHANGED <<text, had, full, saved, unread, m_config_timestamp, usbVars, hostVars>>

\* Nor does it go on when there is no memory for a FIL.
NoMemory ==
  /\ At_pc("save")
  /\ pc' = "sleep" /\ had' = 0
  /\ UNCHANGED <<diskVars, fs, fp, text, pos, full, saved, unread, m_config_timestamp,
                 usbVars, hostVars>>

\* A failed usbfs_puts does not end the loop.
SaveUnit ==
  /\ At_pc("puts") /\ pos < Len(text)
  /\ \E w \in {f_write(ThisDrive, fp, text[pos + 1])} :
       Leaves(w.v) /\ fp' = w.fp /\ full' = (full \/ ~w.ok)
  /\ pos' = pos + 1
  /\ UNCHANGED <<pc, text, had, saved, unread, m_config_timestamp, usbVars, hostVars>>

\* usbfs_close tells the host, if anything was written.
CloseSaved ==
  /\ At_pc("puts") /\ pos = Len(text)
  /\ Leaves(f_close(ThisDrive, fp))
  /\ m_fs_changed' = (m_fs_changed \/ fp.objsize > 0)
  /\ fp' = NoFile
  /\ pc' = "sleep"
  /\ pos' = 0 /\ had' = 0
  /\ saved' = ~full /\ unread' = FALSE
  /\ UNCHANGED <<text, full, m_config_timestamp, m_mounted, hostVars>>

\* config_check, when it is due.
AfterFetch_SavesToo == "save"
AfterFetch == "sleep"
config_check ==
  /\ At_pc("sleep")
  /\ \E s \in {usbfs_timestamp(ThisDrive)} :
       IF s.stamp = m_config_timestamp
       THEN Leaves(s.v) /\ UNCHANGED <<pc, text, unread, m_config_timestamp>>
       ELSE \E r \in config_fetch(s.v) :
              /\ Leaves(r.v) /\ unread' = r.unread
              /\ m_config_timestamp' = s.stamp
              /\ text' = IF Words(r.text) = <<>> THEN text ELSE Words(r.text)
              /\ pc' = AfterFetch
  /\ UNCHANGED <<fp, pos, had, full, saved, usbVars, hostVars>>

Firmware ==
  \/ EraseSector \/ ProgramSector
  \/ MountAtBoot \/ Format \/ FormatFails \/ LabelAndMount
  \/ config_load \/ OpenToSave \/ NoMemory \/ SaveUnit \/ CloseSaved \/ config_check

------------------------------------------------------------------------------
(* usb.c and the host.  TinyUSB runs while the firmware sleeps, only then. *)

Served == At_pc("sleep")

\* The positions of tables and directory, from the boot sector.
Layout(f) == [n_fats |-> IF f[0] = Erased THEN 1 ELSE f[0].n_fats]
TableOf(f) == NextIn(f[fatbase])
SlotOf(f, s) == SlotsIn(f[SlotSect(Layout(f), s)])[s % SectorSlots]
SlotsOf(f) == [s \in RootSlot |-> SlotOf(f, s)]

\* tud_mount_cb
Enumerate ==
  /\ Served /\ host.state = "detached"
  /\ m_mounted' = TRUE
  /\ host' = [host EXCEPT !.state = "polling"]
  /\ UNCHANGED <<diskVars, fs, fp, progVars, m_fs_changed, edits, resets>>

\* tud_msc_test_unit_ready_cb; the host reads the tables of a medium that is ready.
NotReady_Sticks == m_fs_changed' = m_fs_changed
NotReady == m_fs_changed' = FALSE
TestUnitReady ==
  /\ Served /\ host.state \in {"polling", "mounted"}
  /\ IF m_fs_changed \/ ~m_mounted
     THEN /\ NotReady
          /\ host' = [Detached EXCEPT !.state = "polling"]
     ELSE /\ host.state = "polling" /\ flash[0] # Erased
          /\ host' = [host EXCEPT !.state = "mounted", !.next = TableOf(flash),
                                  !.slots = SlotsOf(flash)]
          /\ UNCHANGED m_fs_changed
  /\ UNCHANGED <<diskVars, fs, fp, progVars, m_mounted, edits, resets>>

\* tud_msc_start_stop_cb: an ejection is remembered, a load is not.
Eject ==
  /\ Served /\ host.state = "mounted" /\ host.todo = <<>>
  /\ m_mounted' = FALSE
  /\ host' = [Detached EXCEPT !.state = "ejected"]
  /\ UNCHANGED <<diskVars, fs, fp, progVars, m_fs_changed, edits, resets>>

Load ==
  /\ Served /\ host.state = "ejected"
  /\ host' = [host EXCEPT !.state = "polling"]
  /\ UNCHANGED <<diskVars, fs, fp, progVars, usbVars, edits, resets>>

\* tud_umount_cb; the host forgets what it had not written.
Unplug ==
  /\ Served /\ host.state # "detached"
  /\ m_mounted' = FALSE
  /\ host' = Detached
  /\ UNCHANGED <<diskVars, fs, fp, progVars, m_fs_changed, edits, resets>>

\* The first n clusters that are free.
FirstFree(v, next, n) ==
  LET free == {c \in Cluster : IsLink(v, c) /\ next[c] = 0}
  IN {clusts \in [1 .. n -> free] :
        /\ \A i, j \in 1 .. n : i < j => clusts[i] < clusts[j]
        /\ \A i \in 1 .. n, c \in free : c < clusts[i] => \E j \in 1 .. n : clusts[j] = c}
Write(sect, content) == [sect |-> sect, content |-> content]
Tables(v, next) == [i \in 1 .. v.n_fats |-> Write(fatbase + i - 1, Table(next))]
SlotFor(slots, name) ==
  LET S(names) == {s \in RootSlot : slots[s].name \in names}
      all == IF S({name}) # {} THEN S({name}) ELSE S({Ended, Deleted})
  IN IF all = {} THEN NoSlot ELSE CHOOSE s \in all : \A t \in all : s <= t

\* The sectors that a change of a file writes: its new clusters, the table with
\* those and the old, the entry, the table without the old.
Change(v, h, name, new, entry, clusts) ==
  LET slot == SlotFor(h.slots, name)
      old == IF h.slots[slot].name = name THEN Chain(v, h.next, h.slots[slot].clust) ELSE {}
      both == [c \in Cluster |->
                 IF \E i \in 1 .. Len(new) : clusts[i] = c
                 THEN LET i == CHOOSE i \in 1 .. Len(new) : clusts[i] = c
                      IN IF i = Len(new) THEN Eoc ELSE clusts[i + 1]
                 ELSE h.next[c]]
      next == Without(both, old)
      first == IF new = <<>> THEN 0 ELSE clusts[1]
      slots == [h.slots EXCEPT ![slot] = [entry EXCEPT !.clust = first]]
      sect == SlotSect(v, slot)
      inSect == Entries([i \in SlotIndex |-> slots[(sect - dirbase(v)) * SectorSlots + i]])
      writes == [i \in 1 .. Len(new) |-> Write(clst2sect(v, clusts[i]), Data(new[i]))]
                \o (IF new = <<>> THEN <<>> ELSE Tables(v, both))
                \o <<Write(sect, inSect)>>
                \o (IF old = {} THEN <<>> ELSE Tables(v, next))
  IN [writes |-> writes, next |-> next, slots |-> slots]

HostEdits(name, new, entry) ==
  /\ Served /\ host.state = "mounted" /\ host.todo = <<>>
  /\ edits < MaxEdits /\ edits' = edits + 1
  /\ SlotFor(host.slots, name) # NoSlot
  /\ \E clusts \in FirstFree(Layout(flash), host.next, Len(new)) :
     \E c \in {Change(Layout(flash), host, name, new, entry, clusts)} :
     \E todo \in IF Orderly THEN {c.writes} ELSE SetToSeqs(ToSet(c.writes)) :
       host' = [host EXCEPT !.next = c.next, !.slots = c.slots, !.todo = todo]
  /\ saved' = FALSE
  /\ UNCHANGED <<diskVars, fs, fp, pc, text, pos, had, full, unread, m_config_timestamp,
                 usbVars, resets>>

HostSaves == \E e \in Edits :
  HostEdits(e.file, e.text, Entry(e.file, 0, Len(e.text), Fixed + 1 + edits))
HostDeletes == \E name \in File :
  /\ host.state = "mounted" /\ \E s \in RootSlot : host.slots[s].name = name
  /\ HostEdits(name, <<>>, EmptyEntry(Deleted))

\* tud_msc_write10_cb.  The first chunk erases the sector, and holds all of a table
\* but only the first entries of a directory's sector.
FirstChunk(content) ==
  CASE content.kind = "table" -> content
    [] content.kind = "data" -> Erased
    [] OTHER -> Entries([i \in SlotIndex |->
                  IF i < ChunkSlots THEN content.slots[i] ELSE EmptyEntry(Blank)])

HostWrites ==
  /\ Served /\ host.todo # <<>>
  /\ LET w == Head(host.todo)
     IN IF host.half
        THEN /\ flash' = [flash EXCEPT ![w.sect] = w.content]
             /\ host' = [host EXCEPT !.half = FALSE, !.todo = Tail(@)]
        ELSE /\ flash' = [flash EXCEPT ![w.sect] = FirstChunk(w.content)]
             /\ host' = [host EXCEPT !.half = TRUE]
  /\ UNCHANGED <<erased, out, fs, fp, progVars, usbVars, edits, resets>>

Host ==
  \/ Enumerate \/ TestUnitReady \/ Eject \/ Load \/ Unplug
  \/ HostSaves \/ HostDeletes \/ HostWrites

\* Power fails, or the watchdog bites; what has been written stays.
Reset ==
  /\ resets < MaxResets /\ resets' = resets + 1
  /\ erased' = FALSE /\ out' = <<>> /\ UNCHANGED flash
  /\ fs' = Unmounted /\ fp' = NoFile
  /\ pc' = "init" /\ text' = Defaults /\ pos' = 0 /\ had' = 0 /\ full' = FALSE
  /\ saved' = FALSE /\ unread' = FALSE
  /\ m_config_timestamp' = 0
  /\ m_mounted' = TRUE /\ m_fs_changed' = FALSE
  /\ host' = Detached /\ edits' = edits

Next == Firmware \/ Host \/ Reset

Spec == Init /\ [][Next]_vars

\* The main loop goes on, looks at the file when that is due, and sleeps in every
\* turn, where a host that is there polls.  For the firmware this is weak fairness
\* with the states in which it can act written out: ENABLED would evaluate all of
\* FatFs.
Outdated == usbfs_timestamp(ThisDrive).stamp # m_config_timestamp
FairSpec ==
  /\ Spec
  /\ []<>Served \/ []<><<Firmware>>_vars
  /\ []<>~(Served /\ Outdated) \/ []<><<config_check>>_vars
  /\ WF_vars(TestUnitReady)

------------------------------------------------------------------------------
(* Properties *)

\* The flash when the sector being written is whole again.
Settled ==
  IF erased THEN [flash EXCEPT ![Head(out).sect] = Head(out).content]
  ELSE IF host.half
  THEN [flash EXCEPT ![Head(host.todo).sect] = Head(host.todo).content]
  ELSE flash

\* The flash when the first n of the writes are done.
After(f, writes, n) ==
  [s \in DOMAIN f |->
     LET to == {i \in 1 .. n : writes[i].sect = s}
     IN IF to = {} THEN f[s]
        ELSE writes[CHOOSE i \in to : \A j \in to : j <= i].content]

\* What a reader of the whole volume finds, who knows the format and not ff.c: the
\* text of an entry, cluster by cluster, and that of the entry with a name.
TextOf(f, entry) ==
  LET read[n \in 0 .. entry.size, c \in {0, 1, Eoc} \cup Cluster] ==
        IF n = 0 \/ ~IsLink(Layout(f), c) \/ f[clst2sect(Layout(f), c)] = Erased
        THEN <<>>
        ELSE <<f[clst2sect(Layout(f), c)].unit>> \o read[n - 1, TableOf(f)[c]]
  IN read[entry.size, entry.clust]

FileOn(f, name) ==
  LET hits == {s \in RootSlot : SlotOf(f, s).name = name}
  IN IF f[0] = Erased \/ hits = {}
     THEN Absent
     ELSE CHOOSE t \in {TextOf(f, SlotOf(f, s)) : s \in hits} : TRUE

FilesOn(f) == [name \in File |-> FileOn(f, name)]

\* Through every save, edit, reset and torn sector, what a directory entry refers to
\* is allocated, and to it alone: the order in which remove_chain, f_write and
\* f_close reach the flash never leaves a file with clusters that another could get.
Intact ==
  LET v == Layout(flash)
      slots == SlotsOf(flash)
      next == TableOf(flash)
      Owned(s) == Chain(v, next, slots[s].clust)
  IN flash[0] # Erased =>
       \A s \in RootSlot : \A c \in Owned(s) :
         next[c] # 0 /\ \A t \in RootSlot : s # t => c \notin Owned(t)

\* A save that met no full volume is found on the flash as it was meant, once its
\* last write is done and until the host edits.
SavedIsOnFlash == saved /\ pc = "sleep" /\ out = <<>> => FileOn(flash, Config) = text

\* config_save empties the file before it writes it, so there is room for a text no
\* longer than the one that was loaded, however full the host left the volume and
\* whatever clusters were lost: the failed puts that config_save overlooks does not
\* come up.
SaveFits == had >= Len(text) => ~full

\* What the host keeps in its cache agrees with the flash, its own writes to come
\* included: the firmware writes before the host can read, and not after.
Cached ==
  host.state = "mounted" =>
    /\ host.next = TableOf(After(flash, host.todo, Len(host.todo)))
    /\ host.slots = SlotsOf(After(flash, host.todo, Len(host.todo)))

\* The two users see files, each of which changes as a whole, and a loss of power
\* leaves a file a beginning of what it held.
Texts == UNION {[1 .. n -> Unit] : n \in 0 .. MaxText}
Phase == IF pc = "init" THEN "off" ELSE IF pc = "sleep" /\ out = <<>> THEN "up" ELSE "boot"
FS == INSTANCE FileStore WITH Text <- Texts, file <- FilesOn(Settled), phase <- Phase
KeepsFiles == FS!Spec

\* A configuration that the host has written reaches the program, which looks at no
\* more than the date of the file, unless the host is still writing, the program
\* stops, or there was no memory to read it when its date was noticed.
EditArrives ==
  pc = "sleep" ~> \/ text = FileOn(flash, Config) \/ FileOn(flash, Config) \in {<<>>, Absent}
                  \/ pc # "sleep" \/ full \/ host.todo # <<>> \/ unread

\* A host that has enumerated and polls gets to mount a volume that is there: the
\* change that the save left behind is not reported for ever.
HostMounts ==
  host.state = "polling" /\ m_mounted /\ flash[0] # Erased
    ~> host.state \in {"mounted", "detached"}
=============================================================================
