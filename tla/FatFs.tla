-------------------------------- MODULE FatFs --------------------------------
(***************************************************************************)
(* FatFs as the firmware builds and uses it: a FAT12 volume of sectors of  *)
(* 4096 bytes, one sector to a cluster, one sector to an allocation table, *)
(* a root directory of several.  Each function of ff.c is an operator from *)
(* a drive to a drive, or to a record of what it returns.                  *)
(*                                                                         *)
(* A drive holds what FATFS holds (type, n_fats, winsect, win, wflag,      *)
(* last_clst), the sectors as the program sees them (disk) and the writes  *)
(* that it has asked for (out), in their order.                            *)
(***************************************************************************)
EXTENDS Integers, Sequences, FiniteSets

CONSTANTS
  Sectors,      \* sectors of the volume (128)
  RootSectors,  \* sectors of the root directory
  SectorSlots,  \* directory entries in a sector (128)
  File,         \* names of files
  Unit          \* what a sector's worth of text may be

\* What marks the end of a chain: 12 bits name no more clusters than that.
Eoc == 4095

ASSUME FatFsAssumption ==
  /\ Sectors \in Nat /\ RootSectors \in Nat \ {0} /\ SectorSlots \in Nat \ {0}
  /\ Sectors > 3 + RootSectors /\ Sectors < Eoc

(* What a sector may hold *)

Erased == [kind |-> "erased"]
Boot(n_fats) == [kind |-> "boot", n_fats |-> n_fats]
Table(next) == [kind |-> "table", next |-> next]
Entries(slots) == [kind |-> "entries", slots |-> slots]
Data(unit) == [kind |-> "data", unit |-> unit]

\* The first byte of an entry's name ends the directory, or marks it deleted.
\* Erased flash has all attributes set, that of a label among them.
Ended == "ended"
Deleted == "deleted"
Label == "label"
Blank == "blank"
Entry(name, clust, size, stamp) ==
  [name |-> name, clust |-> clust, size |-> size, stamp |-> stamp]
EmptyEntry(name) == Entry(name, 0, 0, 0)

SlotIndex == 0 .. SectorSlots - 1
SlotsIn(sector) ==
  IF sector = Erased THEN [i \in SlotIndex |-> EmptyEntry(Blank)] ELSE sector.slots

\* Cluster numbers begin at 2; the table is as long as one FAT allows for.
Cluster == 2 .. Sectors - RootSectors - 1
NextIn(sector) == IF sector = Erased THEN [c \in Cluster |-> Eoc] ELSE sector.next

(* Where things are *)

fatbase == 1
dirbase(v) == fatbase + v.n_fats
database(v) == dirbase(v) + RootSectors
n_fatent(v) == Sectors - database(v) + 2

clst2sect(v, clst) == database(v) + clst - 2

Nowhere == -1
Unmounted ==
  [type |-> 0, n_fats |-> 1, winsect |-> Nowhere, win |-> Erased, wflag |-> FALSE,
   last_clst |-> 0]
Drive(fs, flash) ==
  [type |-> fs.type, n_fats |-> fs.n_fats, winsect |-> fs.winsect, win |-> fs.win,
   wflag |-> fs.wflag, last_clst |-> fs.last_clst, disk |-> flash, out |-> <<>>]
FsOf(v) == [field \in DOMAIN Unmounted |-> v[field]]

------------------------------------------------------------------------------
(* The window on a sector *)

disk_write(v, sect, content) ==
  [v EXCEPT !.disk[sect] = content, !.out = Append(@, [sect |-> sect, content |-> content])]

InFat(sect) == sect = fatbase

sync_window(v) ==
  LET Twice(w) == IF InFat(v.winsect) /\ v.n_fats = 2
                  THEN disk_write(w, v.winsect + 1, v.win) ELSE w
  IN IF v.wflag
     THEN Twice([disk_write(v, v.winsect, v.win) EXCEPT !.wflag = FALSE])
     ELSE v

move_window(v, sect) ==
  IF sect = v.winsect
  THEN v
  ELSE LET Shows(w) == [w EXCEPT !.win = w.disk[sect], !.winsect = sect]
       IN Shows(sync_window(v))

sync_fs(v) == sync_window(v)

(* The allocation table *)

get_fat(v, clst) == NextIn(move_window(v, fatbase).win)[clst]

put_fat_StaysClean(v, clst, val) ==
  [move_window(v, fatbase) EXCEPT !.win = Table([NextIn(@) EXCEPT ![clst] = val])]
put_fat(v, clst, val) ==
  [move_window(v, fatbase) EXCEPT !.win = Table([NextIn(@) EXCEPT ![clst] = val]),
                                  !.wflag = TRUE]

IsLink(v, c) == c >= 2 /\ c < n_fatent(v)

\* The clusters from clst on, as far as the table leads: the least set that it does
\* not lead out of.
Closed(v, next, set) == \A c \in set : IsLink(v, next[c]) => next[c] \in set
Chain(v, next, clst) ==
  IF ~IsLink(v, clst) THEN {}
  ELSE LET led == {set \in SUBSET Cluster : clst \in set /\ Closed(v, next, set)}
       IN {c \in Cluster : \A set \in led : c \in set}

Without(next, chain) == [c \in Cluster |-> IF c \in chain THEN 0 ELSE next[c]]
\* The walk ends at a cluster that is free.
remove_chain(v, clst) ==
  LET In(w, next) == [w EXCEPT !.win = Table(Without(next, Chain(v, next, clst))),
                               !.wflag = @ \/ next[clst] # 0]
      Through(w) == In(w, NextIn(w.win))
  IN Through(move_window(v, fatbase))

\* The search is for the first free cluster after scl, round the end of the table.
Rounds(v, scl, c) == (c - scl - 1) % (n_fatent(v) - 2)
FreeFrom(v, scl) ==
  LET First(free) ==
        IF free = {}
        THEN 0
        ELSE CHOOSE c \in free : \A d \in free : Rounds(v, scl, c) <= Rounds(v, scl, d)
  IN First({c \in Cluster : IsLink(v, c) /\ get_fat(v, c) = 0})

Suggested(v, otherwise) == IF IsLink(v, v.last_clst) THEN v.last_clst ELSE otherwise

\* A new chain, or one more cluster for that which ends with clst.  The cluster is
\* 0 when none is free, and 1 when clst is itself free.
Linked(v, clst, ncl) ==
  LET After(w) == IF clst = 0 THEN w ELSE put_fat(w, clst, ncl)
  IN IF ncl = 0
     THEN [v |-> move_window(v, fatbase), clust |-> 0]
     ELSE [v |-> [After(put_fat(v, ncl, Eoc)) EXCEPT !.last_clst = ncl], clust |-> ncl]

create_chain(v, clst) ==
  LET after == IF clst + 1 < n_fatent(v) THEN clst + 1 ELSE 2
      Stretched(cs) ==
        IF cs < n_fatent(v)
        THEN [v |-> move_window(v, fatbase), clust |-> IF cs < 2 THEN 1 ELSE cs]
        ELSE Linked(v, clst,
               IF get_fat(v, after) = 0 THEN after ELSE FreeFrom(v, Suggested(v, clst)))
  IN IF clst = 0
     THEN Linked(v, 0, FreeFrom(v, Suggested(v, 1)))
     ELSE Stretched(get_fat(v, clst))

------------------------------------------------------------------------------
(* The root directory *)

RootSlot == 0 .. RootSectors * SectorSlots - 1
SlotSect(v, slot) == dirbase(v) + slot \div SectorSlots

\* A slot, through the window where that is on its sector.
Slot(v, slot) == SlotsIn(move_window(v, SlotSect(v, slot)).win)[slot % SectorSlots]

NoSlot == -1
Lowest(slots) == IF slots = {} THEN NoSlot ELSE CHOOSE s \in slots : \A t \in slots : s <= t
FirstSlot(v, names) == Lowest({s \in RootSlot : Slot(v, s).name \in names})

\* The window is left on the last sector that was looked at.
At(v, slot) ==
  move_window(v, SlotSect(v, IF slot = NoSlot THEN RootSectors * SectorSlots - 1 ELSE slot))

dir_find(v, name) ==
  LET EndsAt(slot) ==
        [v |-> At(v, slot),
         slot |-> IF slot # NoSlot /\ Slot(v, slot).name = name THEN slot ELSE NoSlot]
  IN EndsAt(FirstSlot(v, {name, Ended}))

dir_alloc(v) ==
  LET EndsAt(slot) == [v |-> At(v, slot), slot |-> slot]
  IN EndsAt(FirstSlot(v, {Ended, Deleted}))

SetSlot(v, slot, entry) ==
  [At(v, slot) EXCEPT !.win = Entries([SlotsIn(@) EXCEPT ![slot % SectorSlots] = entry]),
                      !.wflag = TRUE]

\* The slot is NoSlot when the directory is full (FR_DENIED).
dir_register(v, name) ==
  LET In(d) == IF d.slot = NoSlot
               THEN d
               ELSE [v |-> SetSlot(d.v, d.slot, EmptyEntry(name)), slot |-> d.slot]
  IN In(dir_alloc(v))

------------------------------------------------------------------------------
(* The volume *)

\* check_fs forgets the window, even one not yet written.
mount_volume(v) ==
  LET Checked(w) == IF w.win.kind = "boot"
                    THEN [w EXCEPT !.type = 12, !.n_fats = w.win.n_fats, !.last_clst = 0]
                    ELSE [w EXCEPT !.type = 0]
  IN Checked(move_window([v EXCEPT !.wflag = FALSE, !.winsect = Nowhere], 0))

f_mount(v) == mount_volume([v EXCEPT !.type = 0])
Mounted(v) == IF v.type = 0 THEN mount_volume(v) ELSE v

\* The boot sector comes first; the window serves as the work buffer, and ends up
\* as the empty sector that the directory was written from.
NoEntries == Entries([i \in SlotIndex |-> EmptyEntry(Ended)])
f_mkfs(v, n_fats) ==
  LET next == [c \in Cluster |-> 0]
      Content(sect) == IF sect = 0 THEN Boot(n_fats)
                       ELSE IF sect <= n_fats THEN Table(next) ELSE NoEntries
      last == n_fats + RootSectors
      written == [i \in 1 .. last + 1 |-> [sect |-> i - 1, content |-> Content(i - 1)]]
  IN [v EXCEPT !.type = 0, !.win = NoEntries, !.out = @ \o written,
               !.disk = [s \in DOMAIN @ |-> IF s <= last THEN Content(s) ELSE @[s]]]

f_setlabel(v) ==
  LET Set(d) == IF d.slot = NoSlot THEN d.v
                ELSE sync_fs(SetSlot(d.v, d.slot, EmptyEntry(Label)))
      Found(w, slot) == IF slot # NoSlot /\ Slot(w, slot).name = Label
                        THEN [v |-> w, slot |-> slot] ELSE dir_alloc(w)
      On(w) == IF w.type = 0 THEN w ELSE Set(Found(w, FirstSlot(w, {Label, Ended})))
  IN On(Mounted(v))

------------------------------------------------------------------------------
(* Files *)

\* A file that is not open has its slot nowhere.
NoFile ==
  [slot |-> NoSlot, sclust |-> 0, objsize |-> 0, fptr |-> 0, clust |-> 0, sect |-> 0,
   buf |-> Erased, dirty |-> FALSE, modified |-> FALSE]

Opened(v, slot) ==
  LET Of(entry) ==
        [NoFile EXCEPT !.slot = slot, !.sclust = entry.clust, !.objsize = entry.size]
  IN Of(Slot(v, slot))

\* FA_READ
f_open(v, name) ==
  LET Found(d) == [v |-> d.v, fp |-> IF d.slot = NoSlot THEN NoFile ELSE Opened(d.v, d.slot)]
      On(w) == IF w.type = 0 THEN [v |-> w, fp |-> NoFile] ELSE Found(dir_find(w, name))
  IN On(Mounted(v))

\* FA_CREATE_ALWAYS | FA_WRITE: an existing file is emptied, and the search for a
\* free cluster will begin where it was.
Fixed == 1
Blanked(v, slot) == SetSlot(v, slot, Entry(Slot(v, slot).name, 0, 0, Fixed))
Emptied_KeepsChain(v, slot) == Blanked(v, slot)
Emptied_ChainFirst(v, slot) ==
  LET From(cl) == IF cl = 0 THEN v ELSE [remove_chain(v, cl) EXCEPT !.last_clst = cl - 1]
  IN Blanked(From(Slot(v, slot).clust), slot)
Emptied(v, slot) ==
  LET From(cl) == IF cl = 0 THEN Blanked(v, slot)
                  ELSE [At(remove_chain(Blanked(v, slot), cl), slot) EXCEPT !.last_clst = cl - 1]
  IN From(Slot(v, slot).clust)

f_create(v, name) ==
  LET New(d) == IF d.slot = NoSlot THEN dir_register(d.v, name) ELSE d
      With(w, slot) == [v |-> w, fp |-> [Opened(w, slot) EXCEPT !.modified = TRUE]]
      In(d) == IF d.slot = NoSlot THEN [v |-> d.v, fp |-> NoFile]
               ELSE With(Emptied(d.v, d.slot), d.slot)
      On(w) == IF w.type = 0 THEN [v |-> w, fp |-> NoFile] ELSE In(New(dir_find(w, name)))
  IN On(Mounted(v))

WriteBack_Not(v, fp) == v
WriteBack(v, fp) == IF fp.dirty THEN disk_write(v, fp.sect, fp.buf) ELSE v

\* A sector's worth of text, in pieces smaller than a sector: the pointer is at the
\* boundary of a cluster.  ok is whether all was written.
f_write(v, fp, unit) ==
  LET c == IF fp.fptr = 0 /\ fp.sclust # 0 THEN [v |-> v, clust |-> fp.sclust]
           ELSE create_chain(v, IF fp.fptr = 0 THEN 0 ELSE fp.clust)
      Into(w, clst) ==
        [v |-> WriteBack(w, fp),
         fp |-> [fp EXCEPT !.clust = clst, !.sect = clst2sect(v, clst),
                           !.sclust = IF @ = 0 THEN clst ELSE @,
                           !.buf = Data(unit), !.dirty = TRUE, !.modified = TRUE,
                           !.fptr = @ + 1, !.objsize = IF fp.fptr = @ THEN @ + 1 ELSE @],
         ok |-> TRUE]
      Goes(d) == IF d.clust < 2
                 THEN [v |-> d.v, fp |-> [fp EXCEPT !.modified = TRUE], ok |-> FALSE]
                 ELSE Into(d.v, d.clust)
  IN Goes(c)

\* f_sync and f_close: the data, then the entry, which pushes the table out of
\* the window.
f_close(v, fp) ==
  LET Registered(w) ==
        SetSlot(w, fp.slot, Entry(Slot(w, fp.slot).name, fp.sclust, fp.objsize, Fixed))
  IN IF fp.modified THEN sync_fs(Registered(WriteBack(v, fp))) ELSE v

\* A file read to its end, or to the first cluster that is none.
f_read(v, fp) ==
  LET Along(next) ==
        LET clust[n \in 0 .. Sectors] ==
              IF n = 0 THEN fp.sclust
              ELSE LET c == clust[n - 1] IN IF IsLink(v, c) THEN next[c] ELSE 0
        IN clust
      Whole(clust, n) == n = fp.objsize \/ ~IsLink(v, clust[n])
      Length(clust) == CHOOSE n \in 0 .. fp.objsize :
                         Whole(clust, n) /\ \A m \in 0 .. n - 1 : ~Whole(clust, m)
      Read(clust, len) ==
        [v |-> IF len > 0 /\ fp.objsize > 1 THEN move_window(v, fatbase) ELSE v,
         text |-> [i \in 1 .. len |-> v.disk[clst2sect(v, clust[i - 1])]]]
      Following(clust) == Read(clust, Length(clust))
  IN Following(Along(NextIn(move_window(v, fatbase).win)))

f_stat(v, name) ==
  LET Stamp(o) == IF o.fp.slot = NoSlot THEN 0 ELSE Slot(o.v, o.fp.slot).stamp
      Of(o) == [v |-> o.v, stamp |-> Stamp(o)]
  IN Of(f_open(v, name))
=============================================================================
