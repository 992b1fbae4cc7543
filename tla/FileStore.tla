------------------------------ MODULE FileStore ------------------------------
(***************************************************************************)
(* What the volume promises its two users, the firmware and the USB host:  *)
(* files, each of which changes as a whole.  While the firmware boots it   *)
(* changes the configuration file and no other; once it is up the host may *)
(* change any.  A failure of power, or a host that goes, may lose files or *)
(* the ends of files, but what remains of a file was in that file.         *)
(***************************************************************************)
EXTENDS Sequences, SequencesExt

CONSTANTS
  File,     \* names
  Config,   \* the one that the firmware writes
  Text,     \* what a file may hold, sequences
  Edits,    \* what the host may make of a file: [file, text]
  Absent    \* the contents of a file that is not there

VARIABLES
  file,     \* the contents of each
  phase     \* is the firmware off, in its boot, or up?

vars == <<file, phase>>

Contents == Text \cup {Absent}

Init == file = [f \in File |-> Absent] /\ phase = "off"

Boots == phase = "off" /\ phase' = "boot" /\ UNCHANGED file

FirmwareChanges ==
  /\ phase = "boot" /\ phase' \in {"boot", "up"}
  /\ file' \in [File -> Contents]
  /\ \A f \in File \ {Config} : file'[f] = file[f]

HostSaves == \E e \in Edits : file' = [file EXCEPT ![e.file] = e.text]
HostDeletes == \E f \in File : file' = [file EXCEPT ![f] = Absent]
HostChanges == phase = "up" /\ UNCHANGED phase /\ (HostSaves \/ HostDeletes)

Remains(kept, whole) ==
  \/ kept \in {whole, Absent}
  \/ whole # Absent /\ kept # Absent /\ IsPrefix(kept, whole)

SomeLost ==
  /\ file' \in [File -> Contents]
  /\ \A f \in File : Remains(file'[f], file[f])

PowerFails == phase' = "off" /\ SomeLost

\* The host goes in the middle of a sector.
HostLeaves == phase = "up" /\ UNCHANGED phase /\ SomeLost

Next == Boots \/ FirmwareChanges \/ PowerFails \/ HostLeaves \/ HostChanges

Spec == Init /\ [][Next]_vars
=============================================================================
