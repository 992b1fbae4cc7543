------------------------------ MODULE MCVolume -------------------------------
(***************************************************************************)
(* Small instances of Volume: a few sectors, two files, texts of at most   *)
(* two sectors.                                                            *)
(***************************************************************************)
EXTENDS Volume

CONSTANTS config, other, unitD, unitC, unitO

MCFile == {config, other}
MCUnit == {unitD, unitC, unitO}
MCDefaults == <<unitD>>
MCEdits == {[file |-> config, text |-> <<unitC, unitC>>],
            [file |-> other, text |-> <<unitO, unitO>>]}
=====
