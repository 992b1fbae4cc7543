---------------------------- MODULE SettingsText ----------------------------
(***************************************************************************)
(* Settings with the text that its lines stand for: what config_save       *)
(* writes and config_fetch reads.                                          *)
(***************************************************************************)
EXTENDS Settings, ConfigText

\* Settings has a save write the lines that the next boot reads.  Whatever the user
\* wrote, that is so of the text that config_save writes: the same names in the same
\* order, and the values as far as a line holds them.
SavedIsReread == pc = "write" => Rereads
=============================================================================
