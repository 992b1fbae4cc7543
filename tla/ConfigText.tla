----------------------------- MODULE ConfigText -----------------------------
(***************************************************************************)
(* The text of config.txt: how config_fetch makes names and values of it,  *)
(* and config_save a text of those.  Both have a buffer of Size characters *)
(* for a line, and a longer line is cut by the one and split by the other. *)
(* Characters are of five kinds.                                           *)
(***************************************************************************)
EXTENDS Integers, SequencesExt

CONSTANTS
  Size,     \* what usbfs_gets and snprintf are told of l_buffer (127)
  Inputs    \* texts that the user may write

Char == {"\n", " ", ":", "#", "a"}

ASSUME ConfigTextAssumption == Size \in Nat \ {0, 1} /\ Inputs \subseteq Seq(Char)

isspace(c) == c \in {" ", "\n"}
Places(text, c) == {i \in DOMAIN text : text[i] = c}

Trimmed(text) ==
  LET kept == {i \in DOMAIN text : ~isspace(text[i])}
  IN IF kept = {} THEN <<>> ELSE SubSeq(text, Min(kept), Max(kept))

\* f_gets: up to the end of the line, or as many characters as the buffer takes.
f_gets_OneMore(text) == SubSeq(text, 1, Min(Places(text, "\n") \cup {Size, Len(text)}))
f_gets(text) == SubSeq(text, 1, Min(Places(text, "\n") \cup {Size - 1, Len(text)}))

\* Comments, and what has no divider, are skipped.
IsSetting(piece) == piece[1] # "#" /\ Places(piece, ":") # {}
Split(piece) ==
  LET divider == Min(Places(piece, ":"))
  IN [name |-> Trimmed(SubSeq(piece, 1, divider - 1)),
      value |-> Trimmed(SubSeq(piece, divider + 1, Len(piece)))]

\* One turn of the loop: a piece is read, and set if it is a setting.
Turn(read) ==
  LET piece == f_gets(read.text)
  IN [text |-> SubSeq(read.text, Len(piece) + 1, Len(read.text)),
      set |-> IF piece # <<>> /\ IsSetting(piece) THEN Append(read.set, Split(piece))
              ELSE read.set]

\* The calls of config_set.  A turn reads a character at least, or there is none.
Fetching(text) ==
  LET read[n \in Nat] == IF n = 0 THEN [text |-> text, set |-> <<>>] ELSE Turn(read[n - 1])
  IN read
config_fetch(text) == Fetching(text)[Len(text)].set

Cut(text, n) == SubSeq(text, 1, Min({n, Len(text)}))
Printed(entry) == Cut(entry.name \o <<":", " ">> \o entry.value \o <<"\n">>, Size - 1)
Saving(entries) ==
  LET file[n \in 0 .. Len(entries)] ==
        IF n = 0 THEN <<>> ELSE file[n - 1] \o Printed(entries[n])
  IN file
config_save(entries) == Saving(entries)[Len(entries)]

------------------------------------------------------------------------------
(* Properties *)

\* The values as far as a line has room for them.
RoomFor(entry) == Size - 1 - Len(entry.name) - 2
Readable(entry) == RoomFor(entry) >= 0 /\ (entry.name # <<>> => entry.name[1] # "#")
Kept(entry) == [entry EXCEPT !.value = Trimmed(Cut(@, RoomFor(entry)))]

\* Whatever the user wrote, a save writes lines that the next boot reads: the same names
\* in the same order, and the values as far as a line holds them.  A line that is cut has
\* lost its end, and that the next entry does not run into it is due to the two buffers
\* being of one size.  Names that begin as comments do are excepted: they are not read
\* again.
Rereads ==
  \A text \in Inputs :
    LET entries == config_fetch(text)
    IN (\A i \in DOMAIN entries : Readable(entries[i]))
         => config_fetch(config_save(entries)) = [i \in DOMAIN entries |-> Kept(entries[i])]
=============================================================================
