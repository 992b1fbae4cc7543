------------------------------ MODULE AlertGrid ------------------------------
(***************************************************************************)
(* From a response to blocks of light: how many alerts main.cpp makes of   *)
(* its rows, and the two nested loops that lay them out in a square on the *)
(* panel, once in every turn of the main loop.                             *)
(***************************************************************************)
EXTENDS Integers, FiniteSets

CONSTANTS
  Panel,    \* pixels along a side of the display (32)
  MaxRows,  \* rows of a response that are looked at, its header apart (225)
  Lengths   \* the numbers of rows that responses have

\* main.cpp:415: 225 rows are 15 * 15 blocks, the limit that fits.
ASSUME GridAssumption ==
  /\ Panel \in Nat /\ Panel >= 5
  /\ MaxRows \in Nat
  /\ MaxRows <= ((Panel - 1) \div 2) * ((Panel - 1) \div 2)
  /\ Lengths \subseteq Nat \ {0}

VARIABLES
  halted,   \* has an uncaught exception ended the program?
  alerts,   \* alerts on display (their number)
  idx,      \* alert_idx, the next one to draw
  x, y      \* the corner of the next block

vars == <<halted, alerts, idx, x, y>>

------------------------------------------------------------------------------
(* The layout, a function of the number of alerts. *)

Least(a, b) == IF a <= b THEN a ELSE b

\* std::ceil(sqrt(n)): as many as there are numbers whose square is below n.
Root(n) == Cardinality({k \in 0 .. n : k * k < n})

row_col_size(n) == IF Root(n) <= 1 THEN 2 ELSE Root(n)
block_size(n) == (Panel - 1) \div row_col_size(n)

\* What the blocks span, and where the loops over x and y stop.
Span(n) == block_size(n) * row_col_size(n)
Edge_Panel(n) == Panel
Edge(n) == Span(n)

block_offset(n) == (Panel - 1 - Span(n)) \div 2 + 1

------------------------------------------------------------------------------

\* A turn of the main loop draws n alerts from the start.
StartDrawing(n) ==
  /\ alerts' = n
  /\ idx' = 0
  /\ x' = block_offset(n) /\ y' = block_offset(n)

Init ==
  /\ halted = FALSE
  /\ alerts = 0 /\ idx = 0
  /\ x = block_offset(0) /\ y = block_offset(0)

Drawn == ~halted /\ y >= Edge(alerts)

\* The rows 0 .. RowsRead - 1 of a response are looked at.  Row 0 is its header.
RowsRead_OneMore(length) == Least(length, MaxRows + 2)
RowsRead(length) == Least(length, MaxRows + 1)

\* ST_HANDLE_RESPONSE.  Of the rows after the header those that are blank make
\* no alert, and those without six fields make one without data.
HandleResponse ==
  /\ Drawn
  /\ \E length \in Lengths : \E n \in 0 .. RowsRead(length) - 1 : StartDrawing(n)
  /\ UNCHANGED halted

\* A row of six fields of which one is no number: std::stoul throws.
RejectResponse ==
  /\ Drawn
  /\ \E length \in Lengths : RowsRead(length) > 1
  /\ halted' = TRUE
  /\ UNCHANGED <<alerts, idx, x, y>>

\* A turn in any other state of the main loop.
NextTurn ==
  /\ Drawn
  /\ StartDrawing(alerts)
  /\ UNCHANGED halted

\* One round of the inner loop: a block, unless all alerts have had theirs.
DrawBlock ==
  /\ ~halted
  /\ y < Edge(alerts) /\ x < Edge(alerts)
  /\ idx' = IF idx < alerts THEN idx + 1 ELSE idx
  /\ x' = x + block_size(alerts)
  /\ UNCHANGED <<halted, alerts, y>>

\* One round of the outer loop ends.
NextLine ==
  /\ ~halted
  /\ y < Edge(alerts) /\ x >= Edge(alerts)
  /\ x' = block_offset(alerts)
  /\ y' = y + block_size(alerts)
  /\ UNCHANGED <<halted, alerts, idx>>

\* The watchdog ends what the exception has begun.
Reboot ==
  /\ halted
  /\ halted' = FALSE
  /\ StartDrawing(0)

Next ==
  HandleResponse \/ RejectResponse \/ NextTurn \/ DrawBlock \/ NextLine \/ Reboot

Spec == Init /\ [][Next]_vars

------------------------------------------------------------------------------
(* Properties *)

\* A block is to be drawn at the corner (x, y).
Drawing == ~halted /\ x < Edge(alerts) /\ y < Edge(alerts) /\ idx < alerts

\* Whatever the number of alerts, each block lies on the panel: the centring
\* offset and the rounding of sizes never push one over the edge, where
\* graphics.pixel would be asked for a pixel outside the frame buffer.
BlocksInPanel ==
  Drawing => /\ 0 <= x /\ x + block_size(alerts) - 1 <= Panel
             /\ 0 <= y /\ y + block_size(alerts) - 1 <= Panel

\* The limit on rows, counted in the parsing loop with its header, is the one
\* the layout needs: a block is never narrowed to nothing (main.cpp:550).
BlocksVisible == Drawing => block_size(alerts) >= 2

=============================================================================
