--------------------------- MODULE AlertGridProofs ---------------------------
(***************************************************************************)
(* The layout of AlertGrid on a panel of any size: every block lies on it  *)
(* and is visible, as long as the limit on rows is the one it allows.      *)
(***************************************************************************)
EXTENDS AlertGrid, FiniteSetTheorems, TLAPS

\* Blocks along a side at most (15 on the real panel).
Most == (Panel - 1) \div 2

LEMMA MostFacts == Most \in Nat /\ Most >= 2 /\ 2 * Most <= Panel - 1
  BY GridAssumption DEF GridAssumption, Most

\* Products grow with either factor.
LEMMA Monotone ==
  ASSUME NEW a \in Nat, NEW b \in Nat, NEW c \in Nat, a <= b
  PROVE  a * c <= b * c
  OBVIOUS

\* The counted square root is no more than the number it should not exceed.
LEMMA RootBound ==
  ASSUME NEW n \in Nat, NEW m \in Nat, n <= m * m
  PROVE  Root(n) \in 0 .. m
<1> DEFINE S == {k \in 0 .. n : k * k < n}
<1>1. S \subseteq 0 .. m - 1
  <2> SUFFICES ASSUME NEW k \in 0 .. n, k * k < n, ~(k < m)
               PROVE  FALSE
    OBVIOUS
  <2>1. m * m <= k * m /\ k * m <= k * k
    BY Monotone
  <2> QED
    BY <2>1
<1>2. IsFiniteSet(0 .. m - 1) /\ Cardinality(0 .. m - 1) = m
  BY FS_Interval
<1>3. Cardinality(S) \in Nat /\ Cardinality(S) <= m
  BY <1>1, <1>2, FS_Subset, FS_CardinalityType
<1> QED
  BY <1>3 DEF Root

\* What the layout of n alerts is made of.
LEMMA LayoutFacts ==
  ASSUME NEW n \in 0 .. MaxRows
  PROVE  /\ row_col_size(n) \in Nat /\ row_col_size(n) >= 1
         /\ block_size(n) \in Nat /\ block_size(n) >= 2
         /\ Span(n) \in Nat /\ Span(n) <= Panel - 1
         /\ block_offset(n) \in Nat /\ block_offset(n) >= 1
         /\ 2 * (block_offset(n) - 1) + Span(n) <= Panel - 1
<1> DEFINE k == row_col_size(n)
<1>1. Panel \in Nat /\ MaxRows \in Nat /\ MaxRows <= Most * Most /\ n \in Nat /\ n <= Most * Most
  BY GridAssumption, MostFacts DEF GridAssumption, Most
<1>2. k \in Nat /\ k >= 1 /\ k <= Most
  BY <1>1, RootBound, MostFacts DEF row_col_size
<1> HIDE DEF k
<1> DEFINE b == (Panel - 1) \div k
<1>3. b \in Nat /\ b * k <= Panel - 1 /\ Panel - 1 < (b + 1) * k
  BY <1>1, <1>2, MostFacts
<1>4. b >= 2
  <2> SUFFICES ASSUME b + 1 <= 2 PROVE FALSE
    BY <1>3
  <2>1. (b + 1) * k <= 2 * k /\ 2 * k <= 2 * Most
    BY <1>2, <1>3, MostFacts, Monotone
  <2> QED
    BY <1>1, <1>2, <1>3, <2>1, MostFacts
<1>5. block_size(n) = b /\ Span(n) = b * k
  BY DEF block_size, Span, k
<1> HIDE DEF b
<1>6. b * k \in Nat
  BY <1>2, <1>3
<1>7. Span(n) \in Nat /\ Span(n) <= Panel - 1
  BY <1>3, <1>5, <1>6
<1> DEFINE s == Span(n)
           o == (Panel - 1 - s) \div 2
<1>8. block_offset(n) = o + 1
  BY DEF block_offset
<1>9. row_col_size(n) = k
  BY DEF k
<1>10. s \in Nat /\ s <= Panel - 1 /\ Span(n) = s
  BY <1>7
<1> HIDE DEF s
<1>11. o \in Nat /\ 2 * o <= Panel - 1 - s
  BY <1>1, <1>10
<1> HIDE DEF o
<1> QED
  BY <1>1, <1>2, <1>3, <1>4, <1>5, <1>8, <1>9, <1>10, <1>11

\* A corner of the grid of n alerts, along one axis.
Corner(c, n) == \E i \in Nat : c = block_offset(n) + i * block_size(n)

GridInv ==
  /\ alerts \in 0 .. MaxRows
  /\ Corner(x, alerts)
  /\ Corner(y, alerts)

\* A corner before the edge leaves room for its block.
LEMMA CornerFits ==
  ASSUME NEW n \in 0 .. MaxRows, NEW c, Corner(c, n), c < Edge(n)
  PROVE  0 <= c /\ c + block_size(n) - 1 <= Panel
<1> DEFINE b == block_size(n)
           k == row_col_size(n)
           o == block_offset(n)
<1>1. PICK i \in Nat : c = o + i * b
  BY DEF Corner
<1>2. /\ b \in Nat /\ b >= 2 /\ k \in Nat /\ o \in Nat /\ o >= 1
      /\ Panel \in Nat
      /\ Span(n) = b * k /\ Span(n) \in Nat
      /\ 2 * (o - 1) + Span(n) <= Panel - 1 /\ Edge(n) = Span(n)
  BY LayoutFacts, GridAssumption DEF Span, Edge, GridAssumption
<1> HIDE DEF b, k, o
<1>3. i + 1 <= k
  <2> SUFFICES ASSUME k <= i PROVE FALSE
    BY <1>2
  <2>1. k * b <= i * b
    BY <1>2, Monotone
  <2>2. i * b \in Nat /\ k * b \in Nat /\ k * b = b * k
    BY <1>2
  <2> QED
    BY <1>1, <1>2, <2>1, <2>2
<1>4. (i + 1) * b <= k * b /\ (i + 1) * b = i * b + b /\ i * b \in Nat /\ k * b = b * k
  BY <1>2, <1>3, Monotone
<1>5. c + b <= o + Span(n) /\ 0 <= c /\ c \in Nat
  BY <1>1, <1>2, <1>4
<1>6. c + b - 1 <= Panel
  BY <1>2, <1>5
<1> QED
  BY <1>5, <1>6 DEF b

LEMMA StartKeeps ==
  ASSUME NEW n \in 0 .. MaxRows, StartDrawing(n)
  PROVE  GridInv'
<1>1. /\ alerts' = n /\ x' = block_offset(n) /\ y' = block_offset(n)
  BY DEF StartDrawing
<1>2. block_offset(n) = block_offset(n) + 0 * block_size(n)
  BY LayoutFacts
<1> QED
  BY <1>1, <1>2 DEF GridInv, Corner

LEMMA NextCorner ==
  ASSUME NEW n \in 0 .. MaxRows, NEW c, Corner(c, n)
  PROVE  Corner(c + block_size(n), n)
<1>1. PICK i \in Nat : c = block_offset(n) + i * block_size(n)
  BY DEF Corner
<1>2. block_size(n) \in Nat /\ block_offset(n) \in Nat
  BY LayoutFacts
<1>3. (i + 1) * block_size(n) = i * block_size(n) + block_size(n) /\ i * block_size(n) \in Nat
  BY <1>2
<1>4. c + block_size(n) = block_offset(n) + (i + 1) * block_size(n)
  BY <1>1, <1>2, <1>3
<1> QED
  BY <1>4 DEF Corner

LEMMA FirstCorner ==
  ASSUME NEW n \in 0 .. MaxRows
  PROVE  Corner(block_offset(n), n)
<1>1. block_offset(n) = block_offset(n) + 0 * block_size(n)
  BY LayoutFacts
<1> QED
  BY <1>1 DEF Corner

LEMMA GridCorrect == Spec => []GridInv
<1>1. ASSUME Init PROVE GridInv
  <2>1. 0 \in 0 .. MaxRows
    BY GridAssumption DEF GridAssumption
  <2> QED
    BY <1>1, <2>1, FirstCorner DEF Init, GridInv
<1>2. ASSUME GridInv, [Next]_vars PROVE GridInv'
  <2>1. CASE HandleResponse
    <3>1. PICK length \in Lengths : \E n \in 0 .. RowsRead(length) - 1 : StartDrawing(n)
      BY <2>1 DEF HandleResponse
    <3>2. PICK n \in 0 .. RowsRead(length) - 1 : StartDrawing(n)
      BY <3>1
    <3>3. n \in 0 .. MaxRows
      BY GridAssumption DEF GridAssumption, RowsRead, Least
    <3> QED
      BY <3>2, <3>3, StartKeeps
  <2>2. CASE NextTurn
    BY <1>2, <2>2, StartKeeps DEF NextTurn, GridInv
  <2>3. CASE Reboot
    <3>1. 0 \in 0 .. MaxRows
      BY GridAssumption DEF GridAssumption
    <3> QED
      BY <2>3, <3>1, StartKeeps DEF Reboot
  <2>4. CASE DrawBlock
    BY <1>2, <2>4, NextCorner DEF DrawBlock, GridInv
  <2>5. CASE NextLine
    BY <1>2, <2>5, NextCorner, FirstCorner DEF NextLine, GridInv
  <2>6. CASE RejectResponse \/ UNCHANGED vars
    BY <1>2, <2>6 DEF RejectResponse, vars, GridInv
  <2> QED
    BY <1>2, <2>1, <2>2, <2>3, <2>4, <2>5, <2>6 DEF Next
<1> QED
  BY <1>1, <1>2, PTL DEF Spec

\* No block is drawn over the edge of the panel, whatever its size.
THEOREM BlocksStayInPanel == Spec => []BlocksInPanel
<1>1. GridInv => BlocksInPanel
  BY CornerFits DEF GridInv, BlocksInPanel, Drawing
<1> QED
  BY <1>1, GridCorrect, PTL

\* The limit on rows keeps every block at least two pixels apart, one of them lit.
THEOREM BlocksStayVisible == Spec => []BlocksVisible
<1>1. GridInv => BlocksVisible
  BY LayoutFacts DEF GridInv, BlocksVisible
<1> QED
  BY <1>1, GridCorrect, PTL
=============================================================================
