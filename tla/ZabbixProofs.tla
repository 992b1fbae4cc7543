---------------------------- MODULE ZabbixProofs -----------------------------
(***************************************************************************)
(* Proofs about tiny-json.c as zabbix.cpp uses it: for every document and  *)
(* every size of the pool, the borrowed sibling pointers lead back through *)
(* the brackets that are open, and what a caller walks afterwards is a     *)
(* tree of the nodes that were allocated.                                  *)
(***************************************************************************)
EXTENDS ZabbixClient, SequenceTheorems, WellFoundedInduction, TLAPS

------------------------------------------------------------------------------
(* Functions by recursion over the numbers *)

LEMMA LeastOf ==
  ASSUME NEW S \in SUBSET Nat, S # {}
  PROVE  \E m \in S : \A n \in S : m <= n
<1> DEFINE Less == {ss \in Nat \X Nat : ss[1] < ss[2]}
<1>1. Less = OpToRel(<, Nat)
  BY Zenon DEF OpToRel
<1>2. IsWellFoundedOn(Less, Nat)
  BY <1>1, NatLessThanWellFounded, Zenon
<1>3. \E m \in S : \A n \in S : ~(<<n, m>> \in Less)
  <2> HIDE DEF Less
  <2>1. S \subseteq Nat /\ S # {}
    OBVIOUS
  <2> QED
    BY <1>2, <2>1, WFMin, Zenon
<1>4. ASSUME NEW m \in S, NEW n \in S, ~(<<n, m>> \in Less) PROVE m <= n
  BY <1>4
<1> HIDE DEF Less
<1> QED
  BY <1>3, <1>4

\* The values up to a number n of a function that begins with first.
UpTo(S, first, turn, n) ==
  {f \in [0 .. n -> S] : f[0] = first /\ \A m \in 1 .. n : f[m] = turn[m][f[m - 1]]}

LEMMA UpToUnique ==
  ASSUME NEW S, NEW first, NEW turn, NEW n \in Nat, NEW k \in Nat, n <= k,
         NEW f \in UpTo(S, first, turn, n), NEW g \in UpTo(S, first, turn, k)
  PROVE  f[n] = g[n]
<1> DEFINE Off == {m \in 0 .. n : f[m] # g[m]}
<1>1. Off = {}
  <2>1. SUFFICES ASSUME Off # {} PROVE FALSE
    OBVIOUS
  <2>2. PICK m \in Off : \A l \in Off : m <= l
    <3>1. Off \in SUBSET Nat
      OBVIOUS
    <3> QED
      BY <2>1, <3>1, LeastOf
  <2>3. m # 0
    BY <2>2 DEF UpTo
  <2>4. m - 1 \in 0 .. n /\ m \in 1 .. n /\ m \in 1 .. k
    BY <2>2, <2>3
  <2>5. f[m - 1] = g[m - 1]
    BY <2>2, <2>4
  <2>6. f[m] = turn[m][f[m - 1]] /\ g[m] = turn[m][g[m - 1]]
    BY <2>4 DEF UpTo
  <2> QED
    BY <2>2, <2>5, <2>6
<1> QED
  BY <1>1

LEMMA UpToExists ==
  ASSUME NEW S, NEW first \in S, NEW turn \in [Nat -> [S -> S]], NEW n \in Nat
  PROVE  UpTo(S, first, turn, n) # {}
<1> DEFINE Bad == {k \in Nat : UpTo(S, first, turn, k) = {}}
<1>1. SUFFICES ASSUME Bad # {} PROVE FALSE
  OBVIOUS
<1>2. PICK k \in Bad : \A l \in Bad : k <= l
  <2>1. Bad \in SUBSET Nat
    OBVIOUS
  <2> QED
    BY <1>1, <2>1, LeastOf
<1>3. CASE k = 0
  <2>1. [m \in 0 .. 0 |-> first] \in UpTo(S, first, turn, 0)
    BY DEF UpTo
  <2> QED
    BY <1>2, <1>3, <2>1
<1>4. CASE k # 0
  <2>1. k - 1 \in Nat /\ k - 1 \notin Bad
    BY <1>2, <1>4
  <2>2. PICK f \in UpTo(S, first, turn, k - 1) : TRUE
    BY <2>1
  <2>3. /\ f \in [0 .. k - 1 -> S] /\ f[0] = first
        /\ \A m \in 1 .. k - 1 : f[m] = turn[m][f[m - 1]]
    BY <2>2 DEF UpTo
  <2> DEFINE x == turn[k][f[k - 1]]
             g == [m \in 0 .. k |-> IF m = k THEN x ELSE f[m]]
  <2>4. x \in S
    <3>1. f[k - 1] \in S /\ k \in Nat
      BY <1>2, <2>1, <2>3
    <3> QED
      BY <3>1
  <2>5. g \in [0 .. k -> S] /\ g[0] = first
    BY <1>2, <1>4, <2>3, <2>4
  <2>6. ASSUME NEW m \in 1 .. k PROVE g[m] = turn[m][g[m - 1]]
    <3>1. g[m - 1] = f[m - 1]
      BY <1>2
    <3>2. CASE m = k
      BY <1>2, <3>1, <3>2
    <3>3. CASE m # k
      <4>1. m \in 1 .. k - 1 /\ g[m] = f[m]
        BY <1>2, <3>3
      <4> QED
        BY <2>3, <3>1, <4>1
    <3> QED
      BY <3>2, <3>3
  <2> HIDE DEF g
  <2>7. g \in UpTo(S, first, turn, k)
    BY <2>5, <2>6 DEF UpTo
  <2> QED
    BY <1>2, <2>7
<1> QED
  BY <1>3, <1>4

LEMMA Recursion ==
  ASSUME NEW S, NEW first \in S, NEW turn \in [Nat -> [S -> S]]
  PROVE  \E f \in [Nat -> S] :
           f[0] = first /\ \A n \in Nat \ {0} : f[n] = turn[n][f[n - 1]]
<1> DEFINE upto(n) == CHOOSE g : g \in UpTo(S, first, turn, n)
           f == [n \in Nat |-> upto(n)[n]]
<1>1. ASSUME NEW n \in Nat PROVE upto(n) \in UpTo(S, first, turn, n)
  BY UpToExists
<1>2. ASSUME NEW n \in Nat PROVE f[n] \in S
  <2>1. upto(n) \in [0 .. n -> S]
    BY <1>1 DEF UpTo
  <2> QED
    BY <2>1
<1>3. f[0] = first
  <2>1. upto(0)[0] = first
    BY <1>1 DEF UpTo
  <2> QED
    BY <2>1
<1>4. ASSUME NEW n \in Nat \ {0} PROVE f[n] = turn[n][f[n - 1]]
  <2> DEFINE g == upto(n)
             h == upto(n - 1)
  <2>1. g \in UpTo(S, first, turn, n) /\ h \in UpTo(S, first, turn, n - 1) /\ n - 1 \in Nat
    BY <1>1
  <2>2. f[n] = g[n] /\ f[n - 1] = h[n - 1]
    OBVIOUS
  <2> HIDE DEF g, h
  <2>3. g[n] = turn[n][g[n - 1]]
    BY <2>1 DEF UpTo
  <2>4. h[n - 1] = g[n - 1]
    <3> DEFINE k == n - 1
    <3>1. k \in Nat /\ k <= n /\ h \in UpTo(S, first, turn, k)
      BY <2>1
    <3> HIDE DEF k
    <3>2. h[k] = g[k]
      BY <2>1, <3>1, UpToUnique
    <3> QED
      BY <3>2 DEF k
  <2> QED
    BY <2>2, <2>3, <2>4
<1> QED
  BY <1>2, <1>3, <1>4

------------------------------------------------------------------------------
(* The stack of brackets, and the way back *)

Within(kind, before) ==
  IF kind \in Bracket THEN <<kind>> \o before
  ELSE IF kind \in {"}", "]"} /\ before # <<>> THEN Tail(before)
  ELSE before

LEMMA WithinType ==
  ASSUME NEW kind, NEW before \in Seq(Bracket)
  PROVE  Within(kind, before) \in Seq(Bracket)
<1>1. CASE kind \in Bracket
  <2>1. <<kind>> \in Seq(Bracket)
    BY <1>1
  <2>2. <<kind>> \o before \in Seq(Bracket)
    BY <2>1, ConcatProperties
  <2> QED
    BY <1>1, <2>2 DEF Within
<1>2. CASE kind \notin Bracket /\ kind \in {"}", "]"} /\ before # <<>>
  <2>1. Tail(before) \in Seq(Bracket)
    BY <1>2, HeadTailProperties
  <2> QED
    BY <1>2, <2>1 DEF Within
<1>3. CASE kind \notin Bracket /\ ~(kind \in {"}", "]"} /\ before # <<>>)
  BY <1>3 DEF Within
<1> QED
  BY <1>1, <1>2, <1>3

LEMMA OpensIs ==
  ASSUME NEW document
  PROVE  /\ Opens(document)[0] = <<>>
         /\ \A n \in Nat \ {0} :
              Opens(document)[n] = Within(document[n].kind, Opens(document)[n - 1])
<1> DEFINE S == Seq(Bracket)
           turn == [n \in Nat |-> [s \in S |-> Within(document[n].kind, s)]]
<1>1. PICK f \in [Nat -> S] : f[0] = <<>> /\ \A n \in Nat \ {0} : f[n] = turn[n][f[n - 1]]
  <2>1. <<>> \in S
    BY EmptySeq
  <2>2. turn \in [Nat -> [S -> S]]
    BY WithinType
  <2> HIDE DEF S, turn
  <2> QED
    BY <2>1, <2>2, Recursion
<1>2. ASSUME NEW n \in Nat \ {0} PROVE f[n] = Within(document[n].kind, f[n - 1])
  <2>1. n - 1 \in Nat /\ f[n - 1] \in S
    BY <1>1
  <2> QED
    BY <1>1, <2>1
<1> DEFINE Fits(g) == g = [n \in Nat |-> IF n = 0 THEN <<>> ELSE Within(document[n].kind, g[n - 1])]
<1>3. Fits(f)
  BY <1>1, <1>2
<1>4. Opens(document) = CHOOSE g : Fits(g)
  BY DEF Opens, Within
<1>5. Fits(Opens(document))
  <2> HIDE DEF Fits
  <2> QED
    BY <1>3, <1>4
<1> HIDE DEF S, turn
<1>6. Opens(document)[0] = <<>>
  BY <1>5
<1>7. ASSUME NEW n \in Nat \ {0}
      PROVE  Opens(document)[n] = Within(document[n].kind, Opens(document)[n - 1])
  BY <1>5
<1> QED
  BY <1>6, <1>7

LEMMA BackIs ==
  ASSUME obj \in Pointer, \A n \in NodeIndex : pool[n].sibling \in Pointer
  PROVE  /\ Back[0] = obj
         /\ \A n \in Nat \ {0} :
              Back[n] = IF Back[n - 1] = NULL THEN NULL ELSE pool[Back[n - 1]].sibling
<1> DEFINE next == [node \in Pointer |-> IF node = NULL THEN NULL ELSE pool[node].sibling]
           turn == [n \in Nat |-> next]
<1>1. PICK f \in [Nat -> Pointer] : f[0] = obj /\ \A n \in Nat \ {0} : f[n] = turn[n][f[n - 1]]
  <2>1. next \in [Pointer -> Pointer]
    BY DEF Pointer
  <2>2. turn \in [Nat -> [Pointer -> Pointer]]
    BY <2>1
  <2> DEFINE S == Pointer
             first == obj
  <2>3. first \in S /\ turn \in [Nat -> [S -> S]]
    BY <2>2
  <2> HIDE DEF S, first, turn
  <2>4. \E f \in [Nat -> S] : f[0] = first /\ \A n \in Nat \ {0} : f[n] = turn[n][f[n - 1]]
    BY <2>3, Recursion
  <2> QED
    BY <2>4 DEF S, first
<1>2. ASSUME NEW n \in Nat \ {0}
      PROVE  f[n] = IF f[n - 1] = NULL THEN NULL ELSE pool[f[n - 1]].sibling
  <2>1. n - 1 \in Nat /\ f[n - 1] \in Pointer
    BY <1>1
  <2> QED
    BY <1>1, <2>1
<1> DEFINE Fits(g) ==
             g = [n \in Nat |->
                    IF n = 0 THEN obj
                    ELSE IF g[n - 1] = NULL THEN NULL ELSE pool[g[n - 1]].sibling]
<1>3. Fits(f)
  BY <1>1, <1>2
<1>4. Back = CHOOSE g : Fits(g)
  BY DEF Back
<1>5. Fits(Back)
  <2> HIDE DEF Fits
  <2> QED
    BY <1>3, <1>4
<1> HIDE DEF next, turn
<1>6. Back[0] = obj
  BY <1>5
<1>7. ASSUME NEW n \in Nat \ {0}
      PROVE  Back[n] = IF Back[n - 1] = NULL THEN NULL ELSE pool[Back[n - 1]].sibling
  BY <1>5
<1> QED
  BY <1>6, <1>7

------------------------------------------------------------------------------
(* What the parser writes to the pool *)

IsNode(r) ==
  r \in [type : {r.type}, name : {r.name}, value : {r.value},
         child : Pointer, last : Pointer, sibling : Pointer]
IsPool(p) == p \in [NodeIndex -> {p[n] : n \in NodeIndex}] /\ \A n \in NodeIndex : IsNode(p[n])

\* Which pointers a step leaves to a node, whatever its name and value are.
Is(node, type, child, last, sibling) ==
  /\ IsNode(node) /\ node.type = type /\ node.child = child /\ node.last = last
  /\ node.sibling = sibling
Same(node, before) == Is(node, before.type, before.child, before.last, before.sibling)

LEMMA SiblingSet ==
  ASSUME NEW p, IsPool(p), NEW n \in NodeIndex, NEW s \in Pointer
  PROVE  /\ IsPool([p EXCEPT ![n].sibling = s])
         /\ Is([p EXCEPT ![n].sibling = s][n], p[n].type, p[n].child, p[n].last, s)
         /\ \A m \in NodeIndex \ {n} : [p EXCEPT ![n].sibling = s][m] = p[m]
<1> DEFINE r == [p[n] EXCEPT !.sibling = s]
           q == [p EXCEPT ![n].sibling = s]
<1>1. IsNode(p[n]) /\ p = [m \in NodeIndex |-> p[m]]
  BY DEF IsPool
<1>2. Is(r, p[n].type, p[n].child, p[n].last, s)
  BY <1>1 DEF IsNode, Is
<1>3. q[n] = r /\ \A m \in NodeIndex \ {n} : q[m] = p[m]
  BY <1>1
<1>4. q = [m \in NodeIndex |-> q[m]]
  BY <1>1
<1> HIDE DEF r, q
<1>5. \A m \in NodeIndex : IsNode(q[m])
  BY <1>2, <1>3 DEF IsPool, Is
<1>6. IsPool(q)
  BY <1>4, <1>5 DEF IsPool
<1> QED
  BY <1>2, <1>3, <1>6 DEF q

LEMMA ChildSet ==
  ASSUME NEW p, IsPool(p), NEW n \in NodeIndex, NEW s \in Pointer
  PROVE  /\ IsPool([p EXCEPT ![n].child = s])
         /\ Is([p EXCEPT ![n].child = s][n], p[n].type, s, p[n].last, p[n].sibling)
         /\ \A m \in NodeIndex \ {n} : [p EXCEPT ![n].child = s][m] = p[m]
<1> DEFINE r == [p[n] EXCEPT !.child = s]
           q == [p EXCEPT ![n].child = s]
<1>1. IsNode(p[n]) /\ p = [m \in NodeIndex |-> p[m]]
  BY DEF IsPool
<1>2. Is(r, p[n].type, s, p[n].last, p[n].sibling)
  BY <1>1 DEF IsNode, Is
<1>3. q[n] = r /\ \A m \in NodeIndex \ {n} : q[m] = p[m]
  BY <1>1
<1>4. q = [m \in NodeIndex |-> q[m]]
  BY <1>1
<1> HIDE DEF r, q
<1>5. \A m \in NodeIndex : IsNode(q[m])
  BY <1>2, <1>3 DEF IsPool, Is
<1>6. IsPool(q)
  BY <1>4, <1>5 DEF IsPool
<1> QED
  BY <1>2, <1>3, <1>6 DEF q

LEMMA LastSet ==
  ASSUME NEW p, IsPool(p), NEW n \in NodeIndex, NEW s \in Pointer
  PROVE  /\ IsPool([p EXCEPT ![n].last = s])
         /\ Is([p EXCEPT ![n].last = s][n], p[n].type, p[n].child, s, p[n].sibling)
         /\ \A m \in NodeIndex \ {n} : [p EXCEPT ![n].last = s][m] = p[m]
<1> DEFINE r == [p[n] EXCEPT !.last = s]
           q == [p EXCEPT ![n].last = s]
<1>1. IsNode(p[n]) /\ p = [m \in NodeIndex |-> p[m]]
  BY DEF IsPool
<1>2. Is(r, p[n].type, p[n].child, s, p[n].sibling)
  BY <1>1 DEF IsNode, Is
<1>3. q[n] = r /\ \A m \in NodeIndex \ {n} : q[m] = p[m]
  BY <1>1
<1>4. q = [m \in NodeIndex |-> q[m]]
  BY <1>1
<1> HIDE DEF r, q
<1>5. \A m \in NodeIndex : IsNode(q[m])
  BY <1>2, <1>3 DEF IsPool, Is
<1>6. IsPool(q)
  BY <1>4, <1>5 DEF IsPool
<1> QED
  BY <1>2, <1>3, <1>6 DEF q

Made(p, n, name, type, value) ==
  [p EXCEPT ![n].name = name, ![n].type = type, ![n].value = value]

LEMMA MadeIs ==
  ASSUME NEW p, IsPool(p), NEW n \in NodeIndex, NEW name, NEW type, NEW value, NEW q,
         q = Made(p, n, name, type, value)
  PROVE  /\ IsPool(q) /\ Is(q[n], type, p[n].child, p[n].last, p[n].sibling)
         /\ \A m \in NodeIndex \ {n} : q[m] = p[m]
<1> DEFINE a == [p[n] EXCEPT !.name = name]
           b == [a EXCEPT !.type = type]
           c == [b EXCEPT !.value = value]
<1>1. IsNode(p[n]) /\ p = [m \in NodeIndex |-> p[m]]
  BY DEF IsPool
<1>2. Is(a, p[n].type, p[n].child, p[n].last, p[n].sibling)
  BY <1>1 DEF IsNode, Is
<1>3. q[n] = c
  BY <1>1 DEF Made
<1>4. q = [m \in NodeIndex |-> q[m]] /\ \A m \in NodeIndex \ {n} : q[m] = p[m]
  BY <1>1 DEF Made
<1> HIDE DEF a
<1>5. Is(b, type, p[n].child, p[n].last, p[n].sibling)
  BY <1>2 DEF IsNode, Is
<1> HIDE DEF b
<1>6. Is(c, type, p[n].child, p[n].last, p[n].sibling)
  BY <1>5 DEF IsNode, Is
<1> HIDE DEF c
<1>7. \A m \in NodeIndex : IsNode(q[m])
  BY <1>3, <1>4, <1>6 DEF IsPool, Is
<1> QED
  BY <1>3, <1>4, <1>6, <1>7 DEF IsPool

\* What add leaves of a node m: the new one ends the list of its parent's properties.
AddedTo(p, q, parent, node, m) ==
  Is(q[m], p[m].type,
     IF m = parent /\ p[parent].child = NULL THEN node ELSE p[m].child,
     IF m = parent THEN node ELSE p[m].last,
     IF m = node THEN NULL
     ELSE IF p[parent].child # NULL /\ m = p[parent].last THEN node ELSE p[m].sibling)

LEMMA AddIs ==
  ASSUME NEW p, IsPool(p), NEW parent \in NodeIndex, NEW node \in NodeIndex, parent # node,
         p[parent].child # NULL =>
           p[parent].last \in NodeIndex /\ p[parent].last # node /\ p[parent].last # parent,
         NEW q, q = add(p, parent, node)
  PROVE  IsPool(q) /\ \A m \in NodeIndex : AddedTo(p, q, parent, node, m)
<1> DEFINE end == [p EXCEPT ![node].sibling = NULL]
<1>1. NULL \in Pointer /\ node \in Pointer
  BY DEF Pointer
<1>2. /\ IsPool(end) /\ Is(end[node], p[node].type, p[node].child, p[node].last, NULL)
      /\ \A m \in NodeIndex \ {node} : end[m] = p[m]
  BY <1>1, SiblingSet
<1>3. \A m \in NodeIndex : IsNode(p[m])
  BY DEF IsPool
<1>4. CASE p[parent].child = NULL
  <2> DEFINE a == [end EXCEPT ![parent].child = node]
             b == [a EXCEPT ![parent].last = node]
  <2>1. q = b
    <3>1. q = [end EXCEPT ![parent].child = node, ![parent].last = node]
      BY <1>2, <1>4 DEF add
    <3> QED
      BY <3>1
  <2> HIDE DEF end
  <2>2. /\ IsPool(a) /\ Is(a[parent], end[parent].type, node, end[parent].last, end[parent].sibling)
        /\ \A m \in NodeIndex \ {parent} : a[m] = end[m]
    BY <1>1, <1>2, ChildSet
  <2> HIDE DEF a
  <2>3. /\ IsPool(b) /\ Is(b[parent], a[parent].type, a[parent].child, node, a[parent].sibling)
        /\ \A m \in NodeIndex \ {parent} : b[m] = a[m]
    BY <1>1, <2>2, LastSet
  <2> HIDE DEF b
  <2> QED
    BY <1>2, <1>3, <1>4, <2>1, <2>2, <2>3 DEF AddedTo, Is
<1>5. CASE p[parent].child # NULL
  <2> DEFINE old == end[parent].last
             a == [end EXCEPT ![old].sibling = node]
             b == [a EXCEPT ![parent].last = node]
  <2>1. old = p[parent].last /\ end[parent] = p[parent]
    BY <1>2
  <2>2. q = b
    <3>1. q = [end EXCEPT ![end[parent].last].sibling = node, ![parent].last = node]
      BY <1>5, <2>1 DEF add
    <3> QED
      BY <3>1
  <2> HIDE DEF end, old
  <2>3. old \in NodeIndex /\ old # node /\ old # parent
    BY <1>5, <2>1
  <2>4. /\ IsPool(a) /\ Is(a[old], end[old].type, end[old].child, end[old].last, node)
        /\ \A m \in NodeIndex \ {old} : a[m] = end[m]
    BY <1>1, <1>2, <2>3, SiblingSet
  <2> HIDE DEF a
  <2>5. /\ IsPool(b) /\ Is(b[parent], a[parent].type, a[parent].child, node, a[parent].sibling)
        /\ \A m \in NodeIndex \ {parent} : b[m] = a[m]
    BY <1>1, <2>4, LastSet
  <2> HIDE DEF b
  <2> QED
    BY <1>2, <1>3, <1>5, <2>1, <2>2, <2>3, <2>4, <2>5 DEF AddedTo, Is
<1> QED
  BY <1>4, <1>5

LEMMA OpenedIs ==
  ASSUME NEW p, IsPool(p), NEW node \in NodeIndex, obj \in Pointer, NEW q, q = Opened(p, node)
  PROVE  /\ IsPool(q) /\ Is(q[node], p[node].type, NULL, p[node].last, obj)
         /\ \A m \in NodeIndex \ {node} : q[m] = p[m]
<1> DEFINE a == [p EXCEPT ![node].child = NULL]
           b == [a EXCEPT ![node].sibling = obj]
<1>1. q = b
  BY DEF Opened
<1>2. NULL \in Pointer
  BY DEF Pointer
<1>3. /\ IsPool(a) /\ Is(a[node], p[node].type, NULL, p[node].last, p[node].sibling)
      /\ \A m \in NodeIndex \ {node} : a[m] = p[m]
  BY <1>2, ChildSet
<1> HIDE DEF a
<1>4. /\ IsPool(b) /\ Is(b[node], a[node].type, a[node].child, a[node].last, obj)
      /\ \A m \in NodeIndex \ {node} : b[m] = a[m]
  <2> DEFINE s == obj
  <2>1. s \in Pointer
    OBVIOUS
  <2> HIDE DEF s
  <2> DEFINE c == [a EXCEPT ![node].sibling = s]
  <2>2. /\ IsPool(c) /\ Is(c[node], a[node].type, a[node].child, a[node].last, s)
        /\ \A m \in NodeIndex \ {node} : c[m] = a[m]
    BY <1>3, <2>1, SiblingSet
  <2> QED
    BY <2>2 DEF s
<1> HIDE DEF b
<1> QED
  BY <1>1, <1>3, <1>4 DEF Is

LEMMA RootIs ==
  ASSUME NEW type, NEW q, q = [[n \in NodeIndex |-> Unwritten] EXCEPT ![0] = Root(type)]
  PROVE  IsPool(q) /\ q[0].type = type /\ q[0].child = NULL /\ q[0].sibling = NULL
<1>1. 0 \in NodeIndex /\ 0 \in Pointer /\ NULL \in Pointer
  BY TinyJsonAssumption DEF NodeIndex, Pointer
<1>2. IsNode(Unwritten) /\ Unwritten.last = 0
  BY <1>1 DEF IsNode, Unwritten
<1> DEFINE a == [Unwritten EXCEPT !.type = type]
           b == [a EXCEPT !.child = NULL]
           c == [b EXCEPT !.sibling = NULL]
<1>3. Root(type) = c
  BY <1>2 DEF Root, IsNode
<1>4. IsNode(a) /\ a.type = type
  BY <1>2 DEF IsNode
<1> HIDE DEF a
<1>5. IsNode(b) /\ b.type = type /\ b.child = NULL
  BY <1>1, <1>4 DEF IsNode
<1> HIDE DEF b
<1>6. IsNode(c) /\ c.type = type /\ c.child = NULL /\ c.sibling = NULL
  BY <1>1, <1>5 DEF IsNode
<1> HIDE DEF c
<1>7. q[0] = c /\ \A n \in NodeIndex \ {0} : q[n] = Unwritten
  BY <1>1, <1>3
<1>8. q = [n \in NodeIndex |-> q[n]]
  OBVIOUS
<1>9. \A n \in NodeIndex : IsNode(q[n])
  BY <1>2, <1>6, <1>7
<1> QED
  BY <1>6, <1>7, <1>8, <1>9 DEF IsPool

------------------------------------------------------------------------------
(* The tree under construction.  w is the way back from the open node to the *)
(* root, and W the nodes on it: their sibling pointers are borrowed.         *)

StepsBack(p, m, n) == p[m].sibling = n /\ p[n].child # NULL /\ p[n].last = m
Way(p, free, at, open, w) ==
  /\ open \in Seq(Bracket) /\ Len(open) >= 1
  /\ w \in [1 .. Len(open) -> 0 .. free - 1]
  /\ w[1] = at /\ w[Len(open)] = 0
  /\ \A i \in 1 .. Len(open) : p[w[i]].type = open[i]
  /\ \A i, j \in 1 .. Len(open) : i < j => w[j] < w[i]
  /\ \A i \in 1 .. Len(open) - 1 : StepsBack(p, w[i], w[i + 1])
  /\ p[0].sibling = NULL

Follows(p, W, n, m) == n \notin W /\ p[n].sibling = m
FirstOf(p, n, m) == p[n].type \in Bracket /\ p[n].child = m
Onward(n, free) == {NULL} \cup (n + 1 .. free - 1)

\* Pointers lead to later nodes,
LeadOn(p, free, W) ==
  \A n \in 0 .. free - 1 :
    /\ n \notin W => p[n].sibling \in Onward(n, free)
    /\ p[n].type \in Bracket => p[n].child \in Onward(n, free)
\* every node but the root is pointed to,
Reached(p, free, W) ==
  \A m \in 1 .. free - 1 : \E n \in 0 .. m - 1 : Follows(p, W, n, m) \/ FirstOf(p, n, m)
\* and by one pointer only.
Once(p, free, W) ==
  \A m \in 1 .. free - 1 : \A n, k \in 0 .. free - 1 :
    /\ Follows(p, W, n, m) /\ Follows(p, W, k, m) => n = k
    /\ FirstOf(p, n, m) /\ FirstOf(p, k, m) => n = k
    /\ ~(Follows(p, W, n, m) /\ FirstOf(p, k, m))
Linked(p, free, W) == LeadOn(p, free, W) /\ Reached(p, free, W) /\ Once(p, free, W)

\* The list of the open node's properties has its end where the node says.
EndKnown(p, free, at, W) ==
  p[at].child # NULL =>
    /\ p[at].last \in at + 1 .. free - 1 /\ p[at].last \notin W
    /\ p[p[at].last].sibling = NULL

On(w, d) == {w[i] : i \in 1 .. d}
Growing(p, free, at, open, w) ==
  /\ IsPool(p) /\ free \in 1 .. Qty
  /\ Way(p, free, at, open, w)
  /\ Linked(p, free, On(w, Len(open)))
  /\ EndKnown(p, free, at, On(w, Len(open)))

LEMMA GrowingStarts ==
  ASSUME NEW type \in Bracket, NEW p, IsPool(p),
         p[0].type = type, p[0].child = NULL, p[0].sibling = NULL
  PROVE  \E w : Growing(p, 1, 0, <<type>>, w)
<1> DEFINE open == <<type>>
           w == [i \in 1 .. 1 |-> 0]
<1>1. open \in Seq(Bracket) /\ Len(open) = 1 /\ open[1] = type
  OBVIOUS
<1>2. w \in [1 .. 1 -> 0 .. 0] /\ w[1] = 0
  OBVIOUS
<1>3. On(w, 1) = {0}
  BY <1>2 DEF On
<1> HIDE DEF open, w
<1>4. Way(p, 1, 0, open, w)
  BY <1>1, <1>2 DEF Way
<1>5. Linked(p, 1, {0})
  BY DEF Linked, LeadOn, Reached, Once, Onward
<1>6. EndKnown(p, 1, 0, {0})
  BY DEF EndKnown
<1>7. 1 \in 1 .. Qty
  BY TinyJsonAssumption
<1>8. Growing(p, 1, 0, open, w)
  BY <1>1, <1>3, <1>4, <1>5, <1>6, <1>7 DEF Growing
<1> QED
  BY <1>8 DEF open

\* What AddProperty has made of node m of the pool when it has called add.
Grown(p, q, at, free, kind, m) ==
  Is(q[m],
     IF m = free THEN kind ELSE p[m].type,
     IF m = at /\ p[at].child = NULL THEN free ELSE p[m].child,
     IF m = at THEN free ELSE p[m].last,
     IF m = free THEN NULL
     ELSE IF p[at].child # NULL /\ m = p[at].last THEN free ELSE p[m].sibling)

LEMMA GrownIs ==
  ASSUME NEW p, NEW free, NEW at, NEW open, NEW w, Growing(p, free, at, open, w), free < Qty,
         NEW name, NEW kind, NEW value, NEW made,
         made = Made(p, free, name, kind, value), NEW q, q = add(made, at, free)
  PROVE  IsPool(q) /\ \A m \in NodeIndex : Grown(p, q, at, free, kind, m)
<1>1. IsPool(p) /\ free \in NodeIndex /\ at \in NodeIndex /\ at # free
  BY TinyJsonAssumption DEF Growing, Way, NodeIndex
<1>2. /\ IsPool(made) /\ Is(made[free], kind, p[free].child, p[free].last, p[free].sibling)
      /\ \A m \in NodeIndex \ {free} : made[m] = p[m]
  BY <1>1, MadeIs
<1>3. made[at] = p[at]
  BY <1>1, <1>2
<1>4. p[at].child # NULL => p[at].last \in NodeIndex /\ p[at].last # free /\ p[at].last # at
  BY <1>1, TinyJsonAssumption DEF Growing, EndKnown, NodeIndex
<1>5. IsPool(q) /\ \A m \in NodeIndex : AddedTo(made, q, at, free, m)
  <2>1. made[at].child # NULL =>
          made[at].last \in NodeIndex /\ made[at].last # free /\ made[at].last # at
    BY <1>3, <1>4
  <2> QED
    BY <1>1, <1>2, <2>1, AddIs
<1>6. ASSUME NEW m \in NodeIndex PROVE Grown(p, q, at, free, kind, m)
  <2>1. AddedTo(made, q, at, free, m)
    BY <1>5
  <2>2. CASE m = free
    BY <1>1, <1>2, <1>3, <1>4, <2>1, <2>2 DEF AddedTo, Grown, Is
  <2>3. CASE m # free
    BY <1>1, <1>2, <1>3, <2>1, <2>3 DEF AddedTo, Grown, Is
  <2> QED
    BY <2>2, <2>3
<1> QED
  BY <1>5, <1>6

\* What AddProperty has made of node m when it is done, opened or not.
Extended(p, r, at, free, m) ==
  /\ r[m].type = p[m].type
  /\ r[m].child = IF m = at /\ p[at].child = NULL THEN free ELSE p[m].child
  /\ r[m].last = IF m = at THEN free ELSE p[m].last
  /\ r[m].sibling = IF p[at].child # NULL /\ m = p[at].last THEN free ELSE p[m].sibling

LEMMA LinkedGrows ==
  ASSUME NEW p, NEW free, NEW at, NEW open, NEW w, Growing(p, free, at, open, w),
         NEW r, NEW W, W = On(w, Len(open)), NEW V,
         \A m \in 0 .. free - 1 : Extended(p, r, at, free, m),
         r[free].type \in Bracket => r[free].child = NULL,
         \A n \in 0 .. free - 1 : n \in V <=> n \in W,
         free \notin V => r[free].sibling = NULL
  PROVE  Linked(r, free + 1, V)
<1>1. free \in Nat \ {0} /\ LeadOn(p, free, W) /\ Reached(p, free, W) /\ Once(p, free, W)
  BY TinyJsonAssumption DEF Growing, Linked
<1>2. at \in 0 .. free - 1 /\ p[at].type \in Bracket
  <2>1. /\ open \in Seq(Bracket) /\ Len(open) >= 1 /\ w \in [1 .. Len(open) -> 0 .. free - 1]
        /\ w[1] = at /\ p[w[1]].type = open[1]
    BY DEF Growing, Way
  <2>2. open[1] \in Bracket
    BY <2>1
  <2> QED
    BY <2>1, <2>2
<1>3. p[at].child # NULL =>
        /\ p[at].last \in 0 .. free - 1 /\ p[at].last > at /\ p[at].last \notin W
        /\ p[p[at].last].sibling = NULL
  BY <1>1, <1>2 DEF Growing, EndKnown
<1>4. ASSUME NEW m \in 1 .. free - 1, NEW n \in 0 .. free
      PROVE  /\ Follows(r, V, n, m) <=> n \in 0 .. free - 1 /\ Follows(p, W, n, m)
             /\ FirstOf(r, n, m) <=> n \in 0 .. free - 1 /\ FirstOf(p, n, m)
  <2>1. m # NULL /\ m # free
    BY <1>1 DEF NULL
  <2>2. CASE n = free
    <3>1. n \notin 0 .. free - 1
      BY <1>1, <2>2
    <3> QED
      BY <2>1, <2>2, <3>1 DEF Follows, FirstOf
  <2>3. CASE n # free
    <3>1. n \in 0 .. free - 1
      BY <1>1, <2>3
    <3>2. Extended(p, r, at, free, n) /\ (n \in V <=> n \in W)
      BY <3>1
    <3>3. Follows(r, V, n, m) <=> Follows(p, W, n, m)
      BY <1>3, <2>1, <3>2 DEF Extended, Follows
    <3>4. FirstOf(r, n, m) <=> FirstOf(p, n, m)
      BY <2>1, <3>2 DEF Extended, FirstOf
    <3> QED
      BY <3>1, <3>3, <3>4
  <2> QED
    BY <2>2, <2>3
<1>5. ASSUME NEW n \in 0 .. free
      PROVE  /\ Follows(r, V, n, free) <=> p[at].child # NULL /\ n = p[at].last
             /\ FirstOf(r, n, free) <=> p[at].child = NULL /\ n = at
  <2>1. free # NULL
    BY <1>1 DEF NULL
  <2>2. CASE n = free
    BY <1>1, <1>2, <1>3, <2>1, <2>2 DEF Follows, FirstOf
  <2>3. CASE n # free
    <3>1. n \in 0 .. free - 1
      BY <1>1, <2>3
    <3>2. Extended(p, r, at, free, n) /\ (n \in V <=> n \in W)
      BY <3>1
    <3>3. /\ n \notin W => p[n].sibling # free
          /\ p[n].type \in Bracket => p[n].child # free
      BY <1>1, <2>1, <3>1 DEF LeadOn, Onward
    <3>4. Follows(r, V, n, free) <=> p[at].child # NULL /\ n = p[at].last
      BY <1>3, <3>2, <3>3 DEF Extended, Follows
    <3>5. FirstOf(r, n, free) <=> p[at].child = NULL /\ n = at
      BY <1>2, <3>2, <3>3 DEF Extended, FirstOf
    <3> QED
      BY <3>4, <3>5
  <2> QED
    BY <2>2, <2>3
<1>6. LeadOn(r, free + 1, V)
  <2>1. SUFFICES ASSUME NEW n \in 0 .. free
                 PROVE  /\ n \notin V => r[n].sibling \in Onward(n, free + 1)
                        /\ r[n].type \in Bracket => r[n].child \in Onward(n, free + 1)
    BY <1>1 DEF LeadOn
  <2>2. CASE n = free
    BY <2>2 DEF Onward
  <2>3. CASE n # free
    <3>1. n \in 0 .. free - 1
      BY <1>1, <2>3
    <3>2. Extended(p, r, at, free, n) /\ (n \in V <=> n \in W)
      BY <3>1
    <3>3. /\ n \notin W => p[n].sibling \in Onward(n, free)
          /\ p[n].type \in Bracket => p[n].child \in Onward(n, free)
      BY <1>1, <3>1 DEF LeadOn
    <3>4. Onward(n, free) \subseteq Onward(n, free + 1) /\ free \in Onward(n, free + 1)
      BY <1>1, <3>1 DEF Onward
    <3>5. n \notin V => r[n].sibling \in Onward(n, free + 1)
      BY <3>2, <3>3, <3>4 DEF Extended
    <3>6. r[n].type \in Bracket => r[n].child \in Onward(n, free + 1)
      BY <3>2, <3>3, <3>4 DEF Extended
    <3> QED
      BY <3>5, <3>6
  <2> QED
    BY <2>2, <2>3
<1>7. Reached(r, free + 1, V)
  <2>1. SUFFICES ASSUME NEW m \in 1 .. free
                 PROVE  \E n \in 0 .. m - 1 : Follows(r, V, n, m) \/ FirstOf(r, n, m)
    BY <1>1 DEF Reached
  <2>2. CASE m = free
    BY <1>1, <1>2, <1>3, <1>5, <2>2
  <2>3. CASE m # free
    <3>1. m \in 1 .. free - 1
      BY <1>1, <2>3
    <3>2. PICK n \in 0 .. m - 1 : Follows(p, W, n, m) \/ FirstOf(p, n, m)
      BY <1>1, <3>1 DEF Reached
    <3>3. n \in 0 .. free - 1 /\ n \in 0 .. free
      BY <1>1, <3>1
    <3> QED
      BY <1>4, <3>1, <3>2, <3>3
  <2> QED
    BY <2>2, <2>3
<1>8. Once(r, free + 1, V)
  <2>1. SUFFICES ASSUME NEW m \in 1 .. free, NEW n \in 0 .. free, NEW k \in 0 .. free
                 PROVE  /\ Follows(r, V, n, m) /\ Follows(r, V, k, m) => n = k
                        /\ FirstOf(r, n, m) /\ FirstOf(r, k, m) => n = k
                        /\ ~(Follows(r, V, n, m) /\ FirstOf(r, k, m))
    BY <1>1 DEF Once
  <2>2. CASE m = free
    BY <1>5, <2>2
  <2>3. CASE m # free
    <3>1. m \in 1 .. free - 1
      BY <1>1, <2>3
    <3>2. \A a, b \in 0 .. free - 1 :
            /\ Follows(p, W, a, m) /\ Follows(p, W, b, m) => a = b
            /\ FirstOf(p, a, m) /\ FirstOf(p, b, m) => a = b
            /\ ~(Follows(p, W, a, m) /\ FirstOf(p, b, m))
      BY <1>1, <3>1 DEF Once
    <3> QED
      BY <1>4, <3>1, <3>2
  <2> QED
    BY <2>2, <2>3
<1> QED
  BY <1>6, <1>7, <1>8 DEF Linked

\* What a growing tree has, one by one.
LEMMA GrowingHas ==
  ASSUME NEW p, NEW free, NEW at, NEW open, NEW w, Growing(p, free, at, open, w)
  PROVE  /\ IsPool(p) /\ free \in Nat \ {0} /\ free <= Qty /\ 0 .. free - 1 \subseteq NodeIndex
         /\ open \in Seq(Bracket) /\ Len(open) \in Nat \ {0}
         /\ \A i \in 1 .. Len(open) : /\ w[i] \in 0 .. free - 1 /\ w[i] \in On(w, Len(open))
                                      /\ p[w[i]].type = open[i]
         /\ w[1] = at /\ w[Len(open)] = 0 /\ 1 \in 1 .. Len(open) /\ Len(open) \in 1 .. Len(open)
         /\ at \in 0 .. free - 1 /\ On(w, Len(open)) \subseteq 0 .. free - 1
         /\ at # NULL /\ free # NULL
<1>1. free \in Nat \ {0} /\ free <= Qty /\ 0 .. free - 1 \subseteq NodeIndex
  BY TinyJsonAssumption DEF Growing, NodeIndex
<1>2. open \in Seq(Bracket) /\ Len(open) \in Nat \ {0}
  BY DEF Growing, Way
<1>3. /\ w \in [1 .. Len(open) -> 0 .. free - 1] /\ w[1] = at /\ w[Len(open)] = 0
      /\ \A i \in 1 .. Len(open) : p[w[i]].type = open[i]
  BY DEF Growing, Way
<1>4. 1 \in 1 .. Len(open) /\ Len(open) \in 1 .. Len(open)
  BY <1>2
<1>5. \A i \in 1 .. Len(open) : w[i] \in 0 .. free - 1 /\ w[i] \in On(w, Len(open))
  BY <1>3 DEF On
<1>6. On(w, Len(open)) \subseteq 0 .. free - 1
  BY <1>5 DEF On
<1>7. at \in 0 .. free - 1 /\ at # NULL /\ free # NULL
  BY <1>1, <1>3, <1>4, <1>5 DEF NULL
<1> QED
  BY <1>1, <1>2, <1>3, <1>4, <1>5, <1>6, <1>7 DEF Growing

\* A text or number ends the list of the open node.
LEMMA GrowsByLeaf ==
  ASSUME NEW p, NEW free, NEW at, NEW open, NEW w, Growing(p, free, at, open, w), free < Qty,
         NEW kind, kind \notin Bracket,
         NEW r, IsPool(r), \A m \in NodeIndex : Grown(p, r, at, free, kind, m)
  PROVE  Growing(r, free + 1, at, open, w)
<1> DEFINE d == Len(open)
           W == On(w, d)
<1>1. /\ free \in Nat \ {0} /\ 0 .. free - 1 \subseteq NodeIndex
      /\ open \in Seq(Bracket) /\ d \in Nat \ {0}
      /\ \A i \in 1 .. d : w[i] \in 0 .. free - 1 /\ w[i] \in W /\ p[w[i]].type = open[i]
      /\ w[1] = at /\ w[d] = 0 /\ 1 \in 1 .. d /\ d \in 1 .. d
      /\ at \in 0 .. free - 1 /\ W \subseteq 0 .. free - 1 /\ at # NULL /\ free # NULL
  BY GrowingHas
<1>2. free \in NodeIndex /\ free + 1 \in 1 .. Qty
  BY <1>1, TinyJsonAssumption DEF NodeIndex
<1>3. /\ w \in [1 .. d -> 0 .. free - 1]
      /\ \A i, j \in 1 .. d : i < j => w[j] < w[i]
      /\ \A i \in 1 .. d - 1 : StepsBack(p, w[i], w[i + 1])
      /\ p[0].sibling = NULL
  BY DEF Growing, Way
<1>4. p[at].child # NULL => p[at].last \notin W
  BY DEF Growing, EndKnown
<1> HIDE DEF W, d
<1>5. ASSUME NEW m \in 0 .. free - 1 PROVE Extended(p, r, at, free, m)
  <2>1. m \in NodeIndex /\ m # free
    BY <1>1
  <2>2. Grown(p, r, at, free, kind, m)
    BY <2>1
  <2> QED
    BY <2>1, <2>2 DEF Grown, Is, Extended
<1>6. r[free].type = kind /\ r[free].sibling = NULL
  BY <1>2 DEF Grown, Is
<1>7. free \notin W
  BY <1>1
<1>8. Linked(r, free + 1, W)
  BY <1>5, <1>6, LinkedGrows DEF W, d
<1>9. EndKnown(r, free + 1, at, W)
  <2>1. r[at].last = free
    BY <1>1, <1>5 DEF Extended
  <2> QED
    BY <1>1, <1>6, <1>7, <2>1 DEF EndKnown
<1>10. ASSUME NEW i \in 1 .. d - 1 PROVE StepsBack(r, w[i], w[i + 1])
  <2>1. i \in 1 .. d /\ i + 1 \in 1 .. d /\ 1 < i + 1
    BY <1>1
  <2>2. StepsBack(p, w[i], w[i + 1]) /\ w[i] \in W /\ w[i + 1] # at
    BY <1>1, <1>3, <2>1
  <2>3. Extended(p, r, at, free, w[i]) /\ Extended(p, r, at, free, w[i + 1])
    BY <1>1, <1>5, <2>1
  <2> QED
    BY <1>4, <2>2, <2>3 DEF StepsBack, Extended
<1>11. r[0].sibling = NULL
  BY <1>1, <1>3, <1>4, <1>5 DEF Extended
<1>12. \A i \in 1 .. d : r[w[i]].type = open[i]
  BY <1>1, <1>5 DEF Extended
<1>13. w \in [1 .. d -> 0 .. free + 1 - 1]
  BY <1>1, <1>3
<1>14. Way(r, free + 1, at, open, w)
  BY <1>1, <1>3, <1>10, <1>11, <1>12, <1>13 DEF Way, d
<1> QED
  BY <1>2, <1>8, <1>9, <1>14 DEF Growing, W, d

\* An object or array ends it too, and is the open node from then on.
LEMMA GrowsByBracket ==
  ASSUME NEW p, NEW free, NEW at, NEW open, NEW w, Growing(p, free, at, open, w), free < Qty,
         NEW kind \in Bracket,
         NEW q, \A m \in NodeIndex : Grown(p, q, at, free, kind, m),
         NEW r, IsPool(r), \A m \in NodeIndex \ {free} : r[m] = q[m],
         r[free].type = kind, r[free].child = NULL, r[free].sibling = at
  PROVE  \E v : Growing(r, free + 1, free, <<kind>> \o open, v)
<1> DEFINE d == Len(open)
           W == On(w, d)
           wider == <<kind>> \o open
           e == Len(wider)
           v == [i \in 1 .. d + 1 |-> IF i = 1 THEN free ELSE w[i - 1]]
           V == On(v, e)
<1>1. /\ free \in Nat \ {0} /\ 0 .. free - 1 \subseteq NodeIndex
      /\ open \in Seq(Bracket) /\ d \in Nat \ {0}
      /\ \A i \in 1 .. d : w[i] \in 0 .. free - 1 /\ w[i] \in W /\ p[w[i]].type = open[i]
      /\ w[1] = at /\ w[d] = 0 /\ 1 \in 1 .. d /\ d \in 1 .. d
      /\ at \in 0 .. free - 1 /\ W \subseteq 0 .. free - 1 /\ at # NULL /\ free # NULL
  BY GrowingHas
<1>2. free \in NodeIndex /\ free + 1 \in 1 .. Qty
  BY <1>1, TinyJsonAssumption DEF NodeIndex
<1>3. /\ \A i, j \in 1 .. d : i < j => w[j] < w[i]
      /\ \A i \in 1 .. d - 1 : StepsBack(p, w[i], w[i + 1])
      /\ p[0].sibling = NULL
  BY DEF Growing, Way
<1>4. p[at].child # NULL => p[at].last \notin W
  BY DEF Growing, EndKnown
<1>5. /\ wider \in Seq(Bracket) /\ e = d + 1
      /\ \A i \in 1 .. e : wider[i] = IF i = 1 THEN kind ELSE open[i - 1]
  <2>1. <<kind>> \in Seq(Bracket) /\ Len(<<kind>>) = 1 /\ <<kind>>[1] = kind
    OBVIOUS
  <2> QED
    BY <1>1, <2>1, ConcatProperties
<1>6. \A i \in 1 .. e : v[i] = IF i = 1 THEN free ELSE w[i - 1]
  BY <1>5
<1>7. v \in [1 .. e -> 0 .. free]
  BY <1>1, <1>5
<1> HIDE DEF wider, e, v, d
<1>8. V = W \cup {free}
  <2>1. ASSUME NEW n \in V PROVE n \in W \cup {free}
    <3>1. PICK i \in 1 .. e : n = v[i]
      BY <2>1 DEF On
    <3>2. i # 1 => i - 1 \in 1 .. d
      BY <1>1, <1>5
    <3> QED
      BY <1>1, <1>6, <3>1, <3>2
  <2>2. ASSUME NEW n \in W PROVE n \in V
    <3>1. PICK i \in 1 .. d : n = w[i]
      BY <2>2 DEF On
    <3>2. i + 1 \in 1 .. e /\ v[i + 1] = w[i]
      BY <1>1, <1>5, <1>6
    <3> QED
      BY <3>1, <3>2 DEF On
  <2>3. free \in V
    <3>1. 1 \in 1 .. e /\ v[1] = free
      BY <1>1, <1>5, <1>6
    <3> QED
      BY <3>1 DEF On
  <2> QED
    BY <2>1, <2>2, <2>3
<1> HIDE DEF V, W
<1>9. ASSUME NEW m \in 0 .. free - 1 PROVE Extended(p, r, at, free, m)
  <2>1. m \in NodeIndex /\ m # free
    BY <1>1
  <2>2. Grown(p, q, at, free, kind, m) /\ r[m] = q[m]
    BY <2>1
  <2> QED
    BY <2>1, <2>2 DEF Grown, Is, Extended
<1>10. Linked(r, free + 1, V)
  <2>1. \A n \in 0 .. free - 1 : n \in V <=> n \in W
    BY <1>1, <1>8
  <2>2. free \in V
    BY <1>8
  <2>3. W = On(w, Len(open))
    BY DEF W, d
  <2> QED
    BY <1>9, <2>1, <2>2, <2>3, LinkedGrows
<1>11. EndKnown(r, free + 1, free, V)
  BY DEF EndKnown
<1>12. ASSUME NEW i \in 1 .. e - 1 PROVE StepsBack(r, v[i], v[i + 1])
  <2>1. i \in 1 .. e /\ i + 1 \in 1 .. e /\ i \in 1 .. d
    BY <1>1, <1>5
  <2>2. v[i + 1] = w[i] /\ (i # 1 => v[i] = w[i - 1])
    BY <1>6, <2>1
  <2>3. Extended(p, r, at, free, w[i])
    BY <1>1, <1>9, <2>1
  <2>4. CASE i = 1
    <3>1. v[1] = free /\ v[i + 1] = at
      BY <1>1, <1>6, <2>1, <2>2, <2>4
    <3> QED
      BY <1>1, <2>2, <2>3, <2>4, <3>1 DEF StepsBack, Extended
  <2>5. CASE i # 1
    <3>1. i - 1 \in 1 .. d /\ i - 1 \in 1 .. d - 1 /\ i - 1 + 1 = i
      BY <1>1, <1>5, <2>1, <2>5
    <3>2. StepsBack(p, w[i - 1], w[i]) /\ w[i - 1] \in W /\ w[i] # at
      BY <1>1, <1>3, <2>1, <2>5, <3>1
    <3>3. Extended(p, r, at, free, w[i - 1])
      BY <1>1, <1>9, <3>1
    <3> QED
      BY <1>4, <2>2, <2>3, <2>5, <3>2, <3>3 DEF StepsBack, Extended
  <2> QED
    BY <2>4, <2>5
<1>13. ASSUME NEW i \in 1 .. e, NEW j \in 1 .. e, i < j PROVE v[j] < v[i]
  <2>1. j - 1 \in 1 .. d /\ v[j] = w[j - 1]
    BY <1>1, <1>5, <1>6, <1>13
  <2>2. CASE i = 1
    BY <1>1, <1>6, <2>1, <2>2
  <2>3. CASE i # 1
    <3>1. i - 1 \in 1 .. d /\ v[i] = w[i - 1] /\ i - 1 < j - 1
      BY <1>1, <1>5, <1>6, <1>13, <2>3
    <3> QED
      BY <1>3, <2>1, <3>1
  <2> QED
    BY <2>2, <2>3
<1>14. ASSUME NEW i \in 1 .. e PROVE r[v[i]].type = wider[i]
  <2>1. CASE i = 1
    BY <1>5, <1>6, <2>1
  <2>2. CASE i # 1
    <3>1. i - 1 \in 1 .. d
      BY <1>1, <1>5, <2>2
    <3>2. Extended(p, r, at, free, w[i - 1])
      BY <1>1, <1>9, <3>1
    <3> QED
      BY <1>1, <1>5, <1>6, <2>2, <3>1, <3>2 DEF Extended
  <2> QED
    BY <2>1, <2>2
<1>15. r[0].sibling = NULL
  BY <1>1, <1>3, <1>4, <1>9 DEF Extended
<1>16. v[1] = free /\ v[e] = 0 /\ e >= 1
  <2>1. 1 \in 1 .. e /\ e \in 1 .. e /\ e # 1 /\ e - 1 = d
    BY <1>1, <1>5
  <2> QED
    BY <1>1, <1>6, <2>1
<1>17. v \in [1 .. e -> 0 .. free + 1 - 1]
  BY <1>1, <1>7
<1>18. Way(r, free + 1, free, wider, v)
  BY <1>5, <1>12, <1>13, <1>14, <1>15, <1>16, <1>17 DEF Way, e
<1>19. Growing(r, free + 1, free, wider, v)
  BY <1>2, <1>10, <1>11, <1>18 DEF Growing, V, e
<1> QED
  BY <1>19 DEF wider

\* The end of an object or array leads back to what it is in.
LEMMA ShrinksByClose ==
  ASSUME NEW p, NEW free, NEW at, NEW open, NEW w, Growing(p, free, at, open, w),
         p[at].sibling # NULL,
         NEW r, IsPool(r), Is(r[at], p[at].type, p[at].child, p[at].last, NULL),
         \A m \in NodeIndex \ {at} : r[m] = p[m]
  PROVE  \E v : Growing(r, free, p[at].sibling, Tail(open), v)
<1> DEFINE d == Len(open)
           W == On(w, d)
           rest == Tail(open)
           e == Len(rest)
           v == [i \in 1 .. d - 1 |-> w[i + 1]]
           V == On(v, e)
           up == w[2]
<1>1. /\ free \in Nat \ {0} /\ free <= Qty /\ 0 .. free - 1 \subseteq NodeIndex
      /\ open \in Seq(Bracket) /\ d \in Nat \ {0}
      /\ \A i \in 1 .. d : w[i] \in 0 .. free - 1 /\ w[i] \in W /\ p[w[i]].type = open[i]
      /\ w[1] = at /\ w[d] = 0 /\ 1 \in 1 .. d /\ d \in 1 .. d
      /\ at \in 0 .. free - 1 /\ W \subseteq 0 .. free - 1 /\ at # NULL /\ free # NULL
  BY GrowingHas
<1>2. /\ \A i, j \in 1 .. d : i < j => w[j] < w[i]
      /\ \A i \in 1 .. d - 1 : StepsBack(p, w[i], w[i + 1])
      /\ p[0].sibling = NULL
  BY DEF Growing, Way
<1>3. free \in 1 .. Qty /\ Linked(p, free, W)
  BY DEF Growing
<1>4. d # 1
  BY <1>1, <1>2
<1>5. /\ rest \in Seq(Bracket) /\ e = d - 1 /\ e \in Nat \ {0}
      /\ \A i \in 1 .. e : rest[i] = open[i + 1]
  <2>1. open # <<>>
    BY <1>1, EmptySeq
  <2> QED
    BY <1>1, <1>4, <2>1, HeadTailProperties
<1>6. v \in [1 .. e -> 0 .. free - 1] /\ \A i \in 1 .. e : v[i] = w[i + 1]
  <2>1. \A i \in 1 .. d - 1 : i + 1 \in 1 .. d
    BY <1>1
  <2> QED
    BY <1>1, <1>5, <2>1
<1> HIDE DEF rest, e, v, d
<1>7. ASSUME NEW i \in 1 .. e PROVE i \in 1 .. d /\ i + 1 \in 1 .. d /\ 1 < i + 1
  BY <1>1, <1>5
<1>8. V = W \ {at}
  <2>1. ASSUME NEW n \in V PROVE n \in W \ {at}
    <3>1. PICK i \in 1 .. e : n = v[i]
      BY <2>1 DEF On
    <3>2. n = w[i + 1] /\ n < w[1]
      BY <1>1, <1>2, <1>6, <1>7, <3>1
    <3> QED
      BY <1>1, <1>7, <3>2
  <2>2. ASSUME NEW n \in W \ {at} PROVE n \in V
    <3>1. PICK i \in 1 .. d : n = w[i]
      BY <2>2 DEF On
    <3>2. i # 1
      BY <1>1, <2>2, <3>1
    <3>3. i - 1 \in 1 .. e /\ v[i - 1] = w[i - 1 + 1] /\ i - 1 + 1 = i
      BY <1>1, <1>5, <1>6, <3>2
    <3> QED
      BY <3>1, <3>3 DEF On
  <2> QED
    BY <2>1, <2>2
<1> HIDE DEF V, W
<1>9. up \in 0 .. free - 1 /\ up < at /\ StepsBack(p, at, up) /\ p[at].sibling = up
  <2>1. 1 \in 1 .. d - 1 /\ 2 \in 1 .. d
    BY <1>1, <1>4
  <2>2. StepsBack(p, w[1], w[1 + 1])
    BY <1>2, <2>1
  <2> QED
    BY <1>1, <1>2, <2>1, <2>2 DEF StepsBack
<1> HIDE DEF up
<1>10. /\ \A m \in 0 .. free - 1 : r[m].type = p[m].type /\ r[m].child = p[m].child
                                   /\ r[m].last = p[m].last
       /\ \A m \in 0 .. free - 1 : m # at => r[m].sibling = p[m].sibling
       /\ r[at].sibling = NULL
  BY <1>1 DEF Is
<1>11. at \in W
  BY <1>1
<1>12. Linked(r, free, V)
  <2>1. ASSUME NEW m \in 1 .. free - 1, NEW n \in 0 .. free - 1
        PROVE  /\ Follows(r, V, n, m) <=> Follows(p, W, n, m)
               /\ FirstOf(r, n, m) <=> FirstOf(p, n, m)
    <3>1. m # NULL
      BY <1>1 DEF NULL
    <3> QED
      BY <1>8, <1>10, <1>11, <3>1 DEF Follows, FirstOf
  <2>2. LeadOn(r, free, V)
    BY <1>3, <1>8, <1>10 DEF Linked, LeadOn, Onward
  <2>3. Reached(r, free, V)
    <3>1. SUFFICES ASSUME NEW m \in 1 .. free - 1
                   PROVE  \E n \in 0 .. m - 1 : Follows(r, V, n, m) \/ FirstOf(r, n, m)
      BY DEF Reached
    <3>2. PICK n \in 0 .. m - 1 : Follows(p, W, n, m) \/ FirstOf(p, n, m)
      BY <1>3 DEF Linked, Reached
    <3>3. n \in 0 .. free - 1
      BY <1>1
    <3> QED
      BY <2>1, <3>2, <3>3
  <2>4. Once(r, free, V)
    BY <1>3, <2>1 DEF Linked, Once
  <2> QED
    BY <2>2, <2>3, <2>4 DEF Linked
<1>13. EndKnown(r, free, up, V)
  <2>1. r[up].last = at /\ at \in up + 1 .. free - 1
    BY <1>1, <1>9, <1>10 DEF StepsBack
  <2> QED
    BY <1>8, <1>10, <2>1 DEF EndKnown
<1>14. ASSUME NEW i \in 1 .. e - 1 PROVE StepsBack(r, v[i], v[i + 1])
  <2>1. i \in 1 .. e /\ i + 1 \in 1 .. e /\ i + 1 \in 1 .. d - 1
    BY <1>5
  <2>2. v[i] = w[i + 1] /\ v[i + 1] = w[i + 1 + 1]
    BY <1>6, <2>1
  <2>3. StepsBack(p, w[i + 1], w[i + 1 + 1])
    BY <1>2, <2>1
  <2>4. v[i] \in 0 .. free - 1 /\ v[i + 1] \in 0 .. free - 1 /\ v[i] # at
    <3>1. w[i + 1] < w[1]
      BY <1>1, <1>2, <1>7, <2>1
    <3> QED
      BY <1>1, <1>6, <2>1, <2>2, <3>1
  <2> QED
    BY <1>10, <2>2, <2>3, <2>4 DEF StepsBack
<1>15. ASSUME NEW i \in 1 .. e, NEW j \in 1 .. e, i < j PROVE v[j] < v[i]
  <2>1. i + 1 \in 1 .. d /\ j + 1 \in 1 .. d /\ i + 1 < j + 1
    BY <1>1, <1>5, <1>15
  <2> QED
    BY <1>2, <1>6, <2>1
<1>16. ASSUME NEW i \in 1 .. e PROVE r[v[i]].type = rest[i]
  <2>1. i + 1 \in 1 .. d /\ v[i] = w[i + 1] /\ rest[i] = open[i + 1]
    BY <1>5, <1>6, <1>7
  <2>2. w[i + 1] \in 0 .. free - 1 /\ p[w[i + 1]].type = open[i + 1]
    BY <1>1, <2>1
  <2> QED
    BY <1>10, <2>1, <2>2
<1>17. r[0].sibling = NULL
  BY <1>1, <1>2, <1>10
<1>18. v[1] = up /\ v[e] = 0 /\ e >= 1
  <2>1. 1 \in 1 .. e /\ e \in 1 .. e /\ e + 1 = d
    BY <1>1, <1>5
  <2> QED
    BY <1>1, <1>6, <2>1 DEF up
<1>19. Way(r, free, up, rest, v)
  BY <1>5, <1>6, <1>14, <1>15, <1>16, <1>17, <1>18 DEF Way, e
<1>20. Growing(r, free, up, rest, v)
  BY <1>3, <1>12, <1>13, <1>19 DEF Growing, V, e
<1> QED
  BY <1>9, <1>20 DEF rest

\* The root is open alone when it ends, and the tree has no pointer on loan then.
LEMMA ShrinksToTree ==
  ASSUME NEW p, NEW free, NEW at, NEW open, NEW w, Growing(p, free, at, open, w),
         p[at].sibling = NULL
  PROVE  Linked(p, free, {}) /\ p[0].sibling = NULL /\ Tail(open) = <<>> /\ open # <<>>
<1> DEFINE d == Len(open)
           W == On(w, d)
<1>1. /\ free \in Nat \ {0}
      /\ open \in Seq(Bracket) /\ d \in Nat \ {0}
      /\ \A i \in 1 .. d : w[i] \in 0 .. free - 1
      /\ w[1] = at /\ w[d] = 0 /\ 1 \in 1 .. d
  BY GrowingHas
<1>2. \A i \in 1 .. d - 1 : StepsBack(p, w[i], w[i + 1])
  BY DEF Growing, Way
<1>3. d = 1
  <2>1. SUFFICES ASSUME d # 1 PROVE FALSE
    OBVIOUS
  <2>2. 1 \in 1 .. d - 1 /\ 2 \in 1 .. d
    BY <1>1, <2>1
  <2>3. StepsBack(p, w[1], w[1 + 1])
    BY <1>2, <2>2
  <2>4. w[2] = NULL /\ w[2] \in 0 .. free - 1
    BY <1>1, <2>2, <2>3 DEF StepsBack
  <2> QED
    BY <1>1, <2>4 DEF NULL
<1>4. W = {0} /\ at = 0
  BY <1>1, <1>3 DEF On
<1>5. p[0].sibling = NULL /\ Linked(p, free, W)
  BY DEF Growing, Way
<1> HIDE DEF W
<1>6. ASSUME NEW n, NEW m \in 1 .. free - 1 PROVE Follows(p, {}, n, m) <=> Follows(p, W, n, m)
  BY <1>1, <1>4, <1>5 DEF Follows, NULL
<1>7. LeadOn(p, free, {})
  BY <1>4, <1>5 DEF Linked, LeadOn, Onward
<1>8. Reached(p, free, {}) /\ Once(p, free, {})
  <2>1. Reached(p, free, {})
    BY <1>5, <1>6 DEF Linked, Reached
  <2>2. Once(p, free, {})
    BY <1>5, <1>6 DEF Linked, Once
  <2> QED
    BY <2>1, <2>2
<1>9. Tail(open) = <<>> /\ open # <<>>
  <2>1. open # <<>>
    BY <1>1, EmptySeq
  <2>2. Tail(open) \in Seq(Bracket) /\ Len(Tail(open)) = 0
    BY <1>1, <1>3, <2>1, HeadTailProperties
  <2> QED
    BY <2>1, <2>2, EmptySeq
<1> QED
  BY <1>5, <1>7, <1>8, <1>9 DEF Linked

------------------------------------------------------------------------------
(* The invariant *)

Stack == Opens(input)[ptr - 1]
\* While it parses, the tree grows along the brackets of what it has read; and what it
\* returns is a tree with all of them closed.
Grows == Parsing => ptr \in Nat \ {0} /\ \E w : Growing(pool, nextFree, obj, Stack, w)
Tree == /\ ptr \in Nat \ {0} /\ nextFree \in 1 .. Qty /\ Stack = <<>>
        /\ pool[0].sibling = NULL /\ Linked(pool, nextFree, {})
GivesTree == reading = "root" => Tree
JInv == Grows /\ GivesTree

LEMMA NextBracket ==
  ASSUME ptr \in Nat \ {0}, ptr' = ptr + 1, input' = input
  PROVE  Stack' = Within(input[ptr].kind, Stack)
<1> DEFINE doc == input
           n == ptr
<1>1. n \in Nat \ {0}
  OBVIOUS
<1> HIDE DEF doc, n
<1>2. Opens(doc)[n] = Within(doc[n].kind, Opens(doc)[n - 1])
  BY <1>1, OpensIs
<1>3. Stack' = Opens(doc)[n]
  <2>1. Stack' = Opens(input')[ptr' - 1]
    BY DEF Stack
  <2>2. ptr' - 1 = n
    BY <1>1 DEF n
  <2> QED
    BY <2>1, <2>2 DEF doc
<1>4. Stack = Opens(doc)[n - 1]
  BY DEF Stack, doc, n
<1> QED
  BY <1>2, <1>3, <1>4 DEF doc, n

LEMMA CreateGives ==
  ASSUME NEW document, json_create(document)
  PROVE  JInv'
<1>1. CASE document = <<>> \/ document[1].kind \notin Bracket
  BY <1>1 DEF json_create, JInv, Grows, GivesTree, Parsing
<1>2. CASE ~(document = <<>> \/ document[1].kind \notin Bracket)
  <2> DEFINE type == document[1].kind
             q == pool'
             first == Opens(document)[1]
  <2>1. /\ type \in Bracket /\ input' = document /\ ptr' = 2 /\ nextFree' = 1 /\ obj' = 0
        /\ reading' = "parsing" /\ q = [[n \in NodeIndex |-> Unwritten] EXCEPT ![0] = Root(type)]
    BY <1>2 DEF json_create
  <2>2. Stack' = first
    <3>1. Stack' = Opens(input')[ptr' - 1]
      BY DEF Stack
    <3> QED
      BY <2>1, <3>1
  <2>3. first = <<type>>
    <3>1. Opens(document)[0] = <<>> /\ Opens(document)[1] = Within(type, Opens(document)[1 - 1])
      BY OpensIs
    <3>2. Within(type, <<>>) = <<type>> \o <<>>
      BY <2>1 DEF Within
    <3>3. <<type>> \o <<>> = <<type>>
      OBVIOUS
    <3> QED
      BY <3>1, <3>2, <3>3
  <2> HIDE DEF first, type
  <2>4. IsPool(q) /\ q[0].type = type /\ q[0].child = NULL /\ q[0].sibling = NULL
    <3> HIDE DEF q
    <3> QED
      BY <2>1, RootIs
  <2> HIDE DEF q
  <2>5. \E w : Growing(q, 1, 0, <<type>>, w)
    BY <2>1, <2>4, GrowingStarts
  <2>6. Grows'
    BY <2>1, <2>2, <2>3, <2>5 DEF Grows, q
  <2> QED
    BY <2>1, <2>6 DEF JInv, GivesTree
<1> QED
  BY <1>1, <1>2

LEMMA SkipCommaKeeps ==
  ASSUME JInv, SkipComma
  PROVE  JInv'
<1>1. /\ Parsing /\ input[ptr].kind = "," /\ ptr' = ptr + 1 /\ input' = input /\ pool' = pool
      /\ nextFree' = nextFree /\ obj' = obj /\ reading' = "parsing"
  BY DEF SkipComma, IsComma, Parsing
<1>2. ptr \in Nat \ {0} /\ \E w : Growing(pool, nextFree, obj, Stack, w)
  BY <1>1 DEF JInv, Grows
<1>3. Stack' = Stack
  <2>1. Stack' = Within(input[ptr].kind, Stack)
    BY <1>1, <1>2, NextBracket
  <2> QED
    BY <1>1, <2>1 DEF Within, Bracket, JSON_OBJ, JSON_ARRAY
<1>4. ptr' \in Nat \ {0}
  <2>1. ptr \in Nat \ {0} /\ ptr' = ptr + 1
    BY <1>1, <1>2
  <2> QED
    BY <2>1
<1>5. PICK w : Growing(pool, nextFree, obj, Stack, w)
  BY <1>2
<1>6. Growing(pool', nextFree', obj', Stack', w)
  BY <1>1, <1>3, <1>5
<1>7. Grows'
  BY <1>4, <1>6 DEF Grows
<1> QED
  BY <1>1, <1>7 DEF JInv, GivesTree

LEMMA CloseKeeps ==
  ASSUME JInv, Close
  PROVE  JInv'
<1>1. /\ Parsing /\ input[ptr].kind = EndOf(pool[obj].type) /\ ptr' = ptr + 1 /\ input' = input
      /\ nextFree' = nextFree
  BY DEF Close, IsEnd
<1>2. ptr \in Nat \ {0} /\ ptr' \in Nat \ {0}
  BY <1>1 DEF JInv, Grows
<1>3. PICK w : Growing(pool, nextFree, obj, Stack, w)
  BY <1>1 DEF JInv, Grows
<1> DEFINE p == pool
           free == nextFree
           at == obj
           open == Stack
<1>4. Growing(p, free, at, open, w)
  BY <1>3
<1>5. open \in Seq(Bracket) /\ open # <<>>
  <2> HIDE DEF p, free, at, open
  <2>1. open \in Seq(Bracket) /\ Len(open) \in Nat \ {0}
    BY <1>4, GrowingHas
  <2> QED
    BY <2>1, EmptySeq
<1>6. Stack' = Tail(open)
  <2>1. Stack' = Within(input[ptr].kind, Stack)
    BY <1>1, <1>2, NextBracket
  <2>2. input[ptr].kind \in {"}", "]"} /\ input[ptr].kind \notin Bracket
    BY <1>1 DEF EndOf, Bracket, JSON_OBJ, JSON_ARRAY
  <2> QED
    BY <1>5, <2>1, <2>2 DEF Within
<1>7. CASE pool[obj].sibling = NULL
  <2>1. reading' = "root" /\ pool' = pool
    BY <1>7 DEF Close
  <2>2. Linked(p, free, {}) /\ p[0].sibling = NULL /\ Tail(open) = <<>>
    <3>1. p[at].sibling = NULL
      BY <1>7
    <3> HIDE DEF p, free, at, open
    <3> QED
      BY <1>4, <3>1, ShrinksToTree
  <2>3. free \in 1 .. Qty
    BY <1>4 DEF Growing
  <2>4. Tree'
    BY <1>1, <1>2, <1>6, <2>1, <2>2, <2>3 DEF Tree
  <2> QED
    BY <2>1, <2>4 DEF JInv, Grows, GivesTree, Parsing
<1>8. CASE pool[obj].sibling # NULL
  <2> DEFINE r == [p EXCEPT ![at].sibling = NULL]
             up == p[at].sibling
  <2>1. obj' = up /\ pool' = r /\ reading' = "parsing"
    BY <1>1, <1>8 DEF Close, Closed, Parsing
  <2>2. p[at].sibling # NULL
    BY <1>8
  <2> HIDE DEF p, free, at, open
  <2>3. at \in NodeIndex /\ IsPool(p) /\ NULL \in Pointer
    <3>1. IsPool(p) /\ at \in 0 .. free - 1 /\ 0 .. free - 1 \subseteq NodeIndex
      BY <1>4, GrowingHas
    <3> QED
      BY <3>1 DEF Pointer
  <2>4. /\ IsPool(r) /\ Is(r[at], p[at].type, p[at].child, p[at].last, NULL)
        /\ \A m \in NodeIndex \ {at} : r[m] = p[m]
    BY <2>3, SiblingSet
  <2> HIDE DEF r
  <2>5. \E v : Growing(r, free, up, Tail(open), v)
    BY <1>4, <2>2, <2>4, ShrinksByClose
  <2> HIDE DEF up
  <2>6. Grows'
    BY <1>1, <1>2, <1>6, <2>1, <2>5 DEF Grows, free
  <2> QED
    BY <2>1, <2>6 DEF JInv, GivesTree
<1> QED
  BY <1>7, <1>8

LEMMA AddPropertyKeeps ==
  ASSUME JInv, AddProperty
  PROVE  JInv'
<1> DEFINE p == pool
           free == nextFree
           at == obj
           open == Stack
           token == input[ValueAt]
           kind == token.kind
           name == IF Named THEN input[ptr].value ELSE ""
           value == token.value
           made == Made(p, free, name, kind, value)
           q == add(made, at, free)
           r == pool'
<1>1. /\ Parsing /\ ~IsComma /\ ~IsEnd /\ IsValue /\ nextFree < Qty
      /\ nextFree' = nextFree + 1 /\ ptr' = ValueAt + 1 /\ input' = input /\ reading' = "parsing"
  <2>1. Parsing /\ ~IsComma /\ ~IsEnd /\ IsValue /\ ~poolIsEmpty
    BY DEF AddProperty
  <2>2. nextFree' = nextFree + 1 /\ ptr' = ValueAt + 1 /\ input' = input /\ reading' = reading
    BY DEF AddProperty
  <2>3. nextFree < Qty
    <3>1. nextFree \in 1 .. Qty
      BY <2>1 DEF JInv, Grows, Growing
    <3> QED
      BY <2>1, <3>1, TinyJsonAssumption DEF poolIsEmpty
  <2> QED
    BY <2>1, <2>2, <2>3 DEF Parsing
<1>2. ptr \in Nat \ {0}
  BY <1>1 DEF JInv, Grows
<1>3. PICK w : Growing(p, free, at, open, w)
  BY <1>1 DEF JInv, Grows
<1>4. IF kind \in Bracket THEN r = Opened(q, free) /\ obj' = free ELSE r = q /\ obj' = at
  BY DEF AddProperty, Made
<1>5. kind \in Bracket \cup {JSON_TEXT, JSON_INTEGER}
  BY <1>1 DEF IsValue
<1>6. Stack' = Within(kind, Stack) /\ ptr' \in Nat \ {0}
  <2> DEFINE doc == input
             n == ptr
  <2>1. Stack' = Opens(doc)[ptr' - 1] /\ Stack = Opens(doc)[n - 1]
    <3>1. Stack' = Opens(input')[ptr' - 1]
      BY DEF Stack
    <3> QED
      BY <1>1, <3>1 DEF Stack
  <2>2. kind = doc[ValueAt].kind
    OBVIOUS
  <2>3. CASE Named
    <3>1. ValueAt = n + 1 /\ ptr' = n + 2 /\ doc[n].kind = "name"
      BY <1>1, <1>2, <2>3 DEF ValueAt, IsValue
    <3> HIDE DEF doc, n, kind
    <3>2. n \in Nat \ {0} /\ n + 1 \in Nat \ {0} /\ ptr' - 1 = n + 1 /\ n + 1 - 1 = n
      BY <1>2, <3>1 DEF n
    <3>3. Opens(doc)[n] = Within("name", Opens(doc)[n - 1])
      BY <3>1, <3>2, OpensIs
    <3>4. Opens(doc)[n + 1] = Within(kind, Opens(doc)[n])
      BY <2>2, <3>1, <3>2, OpensIs
    <3>5. Within("name", Opens(doc)[n - 1]) = Opens(doc)[n - 1]
      BY DEF Within, Bracket, JSON_OBJ, JSON_ARRAY
    <3> QED
      BY <2>1, <3>1, <3>2, <3>3, <3>4, <3>5
  <2>4. CASE ~Named
    <3>1. ValueAt = n /\ ptr' = n + 1
      BY <1>1, <1>2, <2>4 DEF ValueAt
    <3> HIDE DEF doc, n, kind
    <3>2. n \in Nat \ {0} /\ ptr' - 1 = n
      BY <1>2, <3>1 DEF n
    <3>3. Opens(doc)[n] = Within(kind, Opens(doc)[n - 1])
      BY <2>2, <3>1, <3>2, OpensIs
    <3> QED
      BY <2>1, <3>1, <3>2, <3>3
  <2> QED
    BY <2>3, <2>4
<1>7. free < Qty /\ nextFree' = free + 1
  BY <1>1
<1> HIDE DEF p, free, at, kind, name, value, r, open
<1> HIDE DEF made
<1> HIDE DEF q
<1>8. IsPool(q) /\ \A m \in NodeIndex : Grown(p, q, at, free, kind, m)
  <2>1. made = Made(p, free, name, kind, value) /\ q = add(made, at, free)
    BY DEF made, q
  <2> QED
    BY <1>3, <1>7, <2>1, GrownIs
<1>9. CASE kind \notin Bracket
  <2>1. Stack' = open
    BY <1>5, <1>6, <1>9 DEF Within, JSON_TEXT, JSON_INTEGER, open
  <2>2. Growing(q, free + 1, at, open, w)
    BY <1>3, <1>7, <1>8, <1>9, GrowsByLeaf
  <2>3. Growing(pool', nextFree', obj', Stack', w)
    BY <1>4, <1>7, <1>9, <2>1, <2>2 DEF r, at
  <2>4. Grows'
    BY <1>6, <2>3 DEF Grows
  <2> QED
    BY <1>1, <2>4 DEF JInv, GivesTree
<1>10. CASE kind \in Bracket
  <2>1. Stack' = <<kind>> \o open
    BY <1>6, <1>10 DEF Within, open
  <2>2. /\ at \in Pointer /\ free \in NodeIndex
    <3>1. at \in 0 .. free - 1 /\ 0 .. free - 1 \subseteq NodeIndex /\ free \in Nat \ {0}
      BY <1>3, GrowingHas
    <3> QED
      BY <1>7, <3>1, TinyJsonAssumption DEF Pointer, NodeIndex
  <2>3. /\ IsPool(r) /\ Is(r[free], q[free].type, NULL, q[free].last, obj)
        /\ \A m \in NodeIndex \ {free} : r[m] = q[m]
    <3>1. obj \in Pointer /\ r = Opened(q, free)
      BY <1>4, <1>10, <2>2 DEF at
    <3> QED
      BY <1>8, <2>2, <3>1, OpenedIs
  <2>4. r[free].type = kind /\ r[free].child = NULL /\ r[free].sibling = at
    BY <1>8, <2>2, <2>3 DEF Grown, Is, at
  <2>5. \E v : Growing(r, free + 1, free, <<kind>> \o open, v)
    BY <1>3, <1>7, <1>8, <1>10, <2>3, <2>4, GrowsByBracket
  <2>6. PICK v : Growing(r, free + 1, free, <<kind>> \o open, v)
    BY <2>5
  <2>7. Growing(pool', nextFree', obj', Stack', v)
    BY <1>4, <1>7, <1>10, <2>1, <2>6 DEF r
  <2>8. Grows'
    BY <1>6, <2>7 DEF Grows
  <2> QED
    BY <1>1, <2>8 DEF JInv, GivesTree
<1> QED
  BY <1>9, <1>10

LEMMA JsonUnchanged ==
  ASSUME JInv, UNCHANGED jsonVars
  PROVE  JInv'
<1>1. /\ input' = input /\ ptr' = ptr /\ pool' = pool /\ nextFree' = nextFree /\ obj' = obj
      /\ reading' = reading
  BY DEF jsonVars
<1>2. Stack' = Stack
  BY <1>1 DEF Stack
<1>3. Grows' /\ GivesTree'
  BY <1>1, <1>2 DEF JInv, Grows, GivesTree, Parsing, Tree
<1> QED
  BY <1>3 DEF JInv

LEMMA FreeGives ==
  ASSUME json_free
  PROVE  JInv'
BY DEF json_free, JInv, Grows, GivesTree, Parsing

LEMMA JInvInit == Init => JInv
BY DEF Init, JsonInit, JInv, Grows, GivesTree, Parsing

LEMMA JInvStep == JInv /\ [Next]_vars => JInv'
<1>1. SUFFICES ASSUME JInv, [Next]_vars PROVE JInv'
  OBVIOUS
<1>2. CASE fetchProblemData
  <2>1. \E document : json_create(document)
    BY <1>2 DEF fetchProblemData, Confused
  <2> QED
    BY <2>1, CreateGives
<1>3. CASE fetchTriggerData
  <2>1. \E document : json_create(document)
    BY <1>3 DEF fetchTriggerData, Confused
  <2> QED
    BY <2>1, CreateGives
<1>4. CASE extractProblemData \/ LostInProblems
  BY <1>4, FreeGives DEF extractProblemData, LostInProblems
<1>5. CASE Parse
  <2>1. CASE SkipComma
    BY <1>1, <2>1, SkipCommaKeeps
  <2>2. CASE Close
    BY <1>1, <2>2, CloseKeeps
  <2>3. CASE AddProperty
    BY <1>1, <2>3, AddPropertyKeeps
  <2>4. CASE RefuseProperty
    BY <2>4 DEF RefuseProperty, Fails, JInv, Grows, GivesTree, Parsing
  <2> QED
    BY <1>5, <2>1, <2>2, <2>3, <2>4 DEF Parse, objValue
<1>6. CASE BeginMatching
  <2>1. UNCHANGED jsonVars
    BY <1>6 DEF BeginMatching
  <2> QED
    BY <1>1, <2>1, JsonUnchanged
<1>7. CASE matchTrigger \/ LostInTriggers
  <2>1. UNCHANGED jsonVars
    BY <1>7 DEF matchTrigger, LostInTriggers
  <2> QED
    BY <1>1, <2>1, JsonUnchanged
<1>8. CASE UNCHANGED vars
  <2>1. UNCHANGED jsonVars
    BY <1>8 DEF vars
  <2> QED
    BY <1>1, <2>1, JsonUnchanged
<1> QED
  BY <1>1, <1>2, <1>3, <1>4, <1>5, <1>6, <1>7, <1>8 DEF Next

\* Whatever the server sends and however often it is asked, the tree that a reply is read
\* into grows along its open brackets, and is whole when json_create returns it.
THEOREM TreeGrowsAlways == Spec => []JInv
<1>1. Init => JInv
  BY JInvInit
<1>2. JInv /\ [Next]_vars => JInv'
  BY JInvStep
<1> QED
  BY <1>1, <1>2, PTL DEF Spec

LEMMA GrowsGivesWayBack == JInv => WayBack
<1>1. SUFFICES ASSUME JInv, Parsing
               PROVE  /\ \A i \in 1 .. Len(Stack) :
                           Back[i - 1] # NULL /\ pool[Back[i - 1]].type = Stack[i]
                      /\ Back[Len(Stack)] = NULL
  BY DEF WayBack, Stack
<1>2. PICK w : Growing(pool, nextFree, obj, Stack, w)
  BY <1>1 DEF JInv, Grows
<1> DEFINE p == pool
           free == nextFree
           at == obj
           open == Stack
           d == Len(open)
<1>3. /\ IsPool(p) /\ 0 .. free - 1 \subseteq NodeIndex /\ d \in Nat \ {0} /\ free \in Nat \ {0}
      /\ \A i \in 1 .. d : w[i] \in 0 .. free - 1 /\ p[w[i]].type = open[i]
      /\ w[1] = at /\ w[d] = 0 /\ at \in 0 .. free - 1
  <2>1. Growing(p, free, at, open, w)
    BY <1>2
  <2> HIDE DEF p, free, at, open
  <2> QED
    BY <2>1, GrowingHas
<1>4. /\ \A i \in 1 .. d - 1 : StepsBack(p, w[i], w[i + 1])
      /\ p[0].sibling = NULL
  BY <1>2 DEF Growing, Way
<1>5. obj \in Pointer /\ \A n \in NodeIndex : pool[n].sibling \in Pointer
  <2>1. at \in Pointer
    BY <1>3 DEF Pointer
  <2>2. ASSUME NEW n \in NodeIndex PROVE p[n].sibling \in Pointer
    <3>1. IsNode(p[n])
      BY <1>3 DEF IsPool
    <3> QED
      BY <3>1 DEF IsNode
  <2> QED
    BY <2>1, <2>2
<1> DEFINE back == Back
<1>6. /\ back[0] = at
      /\ \A n \in Nat \ {0} :
           back[n] = IF back[n - 1] = NULL THEN NULL ELSE p[back[n - 1]].sibling
  BY <1>5, BackIs
<1> HIDE DEF p, free, at, open, d, back
<1>7. ASSUME NEW i \in 1 .. d PROVE back[i - 1] = w[i]
  <2> DEFINE Off == {j \in 1 .. d : back[j - 1] # w[j]}
  <2>1. SUFFICES ASSUME Off # {} PROVE FALSE
    OBVIOUS
  <2>2. PICK j \in Off : \A l \in Off : j <= l
    <3>1. Off \in SUBSET Nat
      BY <1>3
    <3> QED
      BY <2>1, <3>1, LeastOf
  <2>3. j # 1
    BY <1>3, <1>6, <2>2
  <2>4. j \in 1 .. d /\ j - 1 \in 1 .. d /\ j - 1 \in 1 .. d - 1 /\ j - 1 + 1 = j
    BY <1>3, <2>2, <2>3
  <2>5. back[j - 1 - 1] = w[j - 1]
    BY <2>2, <2>4
  <2>6. w[j - 1] # NULL /\ p[w[j - 1]].sibling = w[j]
    <3>1. StepsBack(p, w[j - 1], w[j - 1 + 1])
      BY <1>4, <2>4
    <3> QED
      BY <1>3, <2>4, <3>1 DEF StepsBack, NULL
  <2>7. j - 1 \in Nat \ {0}
    BY <1>3, <2>4
  <2>8. back[j - 1] = w[j]
    BY <1>6, <2>5, <2>6, <2>7
  <2> QED
    BY <2>2, <2>8
<1>8. ASSUME NEW i \in 1 .. d PROVE back[i - 1] # NULL /\ p[back[i - 1]].type = open[i]
  BY <1>3, <1>7 DEF NULL
<1>9. back[d] = NULL
  <2>1. d \in 1 .. d
    BY <1>3
  <2>2. back[d - 1] = 0 /\ 0 # NULL
    BY <1>3, <1>7, <2>1 DEF NULL
  <2> QED
    BY <1>3, <1>4, <1>6, <2>2
<1> QED
  BY <1>8, <1>9 DEF p, open, d, back

\* For every document and size of the pool, the sibling pointers that tiny-json.c borrows
\* lead from the open node through one node for each bracket that is open to the root: its
\* loop has the stack that it does not keep.
THEOREM WayBackKept == Spec => []WayBack
<1>1. Spec => []JInv
  BY TreeGrowsAlways
<1>2. JInv => WayBack
  BY GrowsGivesWayBack
<1> QED
  BY <1>1, <1>2, PTL

\* When json_create returns a root, all brackets of what it read are closed, no pointer of
\* an allocated node leaves the allocated nodes or leads back, and each but the root has
\* one node, an earlier one, that points to it: what json_getChild and json_getSibling walk
\* is a tree, and every walk of it ends.
WholeTree ==
  reading = "root" =>
    /\ Opens(input)[ptr - 1] = <<>>
    /\ nextFree \in 1 .. Qty /\ pool[0].sibling = NULL
    /\ \A n \in 0 .. nextFree - 1 :
         /\ pool[n].sibling \in {NULL} \cup (n + 1 .. nextFree - 1)
         /\ pool[n].type \in Bracket => pool[n].child \in {NULL} \cup (n + 1 .. nextFree - 1)
    /\ \A m \in 1 .. nextFree - 1 :
         /\ \E n \in 0 .. m - 1 : pool[n].sibling = m \/ FirstOf(pool, n, m)
         /\ \A n, k \in 0 .. nextFree - 1 :
              /\ pool[n].sibling = m /\ pool[k].sibling = m => n = k
              /\ FirstOf(pool, n, m) /\ FirstOf(pool, k, m) => n = k
              /\ ~(pool[n].sibling = m /\ FirstOf(pool, k, m))
THEOREM TreeIsWhole == Spec => []WholeTree
<1>1. Spec => []JInv
  BY TreeGrowsAlways
<1>2. JInv => WholeTree
  <2>1. SUFFICES ASSUME Tree PROVE WholeTree
    BY DEF JInv, GivesTree, WholeTree
  <2>2. Opens(input)[ptr - 1] = <<>> /\ nextFree \in 1 .. Qty /\ pool[0].sibling = NULL
    BY <2>1 DEF Tree, Stack
  <2>3. /\ LeadOn(pool, nextFree, {}) /\ Reached(pool, nextFree, {})
        /\ Once(pool, nextFree, {})
    BY <2>1 DEF Tree, Linked
  <2>4. \A n \in 0 .. nextFree - 1 :
          /\ pool[n].sibling \in {NULL} \cup (n + 1 .. nextFree - 1)
          /\ pool[n].type \in Bracket => pool[n].child \in {NULL} \cup (n + 1 .. nextFree - 1)
    BY <2>3 DEF LeadOn, Onward
  <2>5. ASSUME NEW m \in 1 .. nextFree - 1
        PROVE  \E n \in 0 .. m - 1 : pool[n].sibling = m \/ FirstOf(pool, n, m)
    BY <2>3 DEF Reached, Follows
  <2>6. ASSUME NEW m \in 1 .. nextFree - 1, NEW n \in 0 .. nextFree - 1, NEW k \in 0 .. nextFree - 1
        PROVE  /\ pool[n].sibling = m /\ pool[k].sibling = m => n = k
               /\ FirstOf(pool, n, m) /\ FirstOf(pool, k, m) => n = k
               /\ ~(pool[n].sibling = m /\ FirstOf(pool, k, m))
    BY <2>3 DEF Once, Follows
  <2> QED
    BY <2>2, <2>4, <2>5, <2>6 DEF WholeTree
<1> QED
  BY <1>1, <1>2, PTL
=============================================================================
