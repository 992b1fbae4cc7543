------------------------------ MODULE TinyJson -------------------------------
(***************************************************************************)
(* tiny-json.c, which zabbix.cpp reads the replies of the server with: a   *)
(* parser without recursion that makes a tree of nodes from a pool.  While *)
(* an object or array is open the "sibling" of its node points to its      *)
(* parent instead, and the path back is all the stack that there is.       *)
(*                                                                         *)
(* A document is a sequence of tokens; blanks and the characters of names, *)
(* texts and numbers are left out.  "name" is a string with its colon.     *)
(***************************************************************************)
EXTENDS Integers, Sequences

CONSTANT Qty   \* nodes in the pool

ASSUME TinyJsonAssumption == Qty \in Nat \ {0}

VARIABLES
  input,     \* the document
  ptr,       \* the next token
  pool,
  nextFree,
  obj,       \* the innermost node that is open
  reading    \* "parsing", or what json_create returned: "root" or "null"

jsonVars == <<input, ptr, pool, nextFree, obj, reading>>

Token(kind, value) == [kind |-> kind, value |-> value]
Mark(kind) == Token(kind, "")
JSON_OBJ == "{"
JSON_ARRAY == "["
JSON_TEXT == "text"
JSON_INTEGER == "number"
Bracket == {JSON_OBJ, JSON_ARRAY}

NULL == -1
NodeIndex == 0 .. Qty - 1
Pointer == NodeIndex \cup {NULL}

\* Nothing has written to a node that has not been allocated.
Unwritten == [type |-> "", name |-> "", value |-> "", child |-> 0, last |-> 0, sibling |-> 0]
Root(type) == [Unwritten EXCEPT !.type = type, !.child = NULL, !.sibling = NULL]

JsonInit ==
  /\ input = <<>> /\ ptr = 1 /\ pool = [n \in NodeIndex |-> Unwritten]
  /\ nextFree = 0 /\ obj = NULL /\ reading = "null"

\* The pool is the caller's, on its stack, and gone with the document when it returns.
json_free ==
  /\ input' = <<>> /\ ptr' = 1 /\ pool' = [n \in NodeIndex |-> Unwritten]
  /\ nextFree' = 0 /\ obj' = NULL /\ reading' = "null"

json_create(document) ==
  /\ input' = document
  /\ IF document = <<>> \/ document[1].kind \notin Bracket
     THEN ptr' = 1 /\ reading' = "null" /\ UNCHANGED <<pool, nextFree, obj>>
     ELSE /\ pool' = [[n \in NodeIndex |-> Unwritten] EXCEPT ![0] = Root(document[1].kind)]
          /\ ptr' = 2 /\ nextFree' = 1 /\ obj' = 0 /\ reading' = "parsing"

------------------------------------------------------------------------------
(* objValue: each turn of its loop takes a comma, an end or a property. *)

Ended == ptr > Len(input)
EndOf(type) == IF type = JSON_OBJ THEN "}" ELSE "]"
IsComma == input[ptr].kind = ","
IsEnd == input[ptr].kind = EndOf(pool[obj].type)
Parsing == reading = "parsing"

Fails == reading' = "null" /\ UNCHANGED <<input, ptr, pool, nextFree, obj>>

SkipComma ==
  /\ Parsing /\ ~Ended /\ IsComma
  /\ ptr' = ptr + 1
  /\ UNCHANGED <<input, pool, nextFree, obj, reading>>

Closed(nodes, node) == [nodes EXCEPT ![node].sibling = NULL]
Close ==
  /\ Parsing /\ ~Ended /\ IsEnd
  /\ ptr' = ptr + 1
  /\ IF pool[obj].sibling = NULL
     THEN reading' = "root" /\ UNCHANGED <<pool, obj>>
     ELSE /\ obj' = pool[obj].sibling /\ pool' = Closed(pool, obj)
          /\ UNCHANGED reading
  /\ UNCHANGED <<input, nextFree>>

add_LastStays(nodes, parent, node) ==
  LET end == [nodes EXCEPT ![node].sibling = NULL]
  IN IF end[parent].child = NULL
     THEN [end EXCEPT ![parent].child = node, ![parent].last = node]
     ELSE [end EXCEPT ![end[parent].last].sibling = node]
add(nodes, parent, node) ==
  LET end == [nodes EXCEPT ![node].sibling = NULL]
  IN IF end[parent].child = NULL
     THEN [end EXCEPT ![parent].child = node, ![parent].last = node]
     ELSE [end EXCEPT ![end[parent].last].sibling = node, ![parent].last = node]

Opened_NoWayBack(nodes, node) == [nodes EXCEPT ![node].child = NULL]
Opened(nodes, node) == [nodes EXCEPT ![node].child = NULL, ![node].sibling = obj]

\* An object's properties have names, an array's elements none.
Named == pool[obj].type = JSON_OBJ
ValueAt == IF Named THEN ptr + 1 ELSE ptr
IsValue ==
  /\ Named => input[ptr].kind = "name"
  /\ ValueAt <= Len(input)
  /\ input[ValueAt].kind \in Bracket \cup {JSON_TEXT, JSON_INTEGER}

poolIsEmpty == nextFree >= Qty

AddProperty ==
  /\ Parsing /\ ~Ended /\ ~IsComma /\ ~IsEnd /\ ~poolIsEmpty /\ IsValue
  /\ LET token == input[ValueAt]
         node == nextFree
         made == [pool EXCEPT ![node].name = IF Named THEN input[ptr].value ELSE "",
                              ![node].type = token.kind, ![node].value = token.value]
         added == add(made, obj, node)
     IN IF token.kind \in Bracket
        THEN pool' = Opened(added, node) /\ obj' = node
        ELSE pool' = added /\ UNCHANGED obj
  /\ nextFree' = nextFree + 1 /\ ptr' = ValueAt + 1
  /\ UNCHANGED <<input, reading>>

RefuseProperty ==
  /\ Parsing
  /\ ~Ended => ~IsComma /\ ~IsEnd /\ (poolIsEmpty \/ ~IsValue)
  /\ Fails

objValue == SkipComma \/ Close \/ AddProperty \/ RefuseProperty

------------------------------------------------------------------------------
(* What a caller asks of the tree *)

\* Of an object or array only: the value of another node is where its child would be.
json_children(node) ==
  LET from[n \in Pointer] == IF n = NULL THEN <<>> ELSE <<n>> \o from[pool[n].sibling]
  IN from[pool[node].child]

json_getProperty(node, name) ==
  LET hits == SelectSeq(json_children(node), LAMBDA n : pool[n].name = name)
  IN IF hits = <<>> THEN NULL ELSE hits[1]

------------------------------------------------------------------------------
(* Properties *)

\* The brackets still open after so many tokens, the innermost first.
Opens(document) ==
  LET open[end \in Nat] ==
        IF end = 0 THEN <<>>
        ELSE LET kind == document[end].kind
                 before == open[end - 1]
             IN IF kind \in Bracket THEN <<kind>> \o before
                ELSE IF kind \in {"}", "]"} /\ before # <<>> THEN Tail(before)
                ELSE before
  IN open

\* The node so many steps back from the one that is open.
Back[steps \in Nat] ==
  IF steps = 0 THEN obj
  ELSE LET node == Back[steps - 1] IN IF node = NULL THEN NULL ELSE pool[node].sibling

\* Whatever the document, the path from the open node back through the borrowed
\* sibling pointers is the stack of the brackets that are open, down to the root.
WayBack ==
  Parsing =>
    LET open == Opens(input)[ptr - 1]
    IN /\ \A i \in 1 .. Len(open) : Back[i - 1] # NULL /\ pool[Back[i - 1]].type = open[i]
       /\ Back[Len(open)] = NULL
=============================================================================
