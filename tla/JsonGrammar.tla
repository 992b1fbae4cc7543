---------------------------- MODULE JsonGrammar -----------------------------
(***************************************************************************)
(* What TinyJson should make of a document, by the grammar of JSON.  These *)
(* operators are recursive, where the parser has none of it.               *)
(***************************************************************************)
EXTENDS TinyJson

\* A document read by its grammar, commas being optional everywhere as they are here.
Tree(type, name, value, kids) == [type |-> type, name |-> name, value |-> value, kids |-> kids]
Misread == [ok |-> FALSE]
RECURSIVE Items(_, _, _)
Items(i, type, name) ==
  LET Rest(from, kid) ==
        LET rest == Items(from, type, name)
        IN IF rest.ok THEN [rest EXCEPT !.tree.kids = <<kid>> \o @] ELSE Misread
      at == IF type = JSON_OBJ THEN i + 1 ELSE i
      as == IF type = JSON_OBJ THEN input[i].value ELSE ""
      inner == Items(at + 1, input[at].kind, as)
  IN IF i > Len(input) THEN Misread
     ELSE IF input[i].kind = "," THEN Items(i + 1, type, name)
     ELSE IF input[i].kind = EndOf(type)
     THEN [ok |-> TRUE, next |-> i + 1, tree |-> Tree(type, name, "", <<>>)]
     ELSE IF (type = JSON_OBJ /\ input[i].kind # "name") \/ at > Len(input) THEN Misread
     ELSE IF input[at].kind \in {JSON_TEXT, JSON_INTEGER}
     THEN Rest(at + 1, Tree(input[at].kind, as, input[at].value, <<>>))
     ELSE IF input[at].kind \in Bracket /\ inner.ok THEN Rest(inner.next, inner.tree)
     ELSE Misread

Document ==
  IF input = <<>> \/ input[1].kind \notin Bracket THEN Misread ELSE Items(2, input[1].kind, "")

RECURSIVE Nodes(_)
Nodes(tree) ==
  LET Sum[i \in 0 .. Len(tree.kids)] == IF i = 0 THEN 1 ELSE Sum[i - 1] + Nodes(tree.kids[i])
  IN Sum[Len(tree.kids)]

RECURSIVE TreeOf(_)
TreeOf(node) ==
  LET kids == IF pool[node].type \in Bracket THEN json_children(node) ELSE <<>>
  IN Tree(pool[node].type, pool[node].name, pool[node].value,
          [i \in 1 .. Len(kids) |-> TreeOf(kids[i])])

\* The parser makes the tree that the grammar gives, or none when there is none or the
\* pool is too small for it.
ReadsDocument ==
  CASE reading = "root" -> Document.ok /\ TreeOf(0) = Document.tree
    [] reading = "null" -> Document.ok => Nodes(Document.tree) > Qty
    [] OTHER -> TRUE
=============================================================================
