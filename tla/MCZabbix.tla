------------------------------ MODULE MCZabbix -------------------------------
(***************************************************************************)
(* Small instances of ZabbixClient: up to three problems, no two of one    *)
(* time, and their triggers; every short document for the parser, and the  *)
(* largest that its pool just holds and just does not.                     *)
(***************************************************************************)
EXTENDS ZabbixClient, JsonGrammar

P(id, clock) == [objectid |-> id, clock |-> clock]
MCProblems == {<<>>, <<P("1", "1")>>, <<P("1", "1"), P("2", "2")>>, <<P(NotText, "1"), P("2", "2")>>,
               <<P("2", "1"), P("1", "2"), P("3", "3")>>}

H(host, status) == [host |-> host, status |-> status]
T(status, hosts) == [status |-> status, hosts |-> hosts]
MCTriggers ==
  {T("0", <<H("a", "0")>>), T("1", <<H("a", "0")>>), T("0", <<>>),
   T("0", <<H("a", "1"), H("b", "0")>>), T("0", <<H("a", "1")>>)}

Alphabet ==
  {Mark(k) : k \in {"{", "}", "[", "]", ","}}
    \cup {Token("name", "x"), Token(JSON_TEXT, "1"), Token(JSON_INTEGER, "")}
UpTo(n) == UNION {[1 .. m -> Alphabet] : m \in 0 .. n}
Numbers(n) == Array([i \in 1 .. n |-> <<Mark(JSON_INTEGER)>>])
\* No list of what was asked for: a text, a text that is no number, an array.
Misleading ==
  {Result(<<item>>) :
     item \in {<<Token(JSON_TEXT, "1")>>, Object(Field("clock", "x")), <<Mark("["), Mark("]")>>,
               Object(Field("status", "x")),
               Object(List("hosts", <<HostItem(H("a", "1")), <<Token(JSON_TEXT, "1")>>>>))}}
MCNoise ==
  UpTo(4) \cup {Object(<<Token("name", "result")>> \o value) : value \in UpTo(2)}
    \cup {Numbers(Qty - 1), Numbers(Qty)} \cup Misleading
=============================================================================
