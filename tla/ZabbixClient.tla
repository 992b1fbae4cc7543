---------------------------- MODULE ZabbixClient -----------------------------
(***************************************************************************)
(* JsonRpcApi::getAlerts of zabbix.cpp: it asks the server for the         *)
(* problems, then for the triggers that they come from, and makes an alert *)
(* of each problem whose trigger and first enabled host are in use.  The   *)
(* server lives on between the two questions.                              *)
(***************************************************************************)
EXTENDS TinyJson, SequencesExt

CONSTANTS
  Problems,   \* lists of problems the server may have: [objectid, clock], texts
  Triggers,   \* what a trigger may be: [status, hosts], hosts of [host, status]
  Noise       \* documents that a server other than Zabbix may reply with

\* No two problems come from one trigger.
ASSUME ZabbixAssumption ==
  \A list \in Problems : \A i, j \in DOMAIN list :
    i # j => list[i].objectid # list[j].objectid

VARIABLES
  step,             \* where getAlerts is
  problems,         \* what the server had at the first question
  triggers,         \* and at the second: [triggerid, status, hosts]
  whole,            \* were both replies complete?
  problem,          \* the vectors that extractProblemData fills, as one
  cursor,           \* the trigger that the loop is at
  start_objectids,
  alerts

clientVars == <<step, problems, triggers, whole, problem, cursor, start_objectids, alerts>>
vars == <<jsonVars, clientVars>>

Init ==
  /\ JsonInit
  /\ step = "fetchProblemData" /\ problems = <<>> /\ triggers = <<>> /\ whole = TRUE
  /\ problem = <<>> /\ cursor = NULL /\ start_objectids = 1 /\ alerts = <<>>

------------------------------------------------------------------------------
(* The server's documents *)

Field(name, value) == <<Token("name", name), Token(JSON_TEXT, value)>>
Number(name) == <<Token("name", name), Token(JSON_INTEGER, "")>>
Object(fields) == <<Mark("{")>> \o fields \o <<Mark("}")>>
Array(items) ==
  <<Mark("[")>> \o FlattenSeq([i \in 1 .. Len(items) |->
                     IF i = 1 THEN items[i] ELSE <<Mark(",")>> \o items[i]]) \o <<Mark("]")>>
List(name, items) == <<Token("name", name)>> \o Array(items)
Result(items) == Object(List("result", items))

\* An id may come as a number, which extractProblemData takes for none.
NotText == ""
IdField(name, id) == IF id = NotText THEN Number(name) ELSE Field(name, id)
ProblemReply(list) ==
  Result([i \in DOMAIN list |->
    Object(IdField("objectid", list[i].objectid) \o Field("clock", list[i].clock))])
HostItem(h) == Object(Field("host", h.host) \o Field("status", h.status))
TriggerReply(list) ==
  Result([i \in DOMAIN list |->
    Object(Field("triggerid", list[i].triggerid) \o Field("status", list[i].status)
           \o List("hosts", [j \in DOMAIN list[i].hosts |-> HostItem(list[i].hosts[j])]))])

Cuts(document) == {SubSeq(document, 1, n) : n \in 0 .. Len(document) - 1}

Confused == /\ \E document \in Noise : json_create(document)
            /\ whole' = FALSE /\ UNCHANGED <<problems, triggers>>

fetchProblemData ==
  /\ step = "fetchProblemData"
  /\ \/ Confused
     \/ \E list \in Problems :
          /\ problems' = list /\ UNCHANGED triggers
          /\ \/ json_create(ProblemReply(list)) /\ UNCHANGED whole
             \/ \E document \in Cuts(ProblemReply(list)) :
                  json_create(document) /\ whole' = FALSE
  /\ step' = "extractProblemData"
  /\ UNCHANGED <<problem, cursor, start_objectids, alerts>>

IdText == <<"1", "2", "3">>
\* std::stoi
stoi == [text \in {"0"} \cup Range(IdText) |->
           IF text = "0" THEN 0 ELSE CHOOSE n \in DOMAIN IdText : IdText[n] = text]

\* For the ids that were asked for, in any order, what the server still knows of them.
Asked == {problem[i].objectid : i \in DOMAIN problem} \ {0}
fetchTriggerData ==
  /\ step = "fetchTriggerData"
  /\ \/ Confused
     \/ \E known \in SUBSET Asked : \E order \in SetToSeqs(known) :
        \E is \in [known -> Triggers] :
          LET list == [i \in DOMAIN order |->
                         [triggerid |-> IdText[order[i]], status |-> is[order[i]].status,
                          hosts |-> is[order[i]].hosts]]
          IN /\ triggers' = list /\ UNCHANGED problems
             /\ \/ json_create(TriggerReply(list)) /\ UNCHANGED whole
                \/ \E document \in Cuts(TriggerReply(list)) :
                     json_create(document) /\ whole' = FALSE
  /\ step' = "matchTriggers"
  /\ UNCHANGED <<problem, cursor, start_objectids, alerts>>

------------------------------------------------------------------------------
(* getAlerts *)

Parse == objValue /\ UNCHANGED clientVars

\* A field's value if it is a text, and otherwise what the code takes instead.
TextOr(node, name, otherwise) ==
  LET p == json_getProperty(node, name)
  IN IF p # NULL /\ pool[p].type = JSON_TEXT THEN pool[p].value ELSE otherwise
NumberOr(node, name, otherwise) ==
  LET text == TextOr(node, name, NotText) IN IF text = NotText THEN otherwise ELSE stoi[text]

\* What the code is lost in: std::stoi throws on a text that is no number, and nobody
\* catches that; and json_getProperty takes the text of a node that is neither object
\* nor array for its first child.
Misleads(node, numbers) ==
  pool[node].type \in Bracket =>
    \E name \in numbers : TextOr(node, name, NotText) \notin {NotText} \cup DOMAIN stoi

HasResult ==
  LET p == json_getProperty(0, "result")
  IN reading = "root" /\ p # NULL /\ pool[p].type = JSON_ARRAY
Results == IF HasResult THEN json_children(json_getProperty(0, "result")) ELSE <<>>

ProblemMisleads == \E i \in DOMAIN Results : Misleads(Results[i], {"objectid", "clock"})
LostInProblems ==
  /\ step = "extractProblemData" /\ ~Parsing /\ ProblemMisleads
  /\ step' = "lost"
  /\ json_free
  /\ UNCHANGED <<problems, triggers, whole, problem, cursor, start_objectids, alerts>>

extractProblemData ==
  /\ step = "extractProblemData" /\ ~Parsing /\ ~ProblemMisleads
  /\ problem' = [i \in DOMAIN Results |->
                   [objectid |-> NumberOr(Results[i], "objectid", 0),
                    clock |-> NumberOr(Results[i], "clock", 0)]]
  /\ step' = "fetchTriggerData"
  /\ json_free
  /\ UNCHANGED <<problems, triggers, whole, cursor, start_objectids, alerts>>

\* The loop begins at the first trigger, or there is none.
BeginMatching ==
  /\ step = "matchTriggers" /\ ~Parsing
  /\ cursor' = IF Results = <<>> THEN NULL ELSE Results[1]
  /\ step' = IF Results = <<>> THEN "done" ELSE "matchTrigger"
  /\ UNCHANGED <<jsonVars, problems, triggers, whole, problem, start_objectids, alerts>>

getTriggerStatus(node) == NumberOr(node, "status", 0) # 0

\* The name of the first host that is enabled.
TriggerHosts(node) ==
  LET array == json_getProperty(node, "hosts")
  IN IF array = NULL \/ pool[array].type # JSON_ARRAY THEN <<>> ELSE json_children(array)
getTriggerHost(node) ==
  LET hosts == TriggerHosts(node)
      on == {i \in DOMAIN hosts : NumberOr(hosts[i], "status", 1) = 0}
      first == CHOOSE i \in on : \A j \in on : i <= j
      names == {i \in 1 .. first : TextOr(hosts[i], "host", NotText) # NotText}
  IN IF on = {} \/ names = {} THEN ""
     ELSE TextOr(hosts[CHOOSE i \in names : \A j \in names : j <= i], "host", NotText)

\* One that it comes to before it has found an enabled one.
HostMisleads(node) ==
  LET hosts == TriggerHosts(node)
  IN \E i \in DOMAIN hosts :
       /\ Misleads(hosts[i], {"status"})
       /\ \A j \in 1 .. i - 1 :
            ~Misleads(hosts[j], {"status"}) /\ NumberOr(hosts[j], "status", 1) # 0
TriggerMisleads ==
  ~Misleads(cursor, {"triggerid", "status"}) =>
    ~getTriggerStatus(cursor) /\ HostMisleads(cursor)
LostInTriggers ==
  /\ step = "matchTrigger" /\ TriggerMisleads
  /\ step' = "lost"
  /\ UNCHANGED <<jsonVars, problems, triggers, whole, problem, cursor, start_objectids, alerts>>

Advanced_Always(start, i) == start + 1
Advanced(start, i) == IF i = start THEN start + 1 ELSE start
matchTrigger ==
  /\ step = "matchTrigger" /\ ~TriggerMisleads
  /\ LET host == getTriggerHost(cursor)
         hits == {i \in start_objectids .. Len(problem) :
                    problem[i].objectid = NumberOr(cursor, "triggerid", -1)}
         hit == CHOOSE i \in hits : \A j \in hits : i <= j
     IN IF getTriggerStatus(cursor) \/ host = "" \/ hits = {}
        THEN UNCHANGED <<alerts, start_objectids>>
        ELSE /\ alerts' = Append(alerts, [clock |-> problem[hit].clock, host |-> host])
             /\ start_objectids' = Advanced(start_objectids, hit)
  /\ cursor' = pool[cursor].sibling
  /\ step' = IF cursor' = NULL THEN "done" ELSE step
  /\ UNCHANGED <<jsonVars, problems, triggers, whole, problem>>

Next ==
  \/ fetchProblemData \/ extractProblemData \/ fetchTriggerData
  \/ Parse \/ BeginMatching \/ matchTrigger \/ LostInProblems \/ LostInTriggers

Spec == Init /\ [][Next]_vars

------------------------------------------------------------------------------
(* Properties *)

\* The alerts are those of the problems whose trigger, as the server has it later, is
\* enabled and has an enabled host, the first of which they name: each once, whatever
\* the order of the second reply and whatever has gone from it; and none at all of a
\* reply that was cut off.
Alertable(p, t) ==
  /\ p.objectid = t.triggerid /\ t.status = "0"
  /\ \E h \in Range(t.hosts) : h.status = "0"
FirstOn(hosts) == SelectSeq(hosts, LAMBDA h : h.status = "0")[1].host
Expected ==
  LET due == {of \in Range(problems) \X Range(triggers) : Alertable(of[1], of[2])}
  IN {[clock |-> stoi[of[1].clock], host |-> FirstOn(of[2].hosts)] : of \in due}
AlertsRight ==
  step = "done" => /\ Range(alerts) = IF whole THEN Expected ELSE {}
                   /\ IsInjective(alerts)
=============================================================================
