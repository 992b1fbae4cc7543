----------------------------- MODULE CsvService -----------------------------
(***************************************************************************)
(* api_csv.php, which runs beside the Zabbix server and asks it three      *)
(* questions, and main.cpp's reading of its answer: the way of a problem   *)
(* to the display.  Zabbix lives on between the questions, any of which    *)
(* may fail.  A row of the answer is a sequence of fields; one that is no  *)
(* number is -1.                                                           *)
(***************************************************************************)
EXTENDS Integers, FiniteSets, Sequences, Functions

CONSTANTS
  Problems,   \* answers to problem.get: [eventid, objectid, clock, suppressed]
  Triggers,   \* what a trigger may be: [status, hosts], hosts of [hostid, status]
  Messages,   \* numbers of semicolons in an error's message
  MaxRows,    \* rows that main.cpp looks at, the header apart (225)
  Held        \* numbers of a list's rows that may fit the response buffer, the header
              \*   too: two do

ASSUME CsvAssumption ==
  /\ Problems \subseteq Seq([eventid : Nat, objectid : Nat, clock : Nat, suppressed : {0, 1}])
  /\ \A list \in Problems : \A i, j \in DOMAIN list :
       list[i].eventid = list[j].eventid => i = j
  /\ Triggers \subseteq
       [status : {0, 1}, hosts : Seq([hostid : Nat \ {0}, status : {0, 1}])]
  /\ \A t \in Triggers : \A i, j \in DOMAIN t.hosts :
       t.hosts[i].hostid = t.hosts[j].hostid => i = j
  /\ Messages \subseteq Nat /\ MaxRows \in Nat \ {0} /\ Held \subseteq Nat \ {0, 1}

VARIABLES
  step,               \* the next question, or where its answers are
  disaster_triggers,  \* the problems
  event_ack,          \* the events that are acknowledged
  trigger_info,       \* the triggers, by their id: those that still exist
  csv_output,         \* the rows of the reply
  failed,             \* did jsonrpc_call throw?
  closed,             \* did the connection end before the reply did?
  alerts,             \* main.cpp's
  halted              \* has std::stoul thrown?

shownVars == <<closed, alerts, halted>>
vars == <<step, disaster_triggers, event_ack, trigger_info, csv_output, failed, shownVars>>

Init ==
  /\ step = "problem.get" /\ disaster_triggers = <<>> /\ event_ack = {}
  /\ trigger_info = <<>> /\ csv_output = <<>> /\ failed = FALSE
  /\ closed = FALSE /\ alerts = <<>> /\ halted = FALSE

------------------------------------------------------------------------------
(* api_csv.php *)

problem_get ==
  /\ step = "problem.get"
  /\ disaster_triggers' \in Problems
  /\ step' = "event.get"
  /\ UNCHANGED <<event_ack, trigger_info, csv_output, failed, shownVars>>

event_get ==
  /\ step = "event.get"
  /\ event_ack' \in SUBSET {p.eventid : p \in Range(disaster_triggers)}
  /\ step' = "trigger.get"
  /\ UNCHANGED <<disaster_triggers, trigger_info, csv_output, failed, shownVars>>

trigger_get ==
  /\ step = "trigger.get"
  /\ \E known \in SUBSET {p.objectid : p \in Range(disaster_triggers)} :
       trigger_info' \in [known -> Triggers]
  /\ step' = "output"
  /\ UNCHANGED <<disaster_triggers, event_ack, csv_output, failed, shownVars>>

\* jsonrpc_call throws.  The reply is a header and a row, with the message in it.
Word == -1
header == <<Word, Word, Word, Word, Word, Word>>
Exception_Silent ==
  /\ step \in {"problem.get", "event.get", "trigger.get"}
  /\ csv_output' = <<>>
  /\ failed' = TRUE /\ step' = "reply"
  /\ UNCHANGED <<disaster_triggers, event_ack, trigger_info, shownVars>>
Exception ==
  /\ step \in {"problem.get", "event.get", "trigger.get"}
  /\ \E semicolons \in Messages :
       csv_output' = <<Tail(header),
                       <<2, 1>> \o [i \in 1 .. semicolons + 1 |-> Word] \o <<Word, Word>>>>
  /\ failed' = TRUE /\ step' = "reply"
  /\ UNCHANGED <<disaster_triggers, event_ack, trigger_info, shownVars>>

\* What makes a row: an enabled host of an enabled trigger with one of its problems, the
\* host and the problem by their places.
Enabled(t) == trigger_info[t].status # 1
HostsOf(t) == trigger_info[t].hosts
EnabledHosts_All(t) == DOMAIN HostsOf(t)
EnabledHosts(t) == {i \in DOMAIN HostsOf(t) : HostsOf(t)[i].status # 1}
ProblemsOf(t) == {j \in DOMAIN disaster_triggers : disaster_triggers[j].objectid = t}
Joined == UNION {{t} \X EnabledHosts(t) \X ProblemsOf(t) :
                   t \in {u \in DOMAIN trigger_info : Enabled(u)}}
suppressed(p) == IF p.suppressed = 1 \/ p.eventid \in event_ack THEN 1 ELSE 0
RowOf(x) == LET p == disaster_triggers[x[3]]
            IN <<p.clock, 5, suppressed(p), HostsOf(x[1])[x[2]].hostid, Word, Word>>

\* usort: unsuppressed first, then the newest; then as text, for which the order of the
\* hosts' numbers stands: any that tells rows apart does.
Before_OldestFirst(a, b) == IF a[3] # b[3] THEN a[3] < b[3] ELSE a[1] < b[1]
Before(a, b) ==
  IF a[3] # b[3] THEN a[3] < b[3]
  ELSE IF a[1] # b[1] THEN a[1] > b[1] ELSE a[4] < b[4]

\* Rows that compare equal are equal, so the order that the triggers came in is lost:
\* a row has the places after the rows before it, as many as it has equals.
Under(row) == Cardinality({x \in Joined : Before(RowOf(x), row)})
UpTo(row) == Cardinality({x \in Joined : ~Before(row, RowOf(x))})
Sorted == [k \in 1 .. Cardinality(Joined) |->
             CHOOSE row \in {RowOf(x) : x \in Joined} : Under(row) < k /\ k <= UpTo(row)]

output ==
  /\ step = "output"
  /\ csv_output' = IF Joined = {} THEN <<>> ELSE <<header>> \o Sorted
  /\ step' = "reply"
  /\ UNCHANGED <<disaster_triggers, event_ack, trigger_info, failed, shownVars>>

------------------------------------------------------------------------------
(* main.cpp *)

\* A reply may end in any field of a row.
CutIn(row) ==
  IF row < Len(csv_output)
  THEN {Append(SubSeq(csv_output, 1, row), SubSeq(csv_output[row + 1], 1, fields)) :
          fields \in 1 .. Len(csv_output[row + 1])}
  ELSE {}

\* What the buffer holds of it.  An error's message alone may be too long.
Received(held) ==
  IF Len(csv_output) <= held
  THEN {csv_output} \cup IF failed THEN CutIn(1) ELSE {}
  ELSE {SubSeq(csv_output, 1, held)} \cup CutIn(held)

\* The peer closes, or lwIP's poll timer expires, while more is to come: the request is
\* complete, or truncated, with what it has, were that nothing.
Least(a, b) == IF a <= b THEN a ELSE b
Early(held) ==
  UNION {{SubSeq(csv_output, 1, rows)} \cup CutIn(rows) :
           rows \in 0 .. Least(held, Len(csv_output) - 1)}

\* Of the rows that are looked at all but the header.
RowsRead(response) == SubSeq(response, 2, Least(Len(response), MaxRows + 1))

\* Six fields make an alert of four numbers; anything else one without data.
NoData == [clock |-> 0, suppressed |-> 0, hostid |-> 0]
from_csv(row) ==
  IF Len(row) = 6 THEN [clock |-> row[1], suppressed |-> row[3], hostid |-> row[4]] ELSE NoData
Throws_AnySize(row) == \E i \in 1 .. Least(Len(row), 4) : row[i] = Word
Throws(row) == Len(row) = 6 /\ \E i \in 1 .. 4 : row[i] = Word

HandleResponse ==
  /\ step = "reply"
  /\ closed' \in BOOLEAN
  /\ \E held \in Held : \E response \in IF closed' THEN Early(held) ELSE Received(held) :
       IF \E row \in Range(RowsRead(response)) : Throws(row)
       THEN halted' = TRUE /\ UNCHANGED alerts
       ELSE /\ alerts' = [i \in DOMAIN RowsRead(response) |-> from_csv(RowsRead(response)[i])]
            /\ UNCHANGED halted
  /\ step' = "shown"
  /\ UNCHANGED <<disaster_triggers, event_ack, trigger_info, csv_output, failed>>

NextRequest ==
  /\ step' = "problem.get"
  /\ disaster_triggers' = <<>> /\ event_ack' = {} /\ trigger_info' = <<>> /\ csv_output' = <<>>
  /\ failed' = FALSE /\ closed' = FALSE /\ halted' = FALSE
DoRequest == step = "shown" /\ ~halted /\ NextRequest /\ UNCHANGED alerts

\* Nobody catches what std::stoul throws: the program stops, and begins again when it is
\* reset.
Restart == step = "shown" /\ halted /\ NextRequest /\ alerts' = <<>>

Next ==
  \/ problem_get \/ event_get \/ trigger_get \/ Exception \/ output
  \/ HandleResponse \/ DoRequest \/ Restart

Spec == Init /\ [][Next]_vars

------------------------------------------------------------------------------
(* Properties *)

\* What Zabbix has answered: each problem on each enabled host of its enabled trigger,
\* suppressed if it or its acknowledgement says so.
Listed ==
  {x \in Range(disaster_triggers) \X UNION {Range(t.hosts) : t \in Range(trigger_info)} :
     LET p == x[1]
         h == x[2]
     IN /\ p.objectid \in DOMAIN trigger_info /\ trigger_info[p.objectid].status = 0
        /\ h \in Range(trigger_info[p.objectid].hosts) /\ h.status = 0}
AlertOf(x) ==
  [clock |-> x[1].clock, hostid |-> x[2].hostid,
   suppressed |-> IF x[1].suppressed = 1 \/ x[1].eventid \in event_ack THEN 1 ELSE 0]
Due(a) == Cardinality({x \in Listed : AlertOf(x) = a})

Shown == step = "shown" /\ ~halted
Times(a) == Cardinality({i \in DOMAIN alerts : alerts[i] = a})
Known == Range(alerts) \ {NoData}

\* The alerts on display are what Zabbix answered: none is made up or shown twice,
\* and none is missing unless the buffer or the limit on rows leaves it out, or the
\* connection ended early.  Only a row that is cut, the last, can make an alert without
\* data.
ListRight ==
  Shown /\ ~failed =>
    /\ \A a \in Known : Times(a) <= Due(a)
    /\ closed \/ \E held \in Held :
         Len(alerts) >= Least(Cardinality(Listed), Least(MaxRows, held - 1))
    /\ \A i \in DOMAIN alerts : alerts[i] = NoData =>
         /\ i = Len(alerts) /\ i < Cardinality(Listed) + 1
         /\ closed \/ \E held \in Held : i = held

\* What is left out is no more urgent than anything shown: suppressed problems go
\* first, then the oldest, whatever the order of the server's answers.
MoreUrgent(a, b) ==
  a.suppressed < b.suppressed \/ (a.suppressed = b.suppressed /\ a.clock > b.clock)
MostUrgentShown ==
  Shown /\ ~failed =>
    \A x \in Listed : LET a == AlertOf(x) IN
      Times(a) < Due(a) => \A b \in Known : ~MoreUrgent(a, b)

\* An empty display means that there was nothing to show, never that the service
\* failed to find out; unless the connection ended early, with the response nothing but
\* a header or not even that.
ClearMeansNone == Shown /\ alerts = <<>> /\ ~closed => ~failed /\ Listed = {}

\* A field that is no number never gets as far as std::stoul, which throws, from a
\* list, wherever it is cut; nor from an error whose message has no semicolon.  One that
\* has makes a row of six fields, or of more that can be cut to six.
OnlyErrorsThrow == halted => failed /\ Len(csv_output[2]) > 5
=============================================================================
