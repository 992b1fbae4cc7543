-------------------------------- MODULE MCCsv --------------------------------
(***************************************************************************)
(* Small instances of CsvService: up to four problems of two triggers,     *)
(* hosts that are enabled or not, and more rows than the display takes.    *)
(***************************************************************************)
EXTENDS CsvService

P(event, object, clock, is) ==
  [eventid |-> event, objectid |-> object, clock |-> clock, suppressed |-> is]
MCProblems ==
  {<<>>, <<P(1, 1, 5, 0)>>, <<P(1, 1, 5, 0), P(2, 1, 6, 0)>>,
   <<P(1, 1, 5, 1), P(2, 2, 5, 0), P(3, 1, 7, 0)>>,
   <<P(1, 1, 7, 0), P(2, 2, 8, 1), P(3, 2, 7, 0), P(4, 1, 6, 0)>>}

H(id, status) == [hostid |-> id, status |-> status]
T(status, hosts) == [status |-> status, hosts |-> hosts]
MCTriggers ==
  {T(0, <<H(1, 0)>>), T(1, <<H(1, 0)>>), T(0, <<>>), T(0, <<H(1, 1), H(2, 0)>>),
   T(0, <<H(2, 0), H(1, 0)>>)}
=============================================================================
