---------------------------- MODULE DisplayProofs ----------------------------
(***************************************************************************)
(* The safety properties of Display, proved for every number of addresses, *)
(* control blocks and buffers, every server and every limit.  The first    *)
(* half (HeapInv) holds whatever happens, overwritten memory included; the *)
(* second (Connections) until a callback has used overwritten memory.      *)
(* Last, that the main loop and the HTTP client implement RequestLife.     *)
(***************************************************************************)
EXTENDS DisplayLife, TLAPS

------------------------------------------------------------------------------
(* What one segment can do to a request, for every response, every way of  *)
(* cutting it and every limit.                                             *)

\* A segment of a response: a non-empty stretch of its units.
Segment == [from : Nat, to : Nat, code : Nat, clen : Nat]

\* The stages that recv_callback acts in.
ReceiveStates == {"RESPONSE_STATUS", "HEADERS", "DATA"}

\* A uint16_t is below its modulus.
LEMMA ModRange ==
  ASSUME NEW n \in Nat
  PROVE  n % U16 \in 0 .. U16 - 1
  BY ResponseAssumption DEF ResponseAssumption

\* The status line changes nothing but the code and the status.
LEMMA StatusStageLemma ==
  ASSUME NEW r \in Request, NEW s \in Segment, NEW q \in StatusStage(r, s)
  PROVE  /\ q \in Request
         /\ q = r \/ (/\ r.status = "RESPONSE_STATUS"
                      /\ q.status = "HEADERS"
                      /\ q = [r EXCEPT !.code = q.code, !.status = "HEADERS"])
<1>1. CASE r.status = "RESPONSE_STATUS" /\ HasLine(s)
  <2>1. ParsedCodes(s) \subseteq Nat
    BY ModRange, ResponseAssumption DEF ParsedCodes, Segment, ResponseAssumption
  <2>2. CASE q = r
    BY <2>2
  <2>3. CASE \E c \in ParsedCodes(s) : q = [r EXCEPT !.code = c, !.status = "HEADERS"]
    BY <1>1, <2>1, <2>3 DEF Request, Status, NetStates
  <2> QED
    BY <1>1, <2>2, <2>3 DEF StatusStage
<1>2. CASE ~(r.status = "RESPONSE_STATUS" /\ HasLine(s))
  BY <1>2 DEF StatusStage
<1> QED
  BY <1>1, <1>2

\* The headers size the body and its buffer, or fail the request.
LEMMA HeaderStageLemma ==
  ASSUME NEW r \in Request, Bounded(r), NEW s \in Segment,
         s.from < s.to, NEW o \in HeaderStage(r, s)
  PROVE  /\ o.req \in Request
         /\ o.left \in Nat
         /\ o.failed \in BOOLEAN
         /\ r.status # "FAILED" => (o.failed <=> o.req.status = "FAILED")
         /\ Bounded(o.req)
         /\ Fits(r) => Fits(o.req)
         /\ o.req.pcb = r.pcb
         /\ r.status # "HEADERS" => o.req = r
         /\ r.status = "HEADERS" => o.req.status \in {"HEADERS", "DATA", "FAILED"}
<1> DEFINE sized == [r EXCEPT !.clen = SegmentLength(s)]
           cap   == Least(MaxSize, sized.clen)
           fail  == [req |-> [sized EXCEPT !.status = "FAILED"],
                     left |-> s.to - s.from, failed |-> TRUE]
           pass  == [req |-> r, left |-> s.to - s.from, failed |-> FALSE]
           stay  == [req |-> [r EXCEPT !.clen = Unset], left |-> s.to - s.from,
                     failed |-> FALSE]
           body  == [req |-> [sized EXCEPT !.cap = cap, !.len = 0, !.status = "DATA"],
                     left |-> s.to - HeaderUnits, failed |-> FALSE]
<1>1. SegmentLength(s) \in 0 .. Unset
  BY ModRange, ResponseAssumption DEF SegmentLength, Unset, Segment, ResponseAssumption
<1>2. \/ o = pass /\ r.status # "HEADERS"
      \/ o = stay /\ r.status = "HEADERS"
      \/ o = fail /\ r.status = "HEADERS"
      \/ o = body /\ r.status = "HEADERS" /\ s.to >= 5
  BY DEF HeaderStage, HasHeaderEnd, BufferSize, BodyPart
<1>3. s.to - s.from \in Nat
  BY DEF Segment
<1>4. CASE o = pass /\ r.status # "HEADERS"
  BY <1>3, <1>4
<1>5. CASE o = stay /\ r.status = "HEADERS"
  BY <1>3, <1>5, ResponseAssumption
     DEF Request, Unset, ResponseAssumption, Bounded, Fits
<1>6. CASE o = fail /\ r.status = "HEADERS"
  <2>1. sized \in Request
    BY <1>1 DEF Request
  <2>2. fail.req \in Request
    BY <2>1 DEF Request, Status, EndStates
  <2> QED
    BY <1>3, <1>6, <2>2 DEF Bounded, Fits, Request
<1>7. CASE o = body /\ r.status = "HEADERS" /\ s.to >= 5
  <2>1. /\ sized \in Request
        /\ sized.clen = SegmentLength(s)
        /\ sized.pcb = r.pcb
    BY <1>1 DEF Request
  <2>2. cap \in 0 .. MaxSize /\ cap = Least(MaxSize, sized.clen)
    BY <1>1, <2>1, ResponseAssumption DEF Least, ResponseAssumption, Unset
  <2> HIDE DEF sized, cap
  <2>3. /\ body.req \in Request
        /\ body.req.status = "DATA" /\ body.req.cap = cap /\ body.req.len = 0
        /\ body.req.clen = sized.clen /\ body.req.pcb = sized.pcb
    <3>1. "DATA" \in Status /\ cap \in -1 .. MaxSize /\ 0 \in 0 .. MaxSize
      BY <2>2, ResponseAssumption DEF Status, NetStates, ResponseAssumption
    <3>2. body.req = [sized EXCEPT !.cap = cap, !.len = 0, !.status = "DATA"]
      OBVIOUS
    <3> HIDE DEF body
    <3> QED
      BY <2>1, <3>1, <3>2 DEF Request
  <2>4. sized.clen \in Nat
    BY <2>1 DEF Request
  <2>5. Bounded(body.req) /\ Fits(body.req)
    BY <2>2, <2>3, <2>4 DEF Bounded, Fits
  <2>6. body.left \in Nat /\ body.failed = FALSE
    BY <1>7 DEF Segment, HeaderUnits
  <2> HIDE DEF body
  <2> QED
    BY <1>7, <2>1, <2>3, <2>5, <2>6
<1> QED
  BY <1>2, <1>4, <1>5, <1>6, <1>7

\* The body is copied within the buffer, and counted.
LEMMA DataStageLemma ==
  ASSUME NEW r \in Request, Bounded(r), r.status = "DATA", NEW left \in Nat
  PROVE  LET d == DataStage(r, left)
         IN /\ d.req \in Request
            /\ d.req.status \in {"DATA", "TRUNCATED", "COMPLETE"}
            /\ d.left \in Nat
            /\ Bounded(d.req)
            /\ Fits(r) => Fits(d.req)
            /\ d.req.pcb = r.pcb
<1> DEFINE seen   == IF left = 0 THEN RomLen ELSE left
           byMax  == IF r.len + seen > MaxSize THEN MaxSize - r.len ELSE seen
           byLen  == IF r.len + byMax > r.clen THEN r.clen - r.len ELSE byMax
           copied == IF left = 0 THEN 0 ELSE byLen
           len    == r.len + copied
           next   == IF byLen < seen THEN "TRUNCATED"
                     ELSE IF Reached(r, len) THEN "COMPLETE" ELSE "DATA"
<1>1. /\ r.len \in 0 .. MaxSize /\ r.len \in Nat /\ r.clen \in 0 .. Unset /\ r.clen \in Nat
      /\ r.cap \in -1 .. MaxSize /\ MaxSize \in Nat /\ RomLen \in Nat
  BY ResponseAssumption DEF Request, Unset, ResponseAssumption
<1>2. /\ r.len <= r.clen
      /\ Fits(r) => r.cap = Least(MaxSize, r.clen)
  BY DEF Bounded, Fits
<1>3. seen \in Nat /\ (left # 0 => seen = left)
  BY <1>1
<1> HIDE DEF seen
<1>4. byMax \in Nat /\ byMax <= seen /\ r.len + byMax <= MaxSize
  BY <1>1, <1>3
<1> HIDE DEF byMax
<1>5. /\ byLen \in Nat /\ byLen <= byMax /\ r.len + byLen <= r.clen
  BY <1>1, <1>2, <1>4
<1> HIDE DEF byLen
<1>6. copied \in Nat /\ copied <= byLen /\ copied <= left
  BY <1>3, <1>4, <1>5
<1> HIDE DEF copied
<1>7. len \in 0 .. MaxSize /\ len <= r.clen /\ len <= Least(MaxSize, r.clen)
  BY <1>1, <1>2, <1>4, <1>5, <1>6 DEF Least
<1> HIDE DEF len
<1>8. next \in {"DATA", "TRUNCATED", "COMPLETE"}
  OBVIOUS
<1> HIDE DEF next
<1>9. DataStage(r, left) = [req |-> [r EXCEPT !.len = len, !.status = next],
                            left |-> left - copied]
  BY Zenon DEF DataStage, Room, next, len, copied, byLen, byMax, seen
<1> DEFINE q == [r EXCEPT !.len = len, !.status = next]
<1>10. /\ q \in Request /\ q.status = next /\ q.len = len
       /\ q.clen = r.clen /\ q.cap = r.cap /\ q.pcb = r.pcb
  BY <1>7, <1>8 DEF Request, Status, NetStates, EndStates, DoneStates
<1> HIDE DEF q
<1>11. Bounded(q) /\ (Fits(r) => Fits(q))
  BY <1>1, <1>2, <1>7, <1>10 DEF Bounded, Fits
<1>12. left - copied \in Nat
  BY <1>6
<1>13. DataStage(r, left).req = q /\ DataStage(r, left).left = left - copied
  BY <1>9 DEF q
<1> QED
  BY <1>7, <1>8, <1>10, <1>11, <1>12, <1>13

\* The whole callback, on any segment of any response: the request stays well
\* typed and within its buffer, is changed only while a response is expected,
\* and fails exactly when its pcb is to be closed.
LEMMA RecvLemma ==
  ASSUME NEW r \in Request, Bounded(r), NEW s \in Segment,
         s.from < s.to, NEW o \in RecvOutcomes(r, s)
  PROVE  /\ o.req \in Request
         /\ o.failed \in BOOLEAN /\ o.leaks \in BOOLEAN
         /\ r.status # "FAILED" => (o.failed <=> o.req.status = "FAILED")
         /\ Bounded(o.req)
         /\ Fits(r) => Fits(o.req)
         /\ o.req.pcb = r.pcb
         /\ r.status \notin ReceiveStates => o.req = r
         /\ r.status \in ReceiveStates =>
              o.req.status \in ReceiveStates \cup DoneStates \cup {"FAILED"}
         /\ r.status = "HEADERS" => o.req.status # "RESPONSE_STATUS"
         /\ r.status = "DATA" => o.req.status \notin {"RESPONSE_STATUS", "HEADERS"}
<1> DEFINE finish(h) ==
             IF h.req.status = "DATA"
               THEN LET d == DataStage(h.req, h.left)
                    IN [req |-> d.req, failed |-> FALSE, leaks |-> d.left > 0]
               ELSE [req |-> h.req, failed |-> h.failed, leaks |-> TRUE]
<1>1. PICK q \in StatusStage(r, s) : \E h \in HeaderStage(q, s) : o = finish(h)
  BY Zenon DEF RecvOutcomes
<1>12. PICK h \in HeaderStage(q, s) : o = finish(h)
  BY <1>1
<1>2. /\ q \in Request /\ Bounded(q) /\ q.pcb = r.pcb
      /\ Fits(r) => Fits(q)
      /\ r.status \notin ReceiveStates => q = r
      /\ r.status \in ReceiveStates => q.status \in ReceiveStates
      /\ q = r \/ r.status = "RESPONSE_STATUS"
  <2>1. /\ q \in Request
        /\ q = r \/ (/\ r.status = "RESPONSE_STATUS"
                     /\ q.status = "HEADERS"
                     /\ q = [r EXCEPT !.code = q.code, !.status = "HEADERS"])
    BY StatusStageLemma
  <2>2. CASE q = r
    BY <2>2
  <2>3. CASE /\ r.status = "RESPONSE_STATUS"
             /\ q.status = "HEADERS"
             /\ q = [r EXCEPT !.code = q.code, !.status = "HEADERS"]
    <3>1. q.len = r.len /\ q.cap = r.cap /\ q.pcb = r.pcb
      BY <2>3 DEF Request
    <3> QED
      BY <2>1, <2>3, <3>1 DEF Bounded, Fits, ReceiveStates
  <2> QED
    BY <2>1, <2>2, <2>3
<1>3. /\ h.req \in Request /\ h.left \in Nat /\ h.failed \in BOOLEAN
      /\ q.status # "FAILED" => (h.failed <=> h.req.status = "FAILED")
      /\ Bounded(h.req)
      /\ Fits(q) => Fits(h.req)
      /\ h.req.pcb = q.pcb
      /\ q.status # "HEADERS" => h.req = q
      /\ q.status = "HEADERS" => h.req.status \in {"HEADERS", "DATA", "FAILED"}
  BY <1>2, HeaderStageLemma
<1>4. CASE h.req.status = "DATA"
  <2> DEFINE d == DataStage(h.req, h.left)
  <2>1. /\ d.req \in Request /\ d.left \in Nat
        /\ d.req.status \in {"DATA", "TRUNCATED", "COMPLETE"}
        /\ Bounded(d.req) /\ d.req.pcb = h.req.pcb
        /\ Fits(h.req) => Fits(d.req)
    BY <1>3, <1>4, DataStageLemma
  <2>2. o = [req |-> d.req, failed |-> FALSE, leaks |-> d.left > 0]
    BY <1>12, <1>4
  <2> HIDE DEF d
  <2>3. o.req = d.req /\ o.failed = FALSE /\ o.leaks \in BOOLEAN
    <3> DEFINE leaks == d.left > 0
    <3>1. leaks \in BOOLEAN
      OBVIOUS
    <3>2. o = [req |-> d.req, failed |-> FALSE, leaks |-> leaks]
      BY <2>2
    <3> HIDE DEF leaks
    <3> QED
      BY <3>1, <3>2
  <2>4. r.status \in ReceiveStates
    BY <1>2, <1>3, <1>4 DEF ReceiveStates
  <2> QED
    BY <1>2, <1>3, <2>1, <2>3, <2>4 DEF ReceiveStates, DoneStates
<1>5. CASE h.req.status # "DATA"
  <2>1. o.req = h.req /\ o.failed = h.failed /\ o.leaks = TRUE
    BY <1>12, <1>5
  <2> QED
    BY <1>2, <1>3, <2>1 DEF ReceiveStates
<1> QED
  BY <1>4, <1>5

------------------------------------------------------------------------------
(* The steps that calls and callbacks share. *)

Blocks == [Pcb -> ControlBlock]

\* The step leaves at address a, and only there, a request that is as well
\* formed as r.
Writes(a, r) ==
  \E q \in Request :
    /\ mem' = [mem EXCEPT ![a] = q]
    /\ Bounded(q)
    /\ Fits(r) => Fits(q)

\* The two kinds of write that the actions are made of.
LEMMA WriteStatus ==
  ASSUME NEW r \in Request, NEW st \in Status \ {"DATA"}, NEW q \in Pcb \cup {NULL}
  PROVE  LET w == [r EXCEPT !.status = st, !.pcb = q]
         IN /\ w \in Request /\ Bounded(w) /\ (Fits(r) => Fits(w))
            /\ w.status = st /\ w.pcb = q
<1> DEFINE w == [r EXCEPT !.status = st, !.pcb = q]
<1>1. /\ w \in Request /\ w.status = st /\ w.pcb = q
      /\ w.len = r.len /\ w.cap = r.cap
  BY DEF Request
<1> HIDE DEF w
<1>2. Bounded(w) /\ (Fits(r) => Fits(w))
  BY <1>1 DEF Bounded, Fits
<1> QED
  BY <1>1, <1>2 DEF w

LEMMA FreePcbType == FreePcb \in ControlBlock
  BY ClientAssumption DEF FreePcb, ControlBlock, ClientAssumption

LEMMA CloseType ==
  ASSUME NEW pcbs \in Blocks, NEW q
  PROVE  Close(pcbs, q) \in Blocks
  BY FreePcbType DEF Close, Blocks

LEMMA FailLemma ==
  ASSUME NEW r \in Request, NEW a \in Addr, NEW pcbs \in Blocks, Fail(r, a, pcbs)
  PROVE  Writes(a, r) /\ pcb' \in Blocks
<1> DEFINE w == [r EXCEPT !.status = "FAILED", !.pcb = NULL]
<1>1. w \in Request /\ Bounded(w) /\ (Fits(r) => Fits(w))
  BY WriteStatus DEF Status, EndStates
<1>2. mem' = [mem EXCEPT ![a] = w]
  BY DEF Fail
<1>3. pcb' \in Blocks
  BY CloseType DEF Fail
<1> HIDE DEF w
<1> QED
  BY <1>1, <1>2, <1>3 DEF Writes

LEMMA ConnectLemma ==
  ASSUME NEW r \in Request, NEW a \in Addr, NEW pcbs \in Blocks, Connect(r, a, pcbs)
  PROVE  Writes(a, r) /\ pcb' \in Blocks
<1>1. CASE /\ r.pcb # NULL
           /\ mem' = [mem EXCEPT ![a] = [r EXCEPT !.status = "CONNECT"]]
           /\ pcb' = [pcbs EXCEPT ![r.pcb].st = "syn", ![r.pcb].acks = Flights]
  <2> DEFINE w == [r EXCEPT !.status = "CONNECT"]
  <2>1. w \in Request /\ Bounded(w) /\ (Fits(r) => Fits(w))
    <3>1. /\ w \in Request /\ w.status = "CONNECT"
          /\ w.len = r.len /\ w.cap = r.cap
      BY DEF Request, Status, NetStates
    <3> HIDE DEF w
    <3> QED
      BY <3>1 DEF Bounded, Fits
  <2>2. pcb' \in Blocks
    <3>1. r.pcb \in Pcb /\ Flights \in Nat
      BY <1>1, ClientAssumption DEF Request, ClientAssumption
    <3> QED
      BY <1>1, <3>1 DEF Blocks, ControlBlock
  <2>3. mem' = [mem EXCEPT ![a] = w]
    BY <1>1
  <2> HIDE DEF w
  <2> QED
    BY <2>1, <2>2, <2>3 DEF Writes
<1>2. CASE Fail(r, a, pcbs)
  BY <1>2, FailLemma
<1> QED
  BY <1>1, <1>2 DEF Connect

LEMMA LookupLemma ==
  ASSUME NEW r \in Request, NEW a \in Addr, NEW pcbs \in Blocks, Lookup(r, a, pcbs)
  PROVE  Writes(a, r) /\ pcb' \in Blocks /\ dns' \in {dns, dns \cup {a}}
<1>1. CASE /\ mem' = [mem EXCEPT ![a] = [r EXCEPT !.status = "DNS"]]
           /\ pcb' = pcbs
           /\ dns' = dns \cup {a}
  <2> DEFINE w == [r EXCEPT !.status = "DNS"]
  <2>1. /\ w \in Request /\ w.status = "DNS"
        /\ w.len = r.len /\ w.cap = r.cap
    BY DEF Request, Status, NetStates
  <2>2. mem' = [mem EXCEPT ![a] = w]
    BY <1>1
  <2> HIDE DEF w
  <2> QED
    BY <1>1, <2>1, <2>2 DEF Writes, Bounded, Fits
<1>2. CASE Connect(r, a, pcbs) /\ UNCHANGED dns
  BY <1>2, ConnectLemma
<1>3. CASE Fail(r, a, pcbs) /\ UNCHANGED dns
  BY <1>3, FailLemma
<1> QED
  BY <1>1, <1>2, <1>3 DEF Lookup

\* start_request on a request that has no pcb yet and has received nothing.
LEMMA StartLemma ==
  ASSUME NEW r \in Request, Bounded(r), NEW a \in Addr, pcb \in Blocks,
         halted \in BOOLEAN, StartRequest(r, a)
  PROVE  /\ Writes(a, r) /\ pcb' \in Blocks
         /\ dns' \in {dns, dns \cup {a}} /\ halted' \in BOOLEAN
<1>1. ASSUME NEW p \in Pcb,
             Lookup([r EXCEPT !.pcb = p], a, [pcb EXCEPT ![p].st = "idle", ![p].arg = a]),
             UNCHANGED halted
      PROVE  /\ Writes(a, r) /\ pcb' \in Blocks
             /\ dns' \in {dns, dns \cup {a}} /\ halted' \in BOOLEAN
  <2> DEFINE w == [r EXCEPT !.pcb = p]
  <2>1. w \in Request /\ w.len = r.len /\ w.cap = r.cap /\ w.status = r.status
        /\ w.clen = r.clen
    BY DEF Request
  <2>2. [pcb EXCEPT ![p].st = "idle", ![p].arg = a] \in Blocks
    BY DEF Blocks, ControlBlock
  <2> HIDE DEF w
  <2>3. Writes(a, w) /\ pcb' \in Blocks /\ dns' \in {dns, dns \cup {a}}
    BY <1>1, <2>1, <2>2, LookupLemma DEF w
  <2>4. Fits(r) => Fits(w)
    BY <2>1 DEF Fits
  <2> QED
    BY <1>1, <2>3, <2>4 DEF Writes
<1>2. ASSUME Lookup([r EXCEPT !.pcb = NULL], a, pcb), UNCHANGED halted
      PROVE  /\ Writes(a, r) /\ pcb' \in Blocks
             /\ dns' \in {dns, dns \cup {a}} /\ halted' \in BOOLEAN
  <2> DEFINE w == [r EXCEPT !.pcb = NULL]
  <2>1. w \in Request /\ w.len = r.len /\ w.cap = r.cap /\ w.status = r.status
        /\ w.clen = r.clen
    BY DEF Request
  <2> HIDE DEF w
  <2>2. Writes(a, w) /\ pcb' \in Blocks /\ dns' \in {dns, dns \cup {a}}
    BY <1>2, <2>1, LookupLemma DEF w
  <2>3. Fits(r) => Fits(w)
    BY <2>1 DEF Fits
  <2> QED
    BY <1>2, <2>2, <2>3 DEF Writes
<1>3. ASSUME halted' = TRUE, mem' = [mem EXCEPT ![a] = r], UNCHANGED <<pcb, dns>>
      PROVE  /\ Writes(a, r) /\ pcb' \in Blocks
             /\ dns' \in {dns, dns \cup {a}} /\ halted' \in BOOLEAN
  BY <1>3 DEF Writes
<1> QED
  BY <1>1, <1>2, <1>3 DEF StartRequest

------------------------------------------------------------------------------
(* Every step of the client keeps ClientInv. *)

\* A write to one address keeps the requests as they should be.
LEMMA WriteKeeps ==
  ASSUME ClientInv, NEW a \in Addr, NEW r, Writes(a, r),
         live' \subseteq live \cup {a}, a \in live' => Fits(r)
  PROVE  mem' \in [Addr -> Request] /\ BodyBounded' /\ BufferFits'
<1>1. PICK q \in Request : /\ mem' = [mem EXCEPT ![a] = q]
                           /\ Bounded(q)
                           /\ Fits(r) => Fits(q)
  BY DEF Writes
<1>2. mem \in [Addr -> Request]
  BY DEF ClientInv, ClientType
<1>3. mem' \in [Addr -> Request] /\ mem'[a] = q
  BY <1>1, <1>2
<1>4. \A b \in Addr \ {a} : mem'[b] = mem[b]
  BY <1>1, <1>2
<1>5. BodyBounded'
  <2> SUFFICES ASSUME NEW b \in Addr PROVE Bounded(mem'[b])
    BY DEF BodyBounded
  <2> QED
    BY <1>1, <1>3, <1>4 DEF ClientInv, BodyBounded
<1>6. BufferFits'
  <2> SUFFICES ASSUME NEW b \in live' PROVE Fits(mem'[b])
    BY DEF BufferFits
  <2>1. b \in Addr
    BY DEF ClientInv, ClientType
  <2> QED
    BY <1>1, <1>3, <1>4, <2>1 DEF ClientInv, BufferFits
<1> QED
  BY <1>3, <1>5, <1>6

\* Nothing but time, the link and other users of the heap leaves mem alone.
LEMMA SameMem ==
  ASSUME ClientInv, UNCHANGED mem, live' \subseteq live
  PROVE  mem' \in [Addr -> Request] /\ BodyBounded' /\ BufferFits'
  BY DEF ClientInv, ClientType, BodyBounded, BufferFits

LEMMA EmptyRequestType ==
  EmptyRequest \in Request /\ Bounded(EmptyRequest) /\ Fits(EmptyRequest)
<1>1. /\ 0 \in 0 .. MaxSize /\ -1 \in -1 .. MaxSize /\ 0 \in 0 .. Unset
      /\ 0 \in 0 .. RetryTicks /\ "NONE" \in Status
  BY ResponseAssumption, ClientAssumption
     DEF ResponseAssumption, ClientAssumption, Unset, Status, WifiStates
<1> QED
  BY <1>1 DEF EmptyRequest, Request, Bounded, Fits

LEMMA InitClientInv == ASSUME ClientInit PROVE ClientInv
<1>1. leaked \in 0 .. PoolSize
  BY ClientAssumption DEF ClientInit, ClientAssumption
<1>2. ClientType
  BY <1>1, EmptyRequestType, FreePcbType DEF ClientInit, ClientType
<1>3. BodyBounded /\ BufferFits
  BY EmptyRequestType DEF ClientInit, BodyBounded, BufferFits
<1> QED
  BY <1>2, <1>3 DEF ClientInv

LEMMA Open2Keeps ==
  ASSUME ClientInv, NEW a \in Addr, Open2(a)
  PROVE  ClientInv'
<1> DEFINE r == [EmptyRequest EXCEPT !.sendbuf = TRUE]
<1>1. r \in Request /\ Bounded(r) /\ Fits(r)
  <2>1. /\ r \in Request /\ r.status = "NONE"
        /\ r.cap = -1 /\ r.len = 0
    BY EmptyRequestType DEF Request, EmptyRequest
  <2> HIDE DEF r
  <2> QED
    BY <2>1 DEF Bounded, Fits
<1>2. pcb \in Blocks /\ halted \in BOOLEAN /\ dns \subseteq Addr
  BY DEF ClientInv, ClientType, Blocks
<1>3. /\ Writes(a, r) /\ pcb' \in Blocks
      /\ dns' \in {dns, dns \cup {a}} /\ halted' \in BOOLEAN
  <2>1. CASE StartRequest(r, a)
    <3> HIDE DEF r
    <3> QED
      BY <1>1, <1>2, <2>1, StartLemma
  <2>2. CASE /\ mem' = [mem EXCEPT ![a] = [r EXCEPT !.status = "WIFI"]]
             /\ UNCHANGED <<pcb, dns, halted>>
    <3> HIDE DEF r
    <3> DEFINE w == [r EXCEPT !.status = "WIFI"]
    <3>1. /\ w \in Request /\ w.status = "WIFI"
          /\ w.len = r.len /\ w.cap = r.cap
      BY <1>1 DEF Request, Status, WifiStates
    <3>2. mem' = [mem EXCEPT ![a] = w]
      BY <2>2
    <3> HIDE DEF w
    <3> QED
      BY <1>2, <2>2, <3>1, <3>2 DEF Writes, Bounded, Fits
  <2> QED
    BY <2>1, <2>2 DEF Open2
<1> HIDE DEF r
<1>4. /\ live' = live \cup {a} /\ scribbled' = scribbled \ {a}
      /\ UNCHANGED <<link, leaked, tainted>>
  BY DEF Open2
<1>5. mem' \in [Addr -> Request] /\ BodyBounded' /\ BufferFits'
  BY <1>1, <1>3, <1>4, WriteKeeps
<1> QED
  BY <1>2, <1>3, <1>4, <1>5 DEF ClientInv, ClientType, Blocks

LEMMA CheckKeeps ==
  ASSUME ClientInv, NEW a \in live, Check(a)
  PROVE  ClientInv'
<1> DEFINE r == mem[a]
<1>1. a \in Addr /\ r \in Request /\ Bounded(r) /\ Fits(r)
  BY DEF ClientInv, ClientType, BodyBounded, BufferFits
<1>2. pcb \in Blocks /\ halted \in BOOLEAN /\ dns \subseteq Addr
      /\ mem \in [Addr -> Request]
  BY DEF ClientInv, ClientType, Blocks
<1>3. /\ Writes(a, r) /\ pcb' \in Blocks
      /\ dns' \in {dns, dns \cup {a}} /\ halted' \in BOOLEAN
  <2>1. CASE StartRequest(r, a)
    BY <1>1, <1>2, <2>1, StartLemma
  <2>2. CASE /\ mem' = [mem EXCEPT ![a].status = "WIFI_INIT", ![a].retry = RetryTicks]
             /\ UNCHANGED <<pcb, dns, halted>>
    <3> DEFINE w == [r EXCEPT !.status = "WIFI_INIT", !.retry = RetryTicks]
    <3>1. /\ w \in Request /\ w.status = "WIFI_INIT"
          /\ w.len = r.len /\ w.cap = r.cap
      <4>1. RetryTicks \in 0 .. RetryTicks /\ "WIFI_INIT" \in Status
        BY ClientAssumption DEF Status, WifiStates, ClientAssumption
      <4> HIDE DEF r
      <4> QED
        BY <1>1, <4>1 DEF Request
    <3>2. mem' = [mem EXCEPT ![a] = w]
      BY <1>1, <1>2, <2>2
    <3> HIDE DEF w, r
    <3> QED
      BY <1>2, <2>2, <3>1, <3>2 DEF Writes, Bounded, Fits
  <2>3. CASE /\ mem' = [mem EXCEPT ![a].status = "WIFI"]
             /\ UNCHANGED <<pcb, dns, halted>>
    <3> DEFINE w == [r EXCEPT !.status = "WIFI"]
    <3>1. /\ w \in Request /\ w.status = "WIFI"
          /\ w.len = r.len /\ w.cap = r.cap
      BY <1>1 DEF Request, Status, WifiStates
    <3>2. mem' = [mem EXCEPT ![a] = w]
      BY <1>1, <1>2, <2>3
    <3> HIDE DEF w, r
    <3> QED
      BY <1>2, <2>3, <3>1, <3>2 DEF Writes, Bounded, Fits
  <2>4. CASE UNCHANGED <<mem, pcb, dns, halted>>
    <3>1. mem' = [mem EXCEPT ![a] = r]
      BY <1>1, <1>2, <2>4
    <3> HIDE DEF r
    <3>2. Writes(a, r)
      BY <1>1, <3>1 DEF Writes
    <3> QED
      BY <1>2, <2>4, <3>2
  <2> QED
    BY <2>1, <2>2, <2>3, <2>4 DEF Check
<1>4. UNCHANGED <<live, scribbled, link, leaked, tainted>>
  BY DEF Check
<1>5. mem' \in [Addr -> Request] /\ BodyBounded' /\ BufferFits'
  <2> HIDE DEF r
  <2> QED
    BY <1>1, <1>3, <1>4, WriteKeeps
<1> QED
  BY <1>1, <1>2, <1>3, <1>4, <1>5 DEF ClientInv, ClientType, Blocks

LEMMA CloseRequestKeeps ==
  ASSUME ClientInv, NEW a \in live, CloseRequest(a)
  PROVE  ClientInv'
<1>1. a \in Addr /\ mem \in [Addr -> Request] /\ Bounded(mem[a])
  BY DEF ClientInv, ClientType, BodyBounded
<1>2. \E q \in Request : mem' = [mem EXCEPT ![a] = q] /\ Bounded(q)
  <2>1. CASE mem' = [mem EXCEPT ![a].cap = -1, ![a].sendbuf = FALSE]
    <3> DEFINE r == mem[a]
               w == [r EXCEPT !.cap = -1, !.sendbuf = FALSE]
    <3>1. mem' = [mem EXCEPT ![a] = w]
      BY <1>1, <2>1
    <3>2. r \in Request /\ Bounded(r)
      BY <1>1
    <3> HIDE DEF r
    <3>3. /\ w \in Request /\ w.status = r.status /\ w.len = r.len
          /\ w.clen = r.clen
      <4>1. -1 \in -1 .. MaxSize
        BY ResponseAssumption DEF ResponseAssumption
      <4> QED
        BY <3>2, <4>1 DEF Request
    <3> HIDE DEF w
    <3> QED
      BY <3>1, <3>2, <3>3 DEF Bounded
  <2>2. CASE mem' = [mem EXCEPT ![a] = EmptyRequest]
    BY <2>2, EmptyRequestType
  <2> QED
    BY <2>1, <2>2 DEF CloseRequest
<1>3. PICK q \in Request : mem' = [mem EXCEPT ![a] = q] /\ Bounded(q)
  BY <1>2
<1>4. /\ live' = live \ {a}
      /\ UNCHANGED <<scribbled, pcb, dns, link, leaked, tainted, halted>>
  BY DEF CloseRequest
<1>5. mem' \in [Addr -> Request] /\ BodyBounded'
  BY <1>1, <1>3 DEF ClientInv, BodyBounded
<1>6. BufferFits'
  BY <1>1, <1>3, <1>4 DEF ClientInv, ClientType, BufferFits
<1> QED
  BY <1>4, <1>5, <1>6 DEF ClientInv, ClientType

\* Two more writes of the callbacks.
LEMMA EndWrite ==
  ASSUME ClientInv, NEW a \in Addr, NEW st \in Status \ {"DATA"},
         mem' = [mem EXCEPT ![a].status = st, ![a].pcb = NULL]
  PROVE  Writes(a, mem[a])
<1> DEFINE r == mem[a]
           w == [r EXCEPT !.status = st, !.pcb = NULL]
<1>1. r \in Request /\ mem \in [Addr -> Request]
  BY DEF ClientInv, ClientType
<1>2. mem' = [mem EXCEPT ![a] = w]
  BY <1>1
<1> HIDE DEF r
<1>3. w \in Request /\ Bounded(w) /\ (Fits(r) => Fits(w))
  BY <1>1, WriteStatus
<1> HIDE DEF w
<1> QED
  BY <1>2, <1>3 DEF Writes, r

\* What is left to do when a callback has written one request and the blocks.
LEMMA CallbackWrite ==
  ASSUME ClientInv, NEW a \in Addr, Writes(a, mem[a]), pcb' \in Blocks,
         dns' \subseteq Addr, leaked' \in 0 .. PoolSize,
         UNCHANGED <<live, scribbled, link, tainted, halted>>
  PROVE  ClientInv'
<1>1. a \in live' => Fits(mem[a])
  BY DEF ClientInv, BufferFits
<1>2. mem' \in [Addr -> Request] /\ BodyBounded' /\ BufferFits'
  BY <1>1, WriteKeeps
<1> QED
  BY <1>2 DEF ClientInv, ClientType, Blocks

LEMMA DnsKeeps ==
  ASSUME ClientInv, NEW a \in Addr, DnsCallback(a)
  PROVE  ClientInv'
<1>1. /\ mem[a] \in Request /\ pcb \in Blocks
      /\ dns \subseteq Addr /\ leaked \in 0 .. PoolSize
  BY DEF ClientInv, ClientType, Blocks
<1>2. Writes(a, mem[a]) /\ pcb' \in Blocks
  BY <1>1, ConnectLemma, FailLemma DEF DnsCallback
<1> QED
  BY <1>1, <1>2, CallbackWrite DEF DnsCallback

LEMMA ConnectCallbackKeeps ==
  ASSUME ClientInv, NEW p \in Pcb, ConnectCallback(p)
  PROVE  ClientInv'
<1> DEFINE a == pcb[p].arg
<1>1. /\ a \in Addr /\ mem[a] \in Request /\ mem \in [Addr -> Request]
      /\ pcb \in Blocks /\ dns \subseteq Addr /\ leaked \in 0 .. PoolSize
  BY DEF ClientInv, ClientType, Blocks, ControlBlock, ConnectCallback, Readable
<1>2. ASSUME NEW v \in Served,
             mem' = [mem EXCEPT ![a].status = "RESPONSE_STATUS", ![a].sendbuf = FALSE],
             pcb' = [pcb EXCEPT ![p].st = "est", ![p].acks = 1,
                                ![p].code = v.code, ![p].clen = v.clen]
      PROVE  Writes(a, mem[a]) /\ pcb' \in Blocks
  <2> DEFINE r == mem[a]
             w == [r EXCEPT !.status = "RESPONSE_STATUS", !.sendbuf = FALSE]
  <2>1. mem' = [mem EXCEPT ![a] = w]
    BY <1>1, <1>2
  <2>2. r \in Request
    BY <1>1
  <2>3. v.code \in Nat /\ v.clen \in Nat
    BY ClientAssumption DEF ClientAssumption
  <2>4. pcb' \in Blocks
    <3> DEFINE b == [pcb[p] EXCEPT !.st = "est", !.acks = 1, !.code = v.code,
                                   !.clen = v.clen]
    <3>1. pcb[p] \in ControlBlock
      BY <1>1 DEF Blocks
    <3>2. b \in ControlBlock
      BY <2>3, <3>1 DEF ControlBlock
    <3>3. pcb' = [pcb EXCEPT ![p] = b]
      BY <1>1, <1>2 DEF Blocks
    <3> HIDE DEF b
    <3> QED
      BY <1>1, <3>2, <3>3 DEF Blocks
  <2> HIDE DEF r
  <2>5. /\ w \in Request /\ w.status = "RESPONSE_STATUS"
        /\ w.len = r.len /\ w.cap = r.cap
    BY <2>2 DEF Request, Status, NetStates
  <2> HIDE DEF w
  <2>6. Writes(a, r)
    BY <2>1, <2>5 DEF Writes, Bounded, Fits
  <2> QED
    BY <2>4, <2>6 DEF r
<1>3. ASSUME Fail(mem[a], a, pcb)
      PROVE  Writes(a, mem[a]) /\ pcb' \in Blocks
  BY <1>1, <1>3, FailLemma
<1>4. Writes(a, mem[a]) /\ pcb' \in Blocks
  BY <1>2, <1>3 DEF ConnectCallback
<1>5. UNCHANGED <<live, scribbled, dns, link, leaked, tainted, halted>>
  BY DEF ConnectCallback
<1> QED
  BY <1>1, <1>4, <1>5, CallbackWrite

LEMMA AckedKeeps ==
  ASSUME ClientInv, NEW p \in Pcb, Acked(p)
  PROVE  ClientInv'
<1>1. pcb \in Blocks /\ pcb[p] \in ControlBlock
  BY DEF ClientInv, ClientType, Blocks
<1>2. pcb' \in Blocks
  <2>1. pcb[p].acks - 1 \in Nat /\ 0 \in 0 .. PollTicks
    BY <1>1, ClientAssumption DEF Acked, ControlBlock, ClientAssumption
  <2>2. pcb' = [pcb EXCEPT ![p].acks = pcb[p].acks - 1, ![p].poll = 0]
    BY DEF Acked
  <2> QED
    BY <1>1, <2>1, <2>2 DEF Blocks, ControlBlock
<1>3. UNCHANGED <<mem, live, scribbled, dns, link, leaked, tainted, halted>>
  BY DEF Acked
<1> QED
  BY <1>2, <1>3, SameMem DEF ClientInv, ClientType, Blocks

\* What lwIP hands to the callback is a segment, and the pcb moves past it.
LEMMA SegmentLemma ==
  ASSUME ClientInv, NEW p \in Pcb, NEW s \in Segments(p)
  PROVE  s \in Segment /\ s.from < s.to /\ Received(p, s) \in Blocks
<1>1. pcb \in Blocks /\ pcb[p] \in ControlBlock
  BY DEF ClientInv, ClientType, Blocks
<1>2. pcb[p].pos \in Nat /\ pcb[p].clen \in Nat /\ pcb[p].code \in Nat
  BY <1>1 DEF ControlBlock
<1>3. PICK n \in (pcb[p].pos + 1) .. Total(pcb[p].clen) :
        s = [from |-> pcb[p].pos, to |-> n, code |-> pcb[p].code,
             clen |-> pcb[p].clen]
  BY DEF Segments
<1>4. s \in Segment /\ s.from < s.to
  BY <1>2, <1>3 DEF Segment, Total, HeaderUnits
<1>5. Received(p, s) \in Blocks
  <2> DEFINE b == [pcb[p] EXCEPT !.pos = s.to, !.acks = 0,
                                 !.poll = IF pcb[p].acks > 0 THEN 0 ELSE @]
  <2>1. Received(p, s) = [pcb EXCEPT ![p] = b]
    BY <1>1 DEF Received, Blocks
  <2>2. b \in ControlBlock
    <3>1. 0 \in 0 .. PollTicks /\ s.to \in Nat
      BY <1>4, ClientAssumption DEF Segment, ClientAssumption
    <3> QED
      BY <1>1, <3>1 DEF ControlBlock
  <2> HIDE DEF b
  <2> QED
    BY <1>1, <2>1, <2>2 DEF Blocks
<1> QED
  BY <1>4, <1>5

LEMMA RecvKeeps ==
  ASSUME ClientInv, NEW p \in Pcb, RecvCallback(p)
  PROVE  ClientInv'
<1> DEFINE a == pcb[p].arg
           r == mem[a]
<1>1. /\ a \in Addr /\ r \in Request /\ Bounded(r) /\ mem \in [Addr -> Request]
      /\ pcb \in Blocks /\ dns \subseteq Addr /\ leaked \in 0 .. PoolSize
  BY DEF ClientInv, ClientType, Blocks, ControlBlock, BodyBounded, RecvCallback, Readable
<1>2. PICK s \in Segments(p) : \E o \in RecvOutcomes(r, s) :
        /\ IF o.failed
             THEN /\ mem' = [mem EXCEPT ![a] = [o.req EXCEPT !.pcb = NULL]]
                  /\ pcb' = Close(Received(p, s), r.pcb)
             ELSE /\ mem' = [mem EXCEPT ![a] = o.req]
                  /\ pcb' = Received(p, s)
        /\ leaked' = IF o.leaks THEN leaked + 1 ELSE leaked
  BY DEF RecvCallback
<1>3. PICK o \in RecvOutcomes(r, s) :
        /\ IF o.failed
             THEN /\ mem' = [mem EXCEPT ![a] = [o.req EXCEPT !.pcb = NULL]]
                  /\ pcb' = Close(Received(p, s), r.pcb)
             ELSE /\ mem' = [mem EXCEPT ![a] = o.req]
                  /\ pcb' = Received(p, s)
        /\ leaked' = IF o.leaks THEN leaked + 1 ELSE leaked
  BY <1>2
<1>4. s \in Segment /\ s.from < s.to /\ Received(p, s) \in Blocks
  BY SegmentLemma
<1> HIDE DEF r
<1>5. /\ o.req \in Request /\ o.failed \in BOOLEAN /\ o.leaks \in BOOLEAN
      /\ Bounded(o.req) /\ (Fits(r) => Fits(o.req))
  BY <1>1, <1>4, RecvLemma
<1>6. pcb' \in Blocks
  BY <1>3, <1>4, <1>5, CloseType
<1>7. Writes(a, r)
  <2>1. CASE o.failed
    <3> DEFINE w == [o.req EXCEPT !.pcb = NULL]
    <3>1. /\ w \in Request /\ w.status = o.req.status /\ w.len = o.req.len
          /\ w.cap = o.req.cap /\ w.clen = o.req.clen
      BY <1>5 DEF Request
    <3>2. mem' = [mem EXCEPT ![a] = w]
      BY <1>3, <2>1
    <3> HIDE DEF w
    <3> QED
      BY <1>5, <3>1, <3>2 DEF Writes, Bounded, Fits
  <2>2. CASE ~o.failed
    BY <1>3, <1>5, <2>2 DEF Writes
  <2> QED
    BY <2>1, <2>2
<1>8. leaked' \in 0 .. PoolSize
  BY <1>1, <1>3, ClientAssumption DEF RecvCallback, CanReceive, ClientAssumption
<1>9. UNCHANGED <<live, scribbled, dns, link, tainted, halted>>
  BY DEF RecvCallback
<1> QED
  BY <1>1, <1>6, <1>7, <1>8, <1>9, CallbackWrite DEF r

LEMMA FinKeeps ==
  ASSUME ClientInv, NEW p \in Pcb, FinCallback(p)
  PROVE  ClientInv'
<1> DEFINE a == pcb[p].arg
<1>1. /\ a \in Addr /\ pcb \in Blocks /\ dns \subseteq Addr /\ leaked \in 0 .. PoolSize
  BY DEF ClientInv, ClientType, Blocks, ControlBlock, FinCallback, Readable
<1>2. Writes(a, mem[a])
  <2>1. mem' = [mem EXCEPT ![a].status = "COMPLETE", ![a].pcb = NULL]
    BY DEF FinCallback
  <2>2. "COMPLETE" \in Status \ {"DATA"}
    BY DEF Status, EndStates, DoneStates
  <2> HIDE DEF a
  <2> QED
    BY <1>1, <2>1, <2>2, EndWrite
<1>3. pcb' \in Blocks
  BY <1>1, CloseType DEF FinCallback
<1>4. UNCHANGED <<live, scribbled, dns, link, leaked, tainted, halted>>
  BY DEF FinCallback
<1> QED
  BY <1>1, <1>2, <1>3, <1>4, CallbackWrite

LEMMA PollKeeps ==
  ASSUME ClientInv, NEW p \in Pcb, PollCallback(p)
  PROVE  ClientInv'
<1> DEFINE a == pcb[p].arg
<1>1. /\ a \in Addr /\ pcb \in Blocks /\ dns \subseteq Addr /\ leaked \in 0 .. PoolSize
  BY DEF ClientInv, ClientType, Blocks, ControlBlock, PollCallback, Readable
<1>2. Writes(a, mem[a])
  <2>1. mem' = [mem EXCEPT ![a].status = "TRUNCATED", ![a].pcb = NULL]
    BY DEF PollCallback
  <2>2. "TRUNCATED" \in Status \ {"DATA"}
    BY DEF Status, EndStates, DoneStates
  <2> HIDE DEF a
  <2> QED
    BY <1>1, <2>1, <2>2, EndWrite
<1>3. [pcb EXCEPT ![p].poll = 0] \in Blocks
  <2>1. 0 \in 0 .. PollTicks
    BY ClientAssumption DEF ClientAssumption
  <2> QED
    BY <1>1, <2>1 DEF Blocks, ControlBlock
<1>4. pcb' \in Blocks
  BY <1>3, CloseType DEF PollCallback
<1>5. UNCHANGED <<live, scribbled, dns, link, leaked, tainted, halted>>
  BY DEF PollCallback
<1> QED
  BY <1>1, <1>2, <1>4, <1>5, CallbackWrite

LEMMA ErrKeeps ==
  ASSUME ClientInv, NEW p \in Pcb, ErrCallback(p)
  PROVE  ClientInv'
<1> DEFINE a == pcb[p].arg
<1>1. /\ a \in Addr /\ mem[a] \in Request
      /\ pcb \in Blocks /\ dns \subseteq Addr /\ leaked \in 0 .. PoolSize
  BY DEF ClientInv, ClientType, Blocks, ControlBlock, ErrCallback, Readable
<1>2. [pcb EXCEPT ![p] = FreePcb] \in Blocks
  BY <1>1, FreePcbType DEF Blocks
<1>3. Writes(a, mem[a]) /\ pcb' \in Blocks
  BY <1>1, <1>2, FailLemma DEF ErrCallback
<1>4. UNCHANGED <<live, scribbled, dns, link, leaked, tainted, halted>>
  BY DEF ErrCallback
<1> QED
  BY <1>1, <1>3, <1>4, CallbackWrite

LEMMA OverwrittenKeeps ==
  ASSUME ClientInv, NEW p \in Pcb, CallbackOnOverwritten(p)
  PROVE  ClientInv'
<1>1. pcb \in Blocks /\ leaked \in 0 .. PoolSize /\ PoolSize \in Nat /\ PollTicks \in Nat
  BY ClientAssumption DEF ClientInv, ClientType, Blocks, ClientAssumption
<1>2. pcb' \in Blocks
  <2>1. 0 \in 0 .. PollTicks /\ pcb' = [pcb EXCEPT ![p].poll = 0]
    BY <1>1 DEF CallbackOnOverwritten
  <2> QED
    BY <1>1, <2>1 DEF Blocks, ControlBlock
<1>3. leaked' \in 0 .. PoolSize
  BY <1>1 DEF CallbackOnOverwritten, Least
<1>4. /\ tainted' \in BOOLEAN /\ halted' \in BOOLEAN
      /\ UNCHANGED <<mem, live, scribbled, dns, link>>
  BY DEF CallbackOnOverwritten
<1> QED
  BY <1>2, <1>3, <1>4, SameMem DEF ClientInv, ClientType, Blocks

LEMMA LinkKeeps ==
  ASSUME ClientInv, LinkChange
  PROVE  ClientInv'
<1>1. /\ link' \in {"UP", "FAIL", "DOWN"}
      /\ UNCHANGED <<mem, live, scribbled, pcb, dns, leaked, tainted, halted>>
  BY DEF LinkChange
<1> QED
  BY <1>1, SameMem DEF ClientInv, ClientType

LEMMA TickKeeps ==
  ASSUME ClientInv, ClientTick
  PROVE  ClientInv'
<1>1. pcb \in Blocks /\ mem \in [Addr -> Request] /\ PollTicks \in Nat
  BY ClientAssumption DEF ClientInv, ClientType, Blocks, ClientAssumption
<1>2. pcb' \in Blocks
  <2>1. ASSUME NEW p \in Pcb, Connected(p)
        PROVE  [pcb[p] EXCEPT !.poll = @ + 1] \in ControlBlock
    <3>1. pcb[p] \in ControlBlock /\ pcb[p].poll # PollTicks
      BY <1>1, <2>1 DEF Blocks, ClientTick, PollDue
    <3>2. pcb[p].poll + 1 \in 0 .. PollTicks
      BY <1>1, <3>1 DEF ControlBlock
    <3> QED
      BY <3>1, <3>2 DEF ControlBlock
  <2> QED
    BY <1>1, <2>1 DEF ClientTick, Blocks
<1>3. \A b \in Addr : /\ mem'[b] \in Request
                       /\ mem'[b].status = mem[b].status /\ mem'[b].len = mem[b].len
                       /\ mem'[b].cap = mem[b].cap /\ mem'[b].clen = mem[b].clen
  <2> TAKE b \in Addr
  <2>1. mem[b] \in Request
    BY <1>1
  <2>2. Countdown(mem[b].retry) \in 0 .. RetryTicks
    BY <2>1, ClientAssumption DEF Request, Countdown, ClientAssumption
  <2>3. mem'[b] = IF b \in live THEN [mem[b] EXCEPT !.retry = Countdown(@)] ELSE mem[b]
    BY DEF ClientTick
  <2> QED
    BY <2>1, <2>2, <2>3 DEF Request
<1>4. mem' \in [Addr -> Request]
  BY <1>3 DEF ClientTick
<1>5. UNCHANGED <<live, scribbled, dns, link, leaked, tainted, halted>>
  BY DEF ClientTick
<1>6. BodyBounded' /\ BufferFits'
  BY <1>3, <1>5 DEF ClientInv, ClientType, BodyBounded, BufferFits, Bounded, Fits
<1> QED
  BY <1>2, <1>4, <1>5, <1>6 DEF ClientInv, ClientType, Blocks

\* Any callback, whatever the network does.
LEMMA CallbackKeeps ==
  ASSUME ClientInv, Callback
  PROVE  ClientInv'
  BY DnsKeeps, ConnectCallbackKeeps, AckedKeeps, RecvKeeps, FinKeeps, PollKeeps,
     ErrKeeps, OverwrittenKeeps DEF Callback

------------------------------------------------------------------------------
(* The client and the main loop                                            *)

LEMMA InitHeap == ASSUME Init PROVE HeapInv
<1>1. ClientInv /\ live = {}
  BY InitClientInv DEF Init, ClientInit
<1>2. NoResponse \in [len : 0 .. MaxSize, whole : BOOLEAN]
  BY ResponseAssumption DEF NoResponse, ResponseAssumption
<1>3. TypeOK
  BY <1>1, <1>2 DEF Init, MainInit, TypeOK, ClientInv, AppState, Status, WifiStates
<1>4. RequestNotLeaked /\ PcInv /\ StateFresh
  BY <1>1 DEF Init, MainInit, RequestNotLeaked, PcInv, StateFresh, NetStates
<1> QED
  BY <1>1, <1>3, <1>4 DEF HeapInv

\* The types of the main loop's own variables, and its place in the turn.
MainType ==
  /\ app_state \in AppState
  /\ pc \in {"iter", "fetch", "close"}
  /\ http_request \in Addr \cup {NULL}
  /\ http_state \in Status
  /\ wait \in Nat \cup {-1}
  /\ http_status \in Nat
  /\ http_response \in [len : 0 .. MaxSize, whole : BOOLEAN]
  /\ alerts \in [len : 0 .. MaxSize, whole : BOOLEAN]

MainInv == MainType /\ RequestNotLeaked /\ PcInv /\ StateFresh

LEMMA HeapParts == HeapInv <=> ClientInv /\ MainInv
  BY DEF HeapInv, MainInv, MainType, TypeOK, ClientInv

LEMMA HeapPartsNext == HeapInv' <=> ClientInv' /\ MainInv'
  BY DEF HeapInv, MainInv, MainType, TypeOK, ClientInv

\* A step that leaves the client alone.
LEMMA ClientSame == ASSUME ClientInv, UNCHANGED clientVars PROVE ClientInv'
  BY DEF ClientInv, ClientType, BodyBounded, BufferFits, clientVars

LEMMA NullIsNoAddress == NULL \notin Addr
  BY ClientAssumption DEF ClientAssumption

LEMMA TicksType == SleepTicks \in Nat /\ StateTicks \in Nat
  BY DisplayAssumption DEF DisplayAssumption

\* ST_DO_REQUEST: open2 allocates only when nothing is open.
LEMMA DoRequestHeap == ASSUME HeapInv, DoRequest PROVE HeapInv'
<1>1. ClientInv /\ MainInv
  BY HeapParts
<1>2. /\ app_state' = "ST_WAIT_RESPONSE"
      /\ pc = "iter"
      /\ UNCHANGED <<pc, http_state, wait, http_status, http_response, alerts>>
  BY DEF DoRequest, AtCase
<1>3. ASSUME NEW a \in Addr, http_request = NULL, Open2(a), http_request' = a
      PROVE  HeapInv'
  <2>1. ClientInv'
    BY <1>1, <1>3, Open2Keeps
  <2>2. live' = {a}
    BY <1>1, <1>3 DEF Open2, MainInv, RequestNotLeaked
  <2>3. MainInv'
    BY <1>1, <1>2, <1>3, <2>2, NullIsNoAddress
       DEF MainInv, MainType, RequestNotLeaked, PcInv, StateFresh, AppState
  <2> QED
    BY <2>1, <2>3, HeapPartsNext
<1>4. ASSUME UNCHANGED <<clientVars, http_request>>
      PROVE  HeapInv'
  <2>1. MainInv'
    BY <1>1, <1>2, <1>4
       DEF MainInv, MainType, RequestNotLeaked, PcInv, StateFresh, AppState, clientVars
  <2> QED
    BY <1>1, <1>4, <2>1, ClientSame, HeapPartsNext
<1> QED
  BY <1>3, <1>4 DEF DoRequest

\* ST_WAIT_RESPONSE with a request: whatever check returned.
LEMMA WaitResponseHeap == ASSUME HeapInv, WaitResponse PROVE HeapInv'
<1> DEFINE r == mem'[http_request]
<1>1. ClientInv /\ MainInv
  BY HeapParts
<1>2. /\ http_request # NULL /\ Check(http_request)
      /\ app_state = "ST_WAIT_RESPONSE" /\ pc = "iter"
      /\ http_state' = r.status
      /\ UNCHANGED <<http_request, http_response, alerts>>
  BY DEF WaitResponse, AtCase
<1>3. http_request \in live /\ http_request \in Addr
  BY <1>1, <1>2 DEF MainInv, MainType, RequestNotLeaked
<1>4. ClientInv' /\ live' = live
  BY <1>1, <1>2, <1>3, CheckKeeps DEF Check
<1>5. r \in Request
  BY <1>3, <1>4 DEF ClientInv, ClientType
<1> HIDE DEF r
<1>6. r.status \in Status /\ r.code \in Nat
  BY <1>5 DEF Request
<1>7. \/ StillJoining(r.status) \/ StillTalking(r.status)
      \/ ResponseReady(r.status, r.code) \/ RequestFailed(r.status)
  BY DEF WaitResponse, r
<1>8. /\ app_state' \in AppState /\ pc' \in {"iter", "fetch", "close"}
      /\ wait' \in Nat \cup {-1} /\ http_status' \in Nat
      /\ pc' # "iter" => r.status \in EndStates /\ app_state' = "ST_WAIT_RESPONSE"
  <2>1. CASE StillJoining(r.status)
    BY <1>1, <1>2, <2>1 DEF StillJoining, MainInv, MainType
  <2>2. CASE StillTalking(r.status)
    BY <1>1, <1>2, <2>2, TicksType DEF StillTalking, MainInv, MainType, AppState
  <2>3. CASE ResponseReady(r.status, r.code)
    BY <1>1, <1>2, <1>6, <2>3 DEF ResponseReady, MainInv, MainType, EndStates
  <2>4. CASE RequestFailed(r.status)
    BY <1>1, <1>2, <2>4 DEF RequestFailed, MainInv, MainType, EndStates
  <2> QED
    BY <1>7, <2>1, <2>2, <2>3, <2>4
<1>9. MainInv'
  BY <1>1, <1>2, <1>4, <1>6, <1>8
     DEF MainInv, MainType, RequestNotLeaked, PcInv, StateFresh
<1> QED
  BY <1>4, <1>9, HeapPartsNext

\* Reading the response.
LEMMA FetchHeap == ASSUME HeapInv, FetchResponse PROVE HeapInv'
<1>1. ClientInv /\ MainInv /\ pc = "fetch"
  BY HeapParts DEF FetchResponse
<1>2. http_request \in Addr
  BY <1>1 DEF MainInv, MainType, PcInv
<1>3. UNCHANGED <<app_state, http_request, http_state, wait, http_status, alerts>>
  BY DEF FetchResponse
<1>4. CASE /\ halted' = TRUE
           /\ UNCHANGED <<mem, live, scribbled, pcb, dns, link, leaked, tainted,
                          http_response, pc>>
  <2>1. ClientInv'
    BY <1>1, <1>4 DEF ClientInv, ClientType, BodyBounded, BufferFits
  <2>2. MainInv'
    BY <1>1, <1>3, <1>4 DEF MainInv, MainType, RequestNotLeaked, PcInv, StateFresh
  <2> QED
    BY <2>1, <2>2, HeapPartsNext
<1>5. CASE /\ http_response' = [len |-> mem[http_request].len,
                                whole |-> Whole(mem[http_request])]
           /\ pc' = "close"
           /\ UNCHANGED clientVars
  <2>1. ClientInv'
    BY <1>1, <1>5, ClientSame
  <2>2. mem[http_request].len \in 0 .. MaxSize
    BY <1>1, <1>2 DEF ClientInv, ClientType, Request
  <2>3. Whole(mem[http_request]) \in BOOLEAN
    BY Zenon DEF Whole
  <2>4. http_response' \in [len : 0 .. MaxSize, whole : BOOLEAN]
    BY <1>5, <2>2, <2>3
  <2>5. MainInv'
    BY <1>1, <1>3, <1>5, <2>4
       DEF MainInv, MainType, RequestNotLeaked, PcInv, StateFresh, clientVars
  <2> QED
    BY <2>1, <2>5, HeapPartsNext
<1> QED
  BY <1>4, <1>5 DEF FetchResponse

\* Freeing the request.
LEMMA FreeHeap == ASSUME HeapInv, FreeRequest PROVE HeapInv'
<1>1. ClientInv /\ MainInv /\ pc = "close" /\ CloseRequest(http_request)
  BY HeapParts DEF FreeRequest
<1>2. http_request \in live
  BY <1>1 DEF MainInv, PcInv, RequestNotLeaked
<1>3. ClientInv'
  BY <1>1, <1>2, CloseRequestKeeps
<1>4. live' = {}
  BY <1>1 DEF MainInv, PcInv, RequestNotLeaked, CloseRequest
<1>5. /\ http_request' = NULL /\ app_state' = "ST_HANDLE_RESPONSE" /\ pc' = "iter"
      /\ UNCHANGED <<http_state, wait, http_status, http_response, alerts>>
  BY DEF FreeRequest
<1>6. http_state \notin NetStates
  BY <1>1 DEF MainInv, PcInv, EndStates, DoneStates, NetStates
<1>7. MainInv'
  BY <1>1, <1>4, <1>5, <1>6
     DEF MainInv, MainType, RequestNotLeaked, PcInv, StateFresh, AppState
<1> QED
  BY <1>3, <1>7, HeapPartsNext

\* Other users of the heap.
LEMMA ScribbleHeap ==
  ASSUME ClientInv, Scribble,
         UNCHANGED <<mem, live, pcb, dns, link, leaked, tainted, halted>>
  PROVE  ClientInv'
  BY DEF ClientInv, ClientType, BodyBounded, BufferFits, Scribble

LEMMA NoResponseType == NoResponse \in [len : 0 .. MaxSize, whole : BOOLEAN]
  BY ResponseAssumption DEF NoResponse, ResponseAssumption

\* The remaining cases of the switch do not touch the client.
LEMMA RestOfLoopHeap ==
  ASSUME HeapInv, ShowAlerts \/ IgnoreResponse \/ Transition \/ WakeUp
  PROVE  HeapInv'
<1>1. ClientInv /\ MainInv
  BY HeapParts
<1>2. CASE ShowAlerts
  <2>1. ClientInv' /\ live' = live
    BY <1>1, <1>2, ScribbleHeap DEF ShowAlerts
  <2>2. MainInv'
    BY <1>1, <1>2, <2>1, NoResponseType
       DEF ShowAlerts, AtCase, MainInv, MainType, RequestNotLeaked, PcInv, StateFresh,
           AppState
  <2> QED
    BY <2>1, <2>2, HeapPartsNext
<1>3. CASE IgnoreResponse \/ Transition \/ WakeUp
  <2>1. ClientInv' /\ live' = live
    BY <1>1, <1>3, ClientSame DEF IgnoreResponse, Transition, WakeUp, clientVars
  <2>2. MainInv'
    BY <1>1, <1>3, <2>1, NoResponseType, TicksType
       DEF IgnoreResponse, Transition, WakeUp, AtCase, MainInv, MainType,
           RequestNotLeaked, PcInv, StateFresh, AppState
  <2> QED
    BY <2>1, <2>2, HeapPartsNext
<1> QED
  BY <1>2, <1>3

LEMMA ReloadHeap == ASSUME HeapInv, ReloadConfig PROVE HeapInv'
<1>1. ClientInv /\ MainInv
  BY HeapParts
<1>2. ClientInv' /\ live' = live /\ UNCHANGED mainVars
  BY <1>1, ScribbleHeap DEF ReloadConfig
<1>3. MainInv'
  BY <1>1, <1>2 DEF MainInv, MainType, RequestNotLeaked, PcInv, StateFresh, mainVars
<1> QED
  BY <1>2, <1>3, HeapPartsNext

\* Callbacks do not allocate or free requests.
LEMMA CallbackLive == ASSUME Callback PROVE UNCHANGED live
  BY DEF Callback, DnsCallback, ConnectCallback, Acked, RecvCallback, FinCallback,
         PollCallback, ErrCallback, CallbackOnOverwritten

LEMMA InterruptHeap == ASSUME HeapInv, Interrupt PROVE HeapInv'
<1>1. ClientInv /\ MainInv
  BY HeapParts
<1>2. ClientInv' /\ live' = live
  BY <1>1, CallbackKeeps, LinkKeeps, CallbackLive DEF Interrupt, LinkChange
<1>3. MainInv'
  BY <1>1, <1>2
     DEF Interrupt, MainInv, MainType, RequestNotLeaked, PcInv, StateFresh, mainVars
<1> QED
  BY <1>2, <1>3, HeapPartsNext

LEMMA TickHeap == ASSUME HeapInv, Tick PROVE HeapInv'
<1>1. ClientInv /\ MainInv
  BY HeapParts
<1>2. ClientInv' /\ live' = live
  BY <1>1, TickKeeps DEF Tick, ClientTick
<1>3. wait' \in Nat \cup {-1}
  BY <1>1 DEF Tick, MainInv, MainType
<1>4. MainInv'
  BY <1>1, <1>2, <1>3
     DEF Tick, MainInv, MainType, RequestNotLeaked, PcInv, StateFresh
<1> QED
  BY <1>2, <1>4, HeapPartsNext

\* The watchdog starts everything again.
LEMMA RebootHeap == ASSUME Reboot PROVE HeapInv'
<1>1. ClientType'
  <2>1. 0 \in 0 .. PoolSize
    BY ClientAssumption DEF ClientAssumption
  <2> QED
    BY <2>1, EmptyRequestType, FreePcbType DEF Reboot, ClientType
<1>2. ClientInv' /\ live' = {}
  BY <1>1, EmptyRequestType DEF Reboot, ClientInv, BodyBounded, BufferFits
<1>3. MainInv'
  BY <1>2, NoResponseType
     DEF Reboot, MainInv, MainType, RequestNotLeaked, PcInv, StateFresh, AppState,
         Status, WifiStates, NetStates
<1> QED
  BY <1>2, <1>3, HeapPartsNext

\* Every step keeps the first half of the invariant.
LEMMA NextHeap == ASSUME HeapInv, [Next]_vars PROVE HeapInv'
<1>1. CASE UNCHANGED vars
  <2>1. ClientInv' /\ MainInv'
    BY <1>1, HeapParts, ClientSame
       DEF vars, mainVars, clientVars, MainInv, MainType, RequestNotLeaked, PcInv, StateFresh
  <2> QED
    BY <2>1, HeapPartsNext
<1>2. CASE MainLoop
  BY <1>1, <1>2, DoRequestHeap, WaitResponseHeap, FetchHeap, FreeHeap, RestOfLoopHeap
     DEF MainLoop, WaitForNothing
<1>3. CASE ReloadConfig \/ Interrupt \/ Tick \/ Reboot
  BY <1>3, ReloadHeap, InterruptHeap, TickHeap, RebootHeap
<1> QED
  BY <1>1, <1>2, <1>3 DEF Next

\* Every variable keeps its type (TypeOK), and the structures on the heap stay
\* as httpclient.c needs them, whatever the server sends and however callbacks
\* interleave with the main loop.
THEOREM HeapCorrect == Spec => []HeapInv
<1>1. Init => HeapInv
  BY InitHeap
<1>2. HeapInv /\ [Next]_vars => HeapInv'
  BY NextHeap
<1> QED
  BY <1>1, <1>2, PTL DEF Spec

\* main.cpp: every variable of the program keeps its type.
THEOREM TypeCorrect == Spec => []TypeOK
<1>1. HeapInv => TypeOK
  BY DEF HeapInv
<1> QED
  BY <1>1, HeapCorrect, PTL

\* httpclient.c:266-311: for every server, every cut into segments and every
\* limit, what is copied fits the buffer, and the buffer the caller's limit.
THEOREM ResponseAlwaysFits == Spec => []ResponseFits
<1>1. HeapInv => ResponseFits
  <2> SUFFICES ASSUME HeapInv, NEW a \in live
               PROVE  IF mem[a].cap = -1 THEN mem[a].len = 0
                      ELSE mem[a].len <= mem[a].cap /\ mem[a].cap <= MaxSize
    BY DEF ResponseFits
  <2>1. Fits(mem[a]) /\ mem[a] \in Request
    BY DEF HeapInv, ClientInv, ClientType, BufferFits
  <2>2. mem[a].cap <= MaxSize
    BY <2>1, ResponseAssumption DEF Request, ResponseAssumption
  <2> QED
    BY <2>1, <2>2 DEF Fits
<1> QED
  BY <1>1, HeapCorrect, PTL

\* main.cpp:303-403: the only request on the heap is the one http_request
\* points to.
THEOREM RequestNeverLeaked == Spec => []RequestNotLeaked
<1>1. HeapInv => RequestNotLeaked
  BY DEF HeapInv
<1> QED
  BY <1>1, HeapCorrect, PTL

\* main.cpp:345-352: a new request is never judged by the old one's deadline.
THEOREM DeadlineIsFresh == Spec => []FreshDeadline
<1>1. HeapInv => FreshDeadline
  BY DEF HeapInv, StateFresh, FreshDeadline
<1> QED
  BY <1>1, HeapCorrect, PTL

\* The inductive form of WaitsForRequest: between the steps of a case as well.
Waiting == ~OpenMayFail /\ app_state = "ST_WAIT_RESPONSE" => http_request # NULL

\* While open2 has memory for a request, the state that main.cpp:401 calls a BUG
\* is never reached: the loop waits for a response only with a request open.
THEOREM NeverWaitsForNothing == Spec => []WaitsForRequest
<1>1. Init => Waiting
  BY DEF Init, MainInit, Waiting
<1>2. ASSUME Waiting, [Next]_vars PROVE Waiting'
  <2>1. CASE DoRequest
    BY <1>2, <2>1, NullIsNoAddress DEF Waiting, DoRequest
  <2>2. CASE WaitResponse
    BY <1>2, <2>2 DEF Waiting, WaitResponse
  <2>3. CASE FreeRequest
    BY <2>3 DEF Waiting, FreeRequest
  <2>4. CASE WaitForNothing \/ FetchResponse \/ WakeUp \/ UNCHANGED vars
    BY <1>2, <2>4 DEF Waiting, WaitForNothing, FetchResponse, WakeUp, vars, mainVars
  <2>5. CASE ShowAlerts \/ IgnoreResponse \/ Transition
    BY <2>5 DEF Waiting, ShowAlerts, IgnoreResponse, Transition
  <2>6. CASE ReloadConfig \/ Interrupt
    BY <1>2, <2>6 DEF Waiting, ReloadConfig, Interrupt, mainVars
  <2>7. CASE Tick
    BY <1>2, <2>7 DEF Waiting, Tick
  <2>8. CASE Reboot
    BY <2>8 DEF Waiting, Reboot
  <2> QED
    BY <1>2, <2>1, <2>2, <2>3, <2>4, <2>5, <2>6, <2>7, <2>8 DEF Next, MainLoop
<1>3. Waiting => WaitsForRequest
  BY DEF Waiting, WaitsForRequest, AtCase
<1> QED
  BY <1>1, <1>2, <1>3, PTL DEF Spec

------------------------------------------------------------------------------
(* The second half: which connections call back to which request.  What   *)
(* follows from it are NoCrossTalk, InProgressIsDriven and FailedIsClosed. *)

\* What the first half says that the second needs.
LEMMA HeapFacts ==
  ASSUME HeapInv
  PROVE  /\ mem \in [Addr -> Request] /\ pcb \in Blocks
         /\ live = IF http_request = NULL THEN {} ELSE {http_request}
         /\ http_request \in Addr \cup {NULL} /\ NULL \notin Addr
         /\ pc \in {"fetch", "close"} => http_request # NULL
  BY NullIsNoAddress
     DEF HeapInv, ClientInv, ClientType, RequestNotLeaked, TypeOK, PcInv, Blocks

LEMMA CloseFacts ==
  ASSUME NEW pcbs \in Blocks, NEW q \in Pcb \cup {NULL}, NEW p \in Pcb
  PROVE  Close(pcbs, q)[p] = IF p = q THEN FreePcb ELSE pcbs[p]
  BY ClientAssumption DEF Close, Blocks, ClientAssumption

\* A connected pcb is the open request's own, or left over.
LEMMA OwnPcb ==
  ASSUME HeapInv, ConnectionsInv, NEW p \in Pcb, Connected(p)
  PROVE  /\ pcb[p].arg \in Addr
         /\ mem[pcb[p].arg].pcb = p
         /\ pcb[p].arg \notin dns
         /\ http_request # NULL => pcb[p].arg = http_request
         /\ http_request = NULL => Leftover(p)
<1>1. InUse(p) /\ pcb[p].st # "idle"
  BY DEF Connected, InUse
<1>2. pcb[p].arg \in Addr
  BY <1>1, HeapFacts DEF ConnectionsInv, ArgWhenUsed, Blocks, ControlBlock
<1>3. CASE http_request # NULL
  <2>1. pcb[p].arg = http_request /\ mem[http_request].pcb = p /\ p # NULL
    BY <1>1, <1>3, ClientAssumption DEF ConnectionsInv, OnlyItsPcb, ClientAssumption
  <2>2. http_request \notin dns
    BY <1>1, <1>3, <2>1 DEF ConnectionsInv, LookupPending, OpenRequest
  <2> QED
    BY <1>2, <1>3, <2>1, <2>2
<1>4. CASE http_request = NULL
  <2>1. Leftover(p)
    BY <1>1, <1>4 DEF ConnectionsInv, OthersLeftOver
  <2>2. dns = {}
    BY <1>4, HeapFacts DEF ConnectionsInv, LookupPending
  <2> QED
    BY <1>2, <1>4, <2>1, <2>2 DEF Leftover
<1> QED
  BY <1>3, <1>4

\* The end of a request, seen from a callback: its pcb is freed with it.
LEMMA EndingKeeps ==
  ASSUME HeapInv, ConnectionsInv, NEW a \in Addr,
         http_request # NULL => a = http_request,
         mem'[a].status \in EndStates, mem'[a].pcb = NULL,
         \A b \in Addr \ {a} : mem'[b] = mem[b],
         \A p \in Pcb : pcb'[p] = IF p = mem[a].pcb THEN FreePcb ELSE pcb[p],
         dns' \subseteq dns \ {a}, UNCHANGED <<live, mainVars>>
  PROVE  ConnectionsInv'
<1>0. UNCHANGED <<http_request, pc, app_state, wait>>
  BY DEF mainVars
<1>1. ArgWhenUsed'
  BY DEF ConnectionsInv, ArgWhenUsed, InUse, FreePcb
<1>2. LookupPending'
  BY HeapFacts DEF ConnectionsInv, LookupPending
<1>3. (http_request # NULL => OpenRequest(mem[http_request]))'
  BY <1>0 DEF OpenRequest, EndStates, DoneStates, WifiStates, NetStates
<1>4. ReadWhenEnded'
  BY <1>0, HeapFacts DEF ReadWhenEnded
<1>5. OnlyItsPcb'
  BY <1>0 DEF ConnectionsInv, OnlyItsPcb, InUse, FreePcb
<1>6. OthersLeftOver'
  <2> SUFFICES ASSUME http_request = NULL, NEW p \in Pcb, InUse(p)'
               PROVE  Leftover(p)'
    BY <1>0 DEF OthersLeftOver
  <2>1. p # mem[a].pcb /\ pcb'[p] = pcb[p]
    BY DEF InUse, FreePcb
  <2>2. Leftover(p) /\ pcb[p].arg \in Addr
    BY <2>1, HeapFacts
       DEF ConnectionsInv, OthersLeftOver, ArgWhenUsed, InUse, Blocks, ControlBlock
  <2>3. pcb[p].arg # a
    BY <2>1, <2>2 DEF Leftover
  <2> QED
    BY <1>0, <2>1, <2>2, <2>3 DEF Leftover
<1> QED
  BY <1>1, <1>2, <1>3, <1>4, <1>5, <1>6 DEF ConnectionsInv

\* fail: as above, for a request that has its pcb or none.
LEMMA FailKeepsConnections ==
  ASSUME HeapInv, ConnectionsInv, NEW a \in Addr,
         http_request # NULL => a = http_request,
         NEW pcbs \in Blocks,
         \A p \in Pcb : p # mem[a].pcb => pcbs[p] = pcb[p],
         Fail(mem[a], a, pcbs),
         dns' \subseteq dns \ {a}, UNCHANGED <<live, mainVars>>
  PROVE  ConnectionsInv'
<1>1. mem[a] \in Request /\ mem \in [Addr -> Request]
  BY HeapFacts
<1>2. mem'[a].status = "FAILED" /\ mem'[a].pcb = NULL
  BY <1>1 DEF Fail, Request
<1>3. \A b \in Addr \ {a} : mem'[b] = mem[b]
  BY <1>1 DEF Fail
<1>4. \A p \in Pcb : pcb'[p] = IF p = mem[a].pcb THEN FreePcb ELSE pcb[p]
  BY <1>1, CloseFacts DEF Fail, Request
<1> QED
  BY <1>2, <1>3, <1>4, EndingKeeps DEF EndStates

LEMMA FinConnections ==
  ASSUME HeapInv, ConnectionsInv, NEW p \in Pcb, FinCallback(p), UNCHANGED mainVars
  PROVE  ConnectionsInv'
<1> DEFINE a == pcb[p].arg
<1>1. /\ a \in Addr /\ mem[a].pcb = p /\ a \notin dns
      /\ http_request # NULL => a = http_request
  BY OwnPcb DEF FinCallback, Connected
<1>2. /\ mem' = [mem EXCEPT ![a].status = "COMPLETE", ![a].pcb = NULL]
      /\ pcb' = Close(pcb, mem[a].pcb)
      /\ UNCHANGED <<live, dns>>
  BY DEF FinCallback
<1>3. mem \in [Addr -> Request] /\ pcb \in Blocks
  BY HeapFacts
<1> HIDE DEF a
<1>4. mem'[a].status = "COMPLETE" /\ mem'[a].pcb = NULL
  BY <1>1, <1>2, <1>3 DEF Request
<1>5. \A b \in Addr \ {a} : mem'[b] = mem[b]
  BY <1>2, <1>3
<1>6. \A q \in Pcb : pcb'[q] = IF q = mem[a].pcb THEN FreePcb ELSE pcb[q]
  BY <1>1, <1>2, <1>3, CloseFacts
<1> QED
  BY <1>1, <1>2, <1>4, <1>5, <1>6, EndingKeeps DEF EndStates, DoneStates

LEMMA PollConnections ==
  ASSUME HeapInv, ConnectionsInv, NEW p \in Pcb, PollCallback(p), UNCHANGED mainVars
  PROVE  ConnectionsInv'
<1> DEFINE a == pcb[p].arg
           polled == [pcb EXCEPT ![p].poll = 0]
<1>1. /\ a \in Addr /\ mem[a].pcb = p /\ a \notin dns
      /\ http_request # NULL => a = http_request
  BY OwnPcb DEF PollCallback, PollDue
<1>2. /\ mem' = [mem EXCEPT ![a].status = "TRUNCATED", ![a].pcb = NULL]
      /\ pcb' = Close(polled, mem[a].pcb)
      /\ UNCHANGED <<live, dns>>
  BY DEF PollCallback
<1>3. mem \in [Addr -> Request] /\ pcb \in Blocks
  BY HeapFacts
<1>4. polled \in Blocks /\ \A q \in Pcb : q # p => polled[q] = pcb[q]
  <2>1. 0 \in 0 .. PollTicks
    BY ClientAssumption DEF ClientAssumption
  <2> QED
    BY <1>3, <2>1 DEF Blocks, ControlBlock
<1> HIDE DEF a, polled
<1>5. mem'[a].status = "TRUNCATED" /\ mem'[a].pcb = NULL
  BY <1>1, <1>2, <1>3 DEF Request
<1>6. \A b \in Addr \ {a} : mem'[b] = mem[b]
  BY <1>2, <1>3
<1>7. \A q \in Pcb : pcb'[q] = IF q = mem[a].pcb THEN FreePcb ELSE pcb[q]
  BY <1>1, <1>2, <1>4, CloseFacts
<1> QED
  BY <1>1, <1>2, <1>5, <1>6, <1>7, EndingKeeps DEF EndStates, DoneStates

LEMMA ErrConnections ==
  ASSUME HeapInv, ConnectionsInv, NEW p \in Pcb, ErrCallback(p), UNCHANGED mainVars
  PROVE  ConnectionsInv'
<1> DEFINE a == pcb[p].arg
           freed == [pcb EXCEPT ![p] = FreePcb]
<1>1. /\ a \in Addr /\ mem[a].pcb = p /\ a \notin dns
      /\ http_request # NULL => a = http_request
  BY OwnPcb DEF ErrCallback
<1>2. Fail(mem[a], a, freed) /\ UNCHANGED <<live, dns>>
  BY DEF ErrCallback
<1>3. freed \in Blocks /\ \A q \in Pcb : q # p => freed[q] = pcb[q]
  BY HeapFacts, FreePcbType DEF Blocks
<1> HIDE DEF a, freed
<1> QED
  BY <1>1, <1>2, <1>3, FailKeepsConnections

\* A callback that leaves its request the same status but for progress, and the
\* same pcb, connected: the request is the open one.
LEMMA ProgressKeeps ==
  ASSUME HeapInv, ConnectionsInv, NEW p \in Pcb, pcb[p].arg = http_request,
         http_request \in Addr, mem[http_request].pcb = p,
         http_request \notin dns',
         mem'[http_request].pcb = p,
         mem'[http_request].status \in (NetStates \ {"DNS"}) \cup DoneStates,
         mem[http_request].status \in EndStates => mem'[http_request].status \in EndStates,
         mem'[http_request].status \in DoneStates => pcb'[p].st = "est" /\ pcb'[p].acks = 0,
         mem'[http_request].status \in ReceiveStates => pcb'[p].st = "est",
         pcb'[p].st \in {"syn", "est"}, pcb'[p].arg = http_request,
         \A q \in Pcb \ {p} : pcb'[q] = pcb[q],
         dns' \subseteq dns, UNCHANGED <<live, mainVars>>
  PROVE  ConnectionsInv'
<1>0. UNCHANGED <<http_request, pc, app_state, wait>>
  BY DEF mainVars
<1>1. http_request # NULL
  BY HeapFacts
<1>2. ArgWhenUsed'
  BY <1>1 DEF ConnectionsInv, ArgWhenUsed, InUse
<1>3. LookupPending'
  <2>1. dns = {} \/ dns = {http_request}
    BY <1>1, HeapFacts DEF ConnectionsInv, LookupPending
  <2> QED
    BY <2>1 DEF LookupPending
<1>8. p # NULL
  BY ClientAssumption DEF ClientAssumption
<1>4. OpenRequest(mem[http_request])'
  BY <1>0, <1>8
     DEF OpenRequest, Connected, EndStates, DoneStates, WifiStates, NetStates, ReceiveStates
<1>5. ReadWhenEnded'
  BY <1>0 DEF ReadWhenEnded, ConnectionsInv
<1>6. OnlyItsPcb'
  BY <1>0, <1>1 DEF ConnectionsInv, OnlyItsPcb, InUse
<1>7. OthersLeftOver'
  BY <1>0, <1>1 DEF OthersLeftOver
<1> QED
  BY <1>2, <1>3, <1>4, <1>5, <1>6, <1>7 DEF ConnectionsInv

LEMMA DnsConnections ==
  ASSUME HeapInv, ConnectionsInv, NEW a \in Addr, DnsCallback(a), UNCHANGED mainVars
  PROVE  ConnectionsInv'
<1> DEFINE r == mem[a]
<1>1. mem \in [Addr -> Request] /\ pcb \in Blocks /\ r \in Request
  BY HeapFacts
<1>2. /\ a = http_request /\ r.status = "DNS"
  BY HeapFacts DEF DnsCallback, ConnectionsInv, LookupPending
<1>3. dns' = dns \ {a} /\ UNCHANGED live
  BY DEF DnsCallback
<1>4. CASE Fail(r, a, pcb)
  BY <1>1, <1>2, <1>3, <1>4, FailKeepsConnections
<1>5. CASE /\ r.pcb # NULL
           /\ mem' = [mem EXCEPT ![a] = [r EXCEPT !.status = "CONNECT"]]
           /\ pcb' = [pcb EXCEPT ![r.pcb].st = "syn", ![r.pcb].acks = Flights]
  <2>1. r.pcb \in Pcb
    BY <1>1, <1>5 DEF Request
  <2>2. pcb[r.pcb].arg = a
    BY <1>2, <1>5, HeapFacts DEF ConnectionsInv, OpenRequest
  <2>3. mem'[a].pcb = r.pcb /\ mem'[a].status = "CONNECT"
    BY <1>1, <1>5 DEF Request
  <2>4. /\ pcb'[r.pcb].st = "syn" /\ pcb'[r.pcb].arg = a
        /\ \A q \in Pcb \ {r.pcb} : pcb'[q] = pcb[q]
    BY <1>1, <1>5, <2>1, <2>2 DEF Blocks, ControlBlock
  <2> QED
    BY <1>2, <1>3, <2>1, <2>2, <2>3, <2>4, ProgressKeeps
       DEF NetStates, DoneStates, EndStates, ReceiveStates
<1> QED
  BY <1>4, <1>5 DEF DnsCallback, Connect

LEMMA ConnectCallbackConnections ==
  ASSUME HeapInv, ConnectionsInv, NEW p \in Pcb, ConnectCallback(p), UNCHANGED mainVars
  PROVE  ConnectionsInv'
<1> DEFINE a == pcb[p].arg
<1>1. mem \in [Addr -> Request] /\ pcb \in Blocks
  BY HeapFacts
<1>2. /\ a \in Addr /\ mem[a].pcb = p /\ a \notin dns
      /\ http_request # NULL => a = http_request
      /\ http_request = NULL => Leftover(p)
  BY OwnPcb DEF ConnectCallback, Connected
<1>3. a = http_request /\ pcb[p].st = "syn"
  BY <1>2 DEF ConnectCallback, Leftover
<1>4. UNCHANGED <<live, dns>>
  BY DEF ConnectCallback
<1>5. ASSUME NEW v \in Served,
             mem' = [mem EXCEPT ![a].status = "RESPONSE_STATUS", ![a].sendbuf = FALSE],
             pcb' = [pcb EXCEPT ![p].st = "est", ![p].acks = 1,
                                ![p].code = v.code, ![p].clen = v.clen]
      PROVE  ConnectionsInv'
  <2>1. mem'[a].pcb = p /\ mem'[a].status = "RESPONSE_STATUS"
    BY <1>1, <1>2, <1>5 DEF Request
  <2>2. /\ pcb'[p].st = "est" /\ pcb'[p].arg = a
        /\ \A q \in Pcb \ {p} : pcb'[q] = pcb[q]
    BY <1>1, <1>5 DEF Blocks, ControlBlock
  <2>3. mem[a].status \notin EndStates
    BY <1>2, <1>3, HeapFacts, ClientAssumption
       DEF ConnectionsInv, OpenRequest, EndStates, ClientAssumption
  <2> QED
    BY <1>2, <1>3, <1>4, <2>1, <2>2, <2>3, ProgressKeeps DEF NetStates, DoneStates
<1>6. CASE Fail(mem[a], a, pcb)
  BY <1>1, <1>2, <1>3, <1>4, <1>6, FailKeepsConnections
<1> QED
  BY <1>5, <1>6 DEF ConnectCallback

LEMMA AckedConnections ==
  ASSUME HeapInv, ConnectionsInv, NEW p \in Pcb, Acked(p), UNCHANGED mainVars
  PROVE  ConnectionsInv'
<1> DEFINE a == pcb[p].arg
<1>1. pcb \in Blocks
  BY HeapFacts
<1>2. /\ a \in Addr /\ mem[a].pcb = p /\ a \notin dns
      /\ http_request # NULL => a = http_request
      /\ http_request = NULL => Leftover(p)
  BY OwnPcb DEF Acked
<1>3. /\ pcb[p].acks > 0 /\ Connected(p)
      /\ pcb' = [pcb EXCEPT ![p].acks = @ - 1, ![p].poll = 0]
      /\ UNCHANGED <<mem, live, dns>>
  BY DEF Acked
<1>4. a = http_request /\ p # NULL
  BY <1>2, <1>3, ClientAssumption DEF Leftover, ClientAssumption
<1>5. /\ pcb'[p].st = pcb[p].st /\ pcb'[p].arg = a
      /\ \A q \in Pcb \ {p} : pcb'[q] = pcb[q]
  BY <1>1, <1>3 DEF Blocks, ControlBlock
<1>6. mem[a].status \in NetStates \ {"DNS"}
  <2>1. mem[a].status \in Status
    BY <1>2, HeapFacts DEF Request
  <2>2. OpenRequest(mem[a])
    BY <1>2, <1>4, HeapFacts DEF ConnectionsInv
  <2> QED
    BY <1>2, <1>3, <1>4, <2>1, <2>2
       DEF OpenRequest, Connected, Status, EndStates, WifiStates
<1>7. mem[a].status \in ReceiveStates => pcb[p].st = "est"
  BY <1>2, <1>4, HeapFacts DEF ConnectionsInv, OpenRequest, ReceiveStates
<1> QED
  BY <1>2, <1>3, <1>4, <1>5, <1>6, <1>7, ProgressKeeps
     DEF Connected, NetStates, EndStates, DoneStates

\* A connected pcb's open request is in progress or done.
LEMMA OwnStatus ==
  ASSUME HeapInv, ConnectionsInv, NEW p \in Pcb, Connected(p), http_request # NULL
  PROVE  mem[http_request].status \in (NetStates \ {"DNS"}) \cup DoneStates
<1>1. /\ mem[http_request].pcb = p /\ http_request \notin dns /\ p # NULL
      /\ mem[http_request].status \in Status
  BY OwnPcb, HeapFacts, ClientAssumption DEF Request, ClientAssumption
<1>2. OpenRequest(mem[http_request])
  BY DEF ConnectionsInv
<1> QED
  BY <1>1, <1>2 DEF OpenRequest, Status, EndStates

LEMMA RecvConnections ==
  ASSUME HeapInv, ConnectionsInv, NEW p \in Pcb, RecvCallback(p), UNCHANGED mainVars
  PROVE  ConnectionsInv'
<1> DEFINE a == pcb[p].arg
           r == mem[a]
<1>1. /\ mem \in [Addr -> Request] /\ pcb \in Blocks /\ pcb[p] \in ControlBlock
      /\ ClientInv
  BY HeapFacts DEF Blocks, HeapInv
<1>2. pcb[p].st = "est" /\ Connected(p)
  BY DEF RecvCallback, Connected
<1>3. /\ a \in Addr /\ r.pcb = p /\ a \notin dns /\ p # NULL
      /\ http_request # NULL => a = http_request
      /\ http_request = NULL => Leftover(p)
  BY <1>2, OwnPcb, ClientAssumption DEF ClientAssumption
<1>4. r \in Request /\ Bounded(r)
  BY <1>1, <1>3 DEF ClientInv, BodyBounded
<1>5. PICK s \in Segments(p) : \E o \in RecvOutcomes(r, s) :
        IF o.failed
          THEN /\ mem' = [mem EXCEPT ![a] = [o.req EXCEPT !.pcb = NULL]]
               /\ pcb' = Close(Received(p, s), r.pcb)
          ELSE /\ mem' = [mem EXCEPT ![a] = o.req]
               /\ pcb' = Received(p, s)
  BY DEF RecvCallback
<1>6. PICK o \in RecvOutcomes(r, s) :
        IF o.failed
          THEN /\ mem' = [mem EXCEPT ![a] = [o.req EXCEPT !.pcb = NULL]]
               /\ pcb' = Close(Received(p, s), r.pcb)
          ELSE /\ mem' = [mem EXCEPT ![a] = o.req]
               /\ pcb' = Received(p, s)
  BY <1>5
<1>7. UNCHANGED <<live, dns>>
  BY DEF RecvCallback
<1>8. s \in Segment /\ s.from < s.to /\ Received(p, s) \in Blocks
  BY <1>1, SegmentLemma
<1>9. r.status # "FAILED"
  <2>1. CASE http_request = NULL
    BY <1>3, <2>1 DEF Leftover, DoneStates
  <2>2. CASE http_request # NULL
    BY <1>2, <1>3, <2>2, OwnStatus DEF NetStates, DoneStates
  <2> QED
    BY <2>1, <2>2
<1>10. /\ Received(p, s)[p].st = "est" /\ Received(p, s)[p].arg = a
       /\ Received(p, s)[p].acks = 0
       /\ pcb[p].acks = 0 => Received(p, s)[p].poll = pcb[p].poll
       /\ \A q \in Pcb \ {p} : Received(p, s)[q] = pcb[q]
  BY <1>1, <1>2 DEF Received, Blocks, ControlBlock
<1> HIDE DEF r
<1>11. /\ o.req \in Request /\ o.failed \in BOOLEAN
       /\ o.failed <=> o.req.status = "FAILED"
       /\ o.req.pcb = r.pcb
       /\ r.status \notin ReceiveStates => o.req = r
       /\ r.status \in ReceiveStates =>
            o.req.status \in ReceiveStates \cup DoneStates \cup {"FAILED"}
  BY <1>4, <1>8, <1>9, RecvLemma
<1>12. CASE o.failed
  <2>1. mem'[a].status = "FAILED" /\ mem'[a].pcb = NULL
    BY <1>1, <1>3, <1>6, <1>11, <1>12 DEF Request
  <2>2. \A b \in Addr \ {a} : mem'[b] = mem[b]
    BY <1>1, <1>6, <1>12
  <2>3. \A q \in Pcb : pcb'[q] = IF q = r.pcb THEN FreePcb ELSE pcb[q]
    BY <1>3, <1>6, <1>8, <1>10, <1>12, CloseFacts
  <2> QED
    BY <1>3, <1>7, <2>1, <2>2, <2>3, EndingKeeps DEF EndStates, r
<1>13. CASE ~o.failed /\ http_request # NULL
  <2>1. r.status \in (NetStates \ {"DNS"}) \cup DoneStates
    BY <1>2, <1>3, <1>13, OwnStatus DEF r
  <2>2. mem' = [mem EXCEPT ![a] = o.req] /\ mem'[a] = o.req /\ pcb' = Received(p, s)
    BY <1>1, <1>3, <1>6, <1>13
  <2>3. /\ o.req.status \in (NetStates \ {"DNS"}) \cup DoneStates
        /\ r.status \in EndStates => o.req.status \in EndStates
    BY <1>11, <1>13, <2>1 DEF ReceiveStates, NetStates, DoneStates, EndStates
  <2> QED
    BY <1>3, <1>7, <1>10, <1>11, <1>13, <2>2, <2>3, ProgressKeeps DEF r
<1>14. CASE ~o.failed /\ http_request = NULL
  <2>1. Leftover(p) /\ r.status \in DoneStates
    BY <1>3, <1>14 DEF Leftover, r
  <2>2. o.req = r /\ mem' = mem /\ pcb' = Received(p, s)
    BY <1>1, <1>3, <1>6, <1>11, <1>14, <2>1 DEF ReceiveStates, DoneStates, r
  <2>3. \A q \in Pcb : /\ pcb'[q].st = pcb[q].st /\ pcb'[q].arg = pcb[q].arg
                        /\ pcb'[q].acks = pcb[q].acks /\ pcb'[q].poll = pcb[q].poll
    BY <1>2, <1>10, <2>1, <2>2 DEF Leftover
  <2>4. UNCHANGED <<http_request, pc, app_state, wait>>
    BY DEF mainVars
  <2> QED
    BY <1>7, <1>14, <2>2, <2>3, <2>4, HeapFacts
       DEF ConnectionsInv, ArgWhenUsed, LookupPending, ReadWhenEnded, OnlyItsPcb,
           OthersLeftOver, Leftover, InUse
<1> QED
  BY <1>11, <1>12, <1>13, <1>14

------------------------------------------------------------------------------
(* The steps of the main loop and of the clock preserve the second half,   *)
(* and the theorems that follow from the whole.                            *)


LEMMA InitConnections == ASSUME Init PROVE ConnectionsInv
<1> USE DEF Init, ClientInit, MainInit
<1>1. \A p \in Pcb : ~InUse(p) /\ pcb[p].arg = NULL
  BY DEF InUse, FreePcb
<1> QED
  BY <1>1 DEF ConnectionsInv, ArgWhenUsed, LookupPending, ReadWhenEnded, OnlyItsPcb,
              OthersLeftOver

LEMMA RebootConnections == ASSUME Reboot PROVE ConnectionsInv'
<1> USE DEF Reboot
<1>1. \A p \in Pcb : ~InUse(p)' /\ pcb'[p].arg = NULL
  BY DEF InUse, FreePcb
<1> QED
  BY <1>1 DEF ConnectionsInv, ArgWhenUsed, LookupPending, ReadWhenEnded, OnlyItsPcb,
              OthersLeftOver

\* Steps that touch neither requests nor connections.
LEMMA IdleKeeps ==
  ASSUME ConnectionsInv, UNCHANGED <<mem, live, pcb, dns, http_request>>,
         pc' \in {"fetch", "close"} => pc \in {"fetch", "close"},
         http_request = NULL => \A p \in Pcb : InUse(p) /\ Leftover(p) => Leftover(p)'
  PROVE  ConnectionsInv'
<1>1. ArgWhenUsed' /\ LookupPending' /\ OnlyItsPcb'
  BY DEF ConnectionsInv, ArgWhenUsed, LookupPending, OnlyItsPcb, InUse
<1>2. (http_request # NULL => OpenRequest(mem[http_request]))'
  BY DEF ConnectionsInv, OpenRequest, Connected
<1>3. ReadWhenEnded'
  BY DEF ConnectionsInv, ReadWhenEnded
<1>4. OthersLeftOver'
  BY DEF ConnectionsInv, OthersLeftOver, InUse
<1> QED
  BY <1>1, <1>2, <1>3, <1>4 DEF ConnectionsInv

\* The result of httpclient_start_request at address a, with nothing else open.
Opened(a) ==
  /\ mem'[a].status \in {"DNS", "CONNECT", "FAILED"}
  /\ dns' = IF mem'[a].status = "DNS" THEN {a} ELSE {}
  /\ mem'[a].status = "CONNECT" => mem'[a].pcb # NULL
  /\ mem'[a].status = "FAILED" => mem'[a].pcb = NULL
  /\ mem'[a].pcb \in Pcb \cup {NULL}
  /\ \A p \in Pcb :
       IF p = mem'[a].pcb
         THEN /\ pcb'[p].arg = a
              /\ pcb'[p].st = IF mem'[a].status = "DNS" THEN "idle" ELSE "syn"
         ELSE pcb'[p].arg = NULL /\ pcb'[p].st = "free"

LEMMA OpenedKeeps ==
  ASSUME NEW a \in Addr, Opened(a), http_request' = a, live' = {a},
         pc' \in {"fetch", "close"} => mem'[a].status \in EndStates
  PROVE  ConnectionsInv'
<1> USE NullIsNoAddress DEF Opened
<1>1. ArgWhenUsed' /\ OnlyItsPcb'
  BY DEF ArgWhenUsed, OnlyItsPcb, InUse
<1>2. LookupPending'
  BY DEF LookupPending
<1>3. OpenRequest(mem[http_request])'
  <2>1. mem'[a].pcb # NULL => mem'[a].pcb \in Pcb
    OBVIOUS
  <2> QED
    BY <2>1 DEF OpenRequest, Connected, WifiStates, NetStates, DoneStates
<1>4. ReadWhenEnded' /\ OthersLeftOver'
  BY DEF ReadWhenEnded, OthersLeftOver
<1> QED
  BY <1>1, <1>2, <1>3, <1>4 DEF ConnectionsInv

\* A lookup for a request that has just been given its pcb "q", or none.
LEMMA LookupOpens ==
  ASSUME NEW a \in Addr, NEW r \in Request, NEW pcbs \in Blocks,
         mem \in [Addr -> Request], dns = {},
         \A p \in Pcb : IF p = r.pcb THEN pcbs[p].st = "idle" /\ pcbs[p].arg = a
                                     ELSE pcbs[p].st = "free" /\ pcbs[p].arg = NULL,
         Lookup(r, a, pcbs)
  PROVE  Opened(a)
<1>1. r.pcb \in Pcb \cup {NULL}
  BY DEF Request
<1>2. CASE Fail(r, a, pcbs) /\ UNCHANGED dns
  <2>1. mem'[a].status = "FAILED" /\ mem'[a].pcb = NULL
    BY <1>2 DEF Fail, Request
  <2>2. \A p \in Pcb : pcb'[p] = IF p = r.pcb THEN FreePcb ELSE pcbs[p]
    BY <1>1, <1>2, CloseFacts DEF Fail
  <2>3. \A p \in Pcb : pcb'[p].st = "free" /\ pcb'[p].arg = NULL /\ p # NULL
    BY <2>2, ClientAssumption DEF FreePcb, ClientAssumption
  <2> QED
    BY <1>2, <2>1, <2>3 DEF Opened
<1>3. CASE /\ mem' = [mem EXCEPT ![a] = [r EXCEPT !.status = "DNS"]]
           /\ pcb' = pcbs /\ dns' = dns \cup {a}
  <2>1. mem'[a].status = "DNS" /\ mem'[a].pcb = r.pcb
    BY <1>3 DEF Request
  <2> QED
    BY <1>1, <1>3, <2>1 DEF Opened
<1>4. CASE /\ r.pcb # NULL
           /\ mem' = [mem EXCEPT ![a] = [r EXCEPT !.status = "CONNECT"]]
           /\ pcb' = [pcbs EXCEPT ![r.pcb].st = "syn", ![r.pcb].acks = Flights]
           /\ UNCHANGED dns
  <2>1. mem'[a].status = "CONNECT" /\ mem'[a].pcb = r.pcb
    BY <1>4 DEF Request
  <2>2. /\ pcb'[r.pcb].st = "syn" /\ pcb'[r.pcb].arg = a
        /\ \A p \in Pcb \ {r.pcb} : pcb'[p] = pcbs[p]
    BY <1>1, <1>4 DEF Blocks, ControlBlock
  <2> QED
    BY <1>1, <1>4, <2>1, <2>2 DEF Opened
<1> QED
  BY <1>2, <1>3, <1>4 DEF Lookup, Connect

LEMMA StartOpens ==
  ASSUME NEW a \in Addr, NEW r \in Request, mem \in [Addr -> Request], pcb \in Blocks,
         dns = {}, \A p \in Pcb : ~InUse(p) /\ pcb[p].arg = NULL,
         StartRequest(r, a), ~halted'
  PROVE  Opened(a)
<1> USE DEF InUse
<1>1. ASSUME NEW p \in Pcb,
             Lookup([r EXCEPT !.pcb = p], a, [pcb EXCEPT ![p].st = "idle", ![p].arg = a])
      PROVE  Opened(a)
  <2> DEFINE w == [r EXCEPT !.pcb = p]
             pcbs == [pcb EXCEPT ![p].st = "idle", ![p].arg = a]
  <2>1. w \in Request /\ w.pcb = p
    BY DEF Request
  <2>2. pcbs \in Blocks
    BY DEF Blocks, ControlBlock
  <2>3. \A q \in Pcb : IF q = p THEN pcbs[q].st = "idle" /\ pcbs[q].arg = a
                                ELSE pcbs[q].st = "free" /\ pcbs[q].arg = NULL
    BY DEF Blocks, ControlBlock
  <2>4. Lookup(w, a, pcbs)
    BY <1>1
  <2> HIDE DEF w, pcbs
  <2> QED
    BY <2>1, <2>2, <2>3, <2>4, LookupOpens
<1>2. ASSUME Lookup([r EXCEPT !.pcb = NULL], a, pcb)
      PROVE  Opened(a)
  <2> DEFINE w == [r EXCEPT !.pcb = NULL]
  <2>1. w \in Request /\ w.pcb = NULL
    BY DEF Request
  <2>2. \A q \in Pcb : q # NULL
    BY ClientAssumption DEF ClientAssumption
  <2>3. Lookup(w, a, pcb)
    BY <1>2
  <2> HIDE DEF w
  <2> QED
    BY <2>1, <2>2, <2>3, LookupOpens
<1> QED
  BY <1>1, <1>2 DEF StartRequest

------------------------------------------------------------------------------
(* The steps of the main loop. *)

LEMMA DoRequestConnections ==
  ASSUME HeapInv, HeapInv', ConnectionsInv, Sane', DoRequest
  PROVE  ConnectionsInv'
<1>1. UNCHANGED <<pc, wait>> /\ app_state = "ST_DO_REQUEST" /\ pc = "iter"
  BY DEF DoRequest, AtCase
<1>2. ASSUME NEW a \in Addr, Open2(a), http_request' = a, http_request = NULL
      PROVE  ConnectionsInv'
  <2> DEFINE r == [EmptyRequest EXCEPT !.sendbuf = TRUE]
  <2>1. mem \in [Addr -> Request] /\ pcb \in Blocks /\ live = {} /\ live' = {a}
    BY <1>2, HeapFacts DEF Open2
  <2>2. dns = {} /\ \A p \in Pcb : ~InUse(p) /\ pcb[p].arg = NULL
    BY <1>1, <1>2, <2>1
       DEF ConnectionsInv, LookupPending, OthersLeftOver, Leftover, ArgWhenUsed
  <2>3. r \in Request
    BY EmptyRequestType DEF Request
  <2>4. CASE StartRequest(r, a)
    <3>1. Opened(a)
      BY <2>1, <2>2, <2>3, <2>4, StartOpens DEF Sane
    <3> QED
      BY <1>1, <1>2, <2>1, <3>1, OpenedKeeps
  <2>5. CASE /\ mem' = [mem EXCEPT ![a] = [r EXCEPT !.status = "WIFI"]]
             /\ UNCHANGED <<pcb, dns>>
    <3>1. mem'[a].status = "WIFI" /\ mem'[a].pcb = NULL
      BY <2>1, <2>5 DEF EmptyRequest
    <3> QED
      BY <1>1, <1>2, <2>1, <2>2, <2>5, <3>1, NullIsNoAddress
         DEF ConnectionsInv, ArgWhenUsed, LookupPending, OpenRequest, ReadWhenEnded,
             OnlyItsPcb, OthersLeftOver, InUse, NetStates, DoneStates
  <2> QED
    BY <1>2, <2>4, <2>5 DEF Open2
<1>3. CASE UNCHANGED <<clientVars, http_request>>
  BY <1>1, <1>3, IdleKeeps DEF clientVars, Leftover
<1> QED
  BY <1>2, <1>3 DEF DoRequest

LEMMA WaitResponseConnections ==
  ASSUME HeapInv, HeapInv', ConnectionsInv, Sane', WaitResponse
  PROVE  ConnectionsInv'
<1> DEFINE a == http_request
<1>1. /\ mem \in [Addr -> Request] /\ pcb \in Blocks
      /\ a \in Addr /\ live = {a} /\ http_request' = a /\ live' = live
      /\ pc = "iter"
  BY HeapFacts DEF WaitResponse, Check, AtCase
<1>2. pc' \in {"fetch", "close"} => mem'[a].status \in EndStates
  BY <1>1 DEF WaitResponse, StillJoining, StillTalking, ResponseReady, RequestFailed, EndStates
<1>3. CASE mem[a].status = "WIFI" /\ StartRequest(mem[a], a)
  <2>1. OpenRequest(mem[a]) /\ a # NULL
    BY <1>1, NullIsNoAddress DEF ConnectionsInv
  <2>2. mem[a].pcb = NULL /\ dns = {}
    BY <1>1, <1>3, <2>1 DEF OpenRequest, WifiStates, ConnectionsInv, LookupPending
  <2>3. \A p \in Pcb : ~InUse(p) /\ pcb[p].arg = NULL
    BY <1>1, <2>1, <2>2, ClientAssumption
       DEF ConnectionsInv, OnlyItsPcb, ArgWhenUsed, ClientAssumption
  <2>4. mem[a] \in Request
    BY <1>1
  <2>5. Opened(a)
    BY <1>1, <1>3, <2>2, <2>3, <2>4, StartOpens DEF Sane
  <2> QED
    BY <1>1, <1>2, <2>5, OpenedKeeps
<1>4. CASE /\ mem[a].status \in WifiStates /\ mem'[a].status \in WifiStates
           /\ mem'[a].pcb = mem[a].pcb
           /\ UNCHANGED <<pcb, dns>>
  <2>1. pc' \notin {"fetch", "close"}
    BY <1>2, <1>4 DEF WifiStates, EndStates, DoneStates
  <2>2. a # NULL /\ mem[a].status # "DNS"
    BY <1>1, <1>4, NullIsNoAddress DEF WifiStates
  <2>3. dns = {}
    BY <1>1, <2>2 DEF ConnectionsInv, LookupPending
  <2> QED
    BY <1>1, <1>4, <2>1, <2>2, <2>3
       DEF ConnectionsInv, ArgWhenUsed, LookupPending, OpenRequest, ReadWhenEnded,
           OnlyItsPcb, OthersLeftOver, InUse, WifiStates, NetStates, DoneStates
<1>5. CASE UNCHANGED <<mem, pcb, dns>>
  BY <1>1, <1>2, <1>5, NullIsNoAddress
     DEF ConnectionsInv, ArgWhenUsed, LookupPending, OpenRequest, ReadWhenEnded,
         OnlyItsPcb, OthersLeftOver, InUse, Connected
<1>6. CASE /\ mem[a].status = "WIFI"
           /\ mem' = [mem EXCEPT ![a].status = "WIFI_INIT", ![a].retry = RetryTicks]
           /\ UNCHANGED <<pcb, dns>>
  <2>1. mem'[a].status = "WIFI_INIT" /\ mem'[a].pcb = mem[a].pcb
    BY <1>1, <1>6 DEF Request
  <2> QED
    BY <1>4, <1>6, <2>1 DEF WifiStates
<1>7. CASE /\ mem[a].status = "WIFI_INIT"
           /\ mem' = [mem EXCEPT ![a].status = "WIFI"]
           /\ UNCHANGED <<pcb, dns>>
  <2>1. mem'[a].status = "WIFI" /\ mem'[a].pcb = mem[a].pcb
    BY <1>1, <1>7 DEF Request
  <2> QED
    BY <1>4, <1>7, <2>1 DEF WifiStates
<1> QED
  BY <1>3, <1>5, <1>6, <1>7 DEF WaitResponse, Check

LEMMA FetchConnections ==
  ASSUME HeapInv, ConnectionsInv, Sane', FetchResponse
  PROVE  ConnectionsInv'
<1>1. pc = "fetch" /\ UNCHANGED <<clientVars, http_request, app_state, wait>>
  BY DEF FetchResponse, Sane
<1> QED
  BY <1>1, IdleKeeps DEF clientVars, Leftover

\* httpclient_close: a done request's pcb is left over from here on.
LEMMA FreeConnections ==
  ASSUME HeapInv, ConnectionsInv, FreeRequest
  PROVE  ConnectionsInv'
<1> DEFINE a == http_request
<1>1. /\ mem \in [Addr -> Request] /\ pcb \in Blocks
      /\ a \in Addr /\ a # NULL /\ live = {a}
  BY HeapFacts DEF FreeRequest
<1>2. /\ mem' = IF Pending(a)
                  THEN [mem EXCEPT ![a].cap = -1, ![a].sendbuf = FALSE]
                  ELSE [mem EXCEPT ![a] = EmptyRequest]
      /\ live' = {} /\ http_request' = NULL /\ UNCHANGED <<pcb, dns>>
      /\ app_state' = "ST_HANDLE_RESPONSE" /\ pc' = "iter"
  BY <1>1 DEF FreeRequest, CloseRequest
<1>3. mem[a].status \in EndStates /\ OpenRequest(mem[a])
  BY <1>1 DEF ConnectionsInv, ReadWhenEnded, FreeRequest
<1>4. dns = {}
  BY <1>1, <1>3 DEF ConnectionsInv, LookupPending, EndStates, DoneStates
<1>5. ArgWhenUsed' /\ LookupPending' /\ ReadWhenEnded' /\ OnlyItsPcb'
  BY <1>2, <1>4
     DEF ConnectionsInv, ArgWhenUsed, LookupPending, ReadWhenEnded, OnlyItsPcb, InUse
<1>6. OthersLeftOver'
  <2> SUFFICES ASSUME NEW p \in Pcb, InUse(p)
               PROVE  Leftover(p)'
    BY <1>2 DEF OthersLeftOver, InUse
  <2>1. pcb[p].arg = a /\ mem[a].pcb = p /\ p # NULL
    BY <1>1, ClientAssumption DEF ConnectionsInv, OnlyItsPcb, ClientAssumption
  <2>2. mem[a].status \in DoneStates /\ pcb[p].st = "est" /\ pcb[p].acks = 0
    BY <1>3, <2>1 DEF OpenRequest, EndStates
  <2>3. mem'[a].pcb = p /\ mem'[a].status = mem[a].status
    BY <1>1, <1>2, <2>1 DEF Request, Pending
  <2> QED
    BY <1>2, <2>1, <2>2, <2>3 DEF Leftover
<1> QED
  BY <1>2, <1>5, <1>6 DEF ConnectionsInv

\* The steps that only move the main loop on.  A left-over connection outlives
\* none of the sleeps: it is closed by its poll timer first.
LEMMA RestConnections ==
  ASSUME HeapInv, ConnectionsInv,
         WaitForNothing \/ ShowAlerts \/ IgnoreResponse \/ Transition \/ WakeUp
           \/ ReloadConfig
  PROVE  ConnectionsInv'
<1>1. UNCHANGED <<mem, live, pcb, dns, http_request, pc>>
  BY DEF WaitForNothing, ShowAlerts, IgnoreResponse, Transition, WakeUp, ReloadConfig,
         vars, clientVars, mainVars
<1>2. \A p \in Pcb : pcb[p].poll \in 0 .. PollTicks
  BY HeapFacts DEF Blocks, ControlBlock
<1>3. PollTicks \in Nat /\ SleepTicks \in Nat /\ PollTicks <= SleepTicks
  BY ClientAssumption, DisplayAssumption DEF ClientAssumption, DisplayAssumption
<1>4. ASSUME NEW p \in Pcb, InUse(p), Leftover(p)
      PROVE  Leftover(p)'
  <2>1. CASE WaitForNothing \/ ReloadConfig
    BY <1>4, <2>1 DEF WaitForNothing, ReloadConfig, vars, clientVars, mainVars, Leftover
  <2>2. CASE ShowAlerts
    BY <1>4, <2>2 DEF ShowAlerts, Leftover
  <2>3. CASE IgnoreResponse \/ Transition
    <3>1. /\ UNCHANGED <<mem, pcb>>
          /\ app_state' = "ST_SLEEP" /\ wait' = SleepTicks
      BY <2>3 DEF IgnoreResponse, Transition, clientVars
    <3>2. wait' >= PollTicks - pcb[p].poll
      BY <1>2, <1>3, <3>1
    <3> QED
      BY <1>4, <3>1, <3>2 DEF Leftover
  <2>4. CASE WakeUp
    <3>1. app_state = "ST_SLEEP" /\ wait < 0
      BY <2>4 DEF WakeUp, AtCase, is_after
    <3>2. wait >= PollTicks - pcb[p].poll /\ wait \in Nat \cup {-1}
      BY <1>4, <3>1 DEF Leftover, HeapInv, TypeOK
    <3> QED
      BY <1>2, <1>3, <3>1, <3>2
  <2> QED
    BY <2>1, <2>2, <2>3, <2>4
<1> QED
  BY <1>1, <1>4, IdleKeeps

LEMMA TickConnections ==
  ASSUME HeapInv, ConnectionsInv, Tick
  PROVE  ConnectionsInv'
<1>1. /\ mem \in [Addr -> Request] /\ pcb \in Blocks /\ wait \in Nat \cup {-1}
      /\ live \subseteq Addr /\ PollTicks \in Nat
  BY HeapFacts, ClientAssumption DEF HeapInv, TypeOK, ClientType, ClientAssumption
<1>2. /\ \A p \in Pcb : ~PollDue(p)
      /\ UNCHANGED <<live, dns, http_request, pc, app_state>>
      /\ wait' = IF wait < 0 THEN wait ELSE wait - 1
      /\ pcb' = [p \in Pcb |-> IF Connected(p) THEN [pcb[p] EXCEPT !.poll = @ + 1]
                                               ELSE pcb[p]]
      /\ mem' = [a \in Addr |-> IF a \in live THEN [mem[a] EXCEPT !.retry = Countdown(@)]
                                              ELSE mem[a]]
  BY DEF Tick, ClientTick
<1>3. \A a \in Addr : mem'[a].status = mem[a].status /\ mem'[a].pcb = mem[a].pcb
  BY <1>1, <1>2 DEF Request
<1>4. \A p \in Pcb : /\ pcb'[p].st = pcb[p].st /\ pcb'[p].arg = pcb[p].arg
                      /\ pcb'[p].acks = pcb[p].acks
  BY <1>1, <1>2 DEF Blocks, ControlBlock
<1>5. ArgWhenUsed' /\ LookupPending' /\ OnlyItsPcb' /\ ReadWhenEnded'
  <2>1. dns \subseteq Addr /\ (pc \in {"fetch", "close"} => http_request \in Addr)
    BY HeapFacts DEF HeapInv, TypeOK, ClientType
  <2> QED
    BY <1>2, <1>3, <1>4, <2>1, HeapFacts
       DEF ConnectionsInv, ArgWhenUsed, LookupPending, OnlyItsPcb, ReadWhenEnded, InUse
<1>6. (http_request # NULL => OpenRequest(mem[http_request]))'
  <2> SUFFICES ASSUME http_request \in Addr, OpenRequest(mem[http_request])
               PROVE  OpenRequest(mem[http_request])'
    BY <1>2, HeapFacts DEF ConnectionsInv
  <2>1. mem[http_request].pcb \in Pcb \cup {NULL}
    BY <1>1 DEF Request
  <2> QED
    BY <1>2, <1>3, <1>4, <2>1 DEF OpenRequest, Connected, NetStates
<1>7. OthersLeftOver'
  <2> SUFFICES ASSUME NEW p \in Pcb, InUse(p), Leftover(p)
               PROVE  Leftover(p)'
    BY <1>2, <1>4 DEF OthersLeftOver, ConnectionsInv, InUse
  <2>1. Connected(p) /\ pcb[p].arg \in Addr
    BY <1>1 DEF Leftover, Connected, ConnectionsInv, ArgWhenUsed, InUse, Blocks, ControlBlock
  <2>2. pcb'[p].poll = pcb[p].poll + 1 /\ pcb[p].poll \in 0 .. PollTicks
    BY <1>1, <1>2, <2>1 DEF Blocks, ControlBlock
  <2>3. pcb[p].poll # PollTicks
    BY <1>2, <2>1 DEF PollDue
  <2>4. app_state = "ST_SLEEP" => wait' >= PollTicks - pcb'[p].poll
    <3> SUFFICES ASSUME wait >= PollTicks - pcb[p].poll
                 PROVE  wait' >= PollTicks - pcb'[p].poll
      BY DEF Leftover
    <3> QED
      BY <1>1, <1>2, <2>2, <2>3
  <2> QED
    BY <1>2, <1>3, <1>4, <2>1, <2>4 DEF Leftover
<1> QED
  BY <1>5, <1>6, <1>7 DEF ConnectionsInv

\* The interrupts, from the lemmas of DisplayProofs.
LEMMA InterruptConnections ==
  ASSUME HeapInv, ConnectionsInv, Sane', Interrupt
  PROVE  ConnectionsInv'
<1>1. UNCHANGED mainVars
  BY DEF Interrupt
<1>2. CASE LinkChange
  BY <1>1, <1>2, IdleKeeps DEF LinkChange, mainVars, Leftover
<1>3. ASSUME NEW a \in Addr, DnsCallback(a)
      PROVE  ConnectionsInv'
  BY <1>1, <1>3, DnsConnections
<1>4. ASSUME NEW p \in Pcb, ~CallbackOnOverwritten(p),
             ConnectCallback(p) \/ Acked(p) \/ RecvCallback(p) \/ FinCallback(p)
               \/ PollCallback(p) \/ ErrCallback(p)
      PROVE  ConnectionsInv'
  BY <1>1, <1>4, ConnectCallbackConnections, AckedConnections, RecvConnections,
     FinConnections, PollConnections, ErrConnections
<1>5. \A p \in Pcb : ~CallbackOnOverwritten(p)
  BY DEF CallbackOnOverwritten, Sane
<1> QED
  BY <1>2, <1>3, <1>4, <1>5 DEF Interrupt, Callback

\* Only a reboot makes an undefined program sane again.
LEMMA SaneBefore ==
  ASSUME Next, ~Reboot, Sane'
  PROVE  Sane \/ UNCHANGED vars
<1>1. CASE WaitForNothing
  BY <1>1 DEF WaitForNothing
<1>2. CASE MainLoop /\ ~WaitForNothing
  BY <1>2 DEF MainLoop, DoRequest, WaitResponse, FetchResponse, FreeRequest, ShowAlerts,
              IgnoreResponse, Transition, WakeUp, AtCase, Running, Sane, clientVars,
              Open2, Check, CloseRequest
<1>3. CASE ReloadConfig \/ Tick
  BY <1>3 DEF ReloadConfig, Tick, ClientTick, Running, Sane
<1>4. CASE Interrupt
  BY <1>4 DEF Interrupt, Callback, LinkChange, DnsCallback, ConnectCallback, Acked,
              RecvCallback, FinCallback, PollCallback, ErrCallback,
              CallbackOnOverwritten, CanReceive, Running, Sane
<1> QED
  BY <1>1, <1>2, <1>3, <1>4 DEF Next

------------------------------------------------------------------------------
LEMMA NextInv == ASSUME IInv, [Next]_vars PROVE IInv'
<1>1. HeapInv /\ HeapInv'
  BY NextHeap DEF IInv
<1>2. CASE Reboot
  BY <1>1, <1>2, RebootConnections DEF IInv, Connections
<1>3. CASE UNCHANGED vars
  <2>1. UNCHANGED <<mem, live, pcb, dns, http_request, pc, app_state, wait, tainted, halted>>
    BY <1>3 DEF vars, clientVars, mainVars
  <2>2. Sane' = Sane
    BY <2>1 DEF Sane
  <2>3. ASSUME ConnectionsInv PROVE ConnectionsInv'
    BY <2>1, <2>3, IdleKeeps DEF Leftover
  <2> QED
    BY <1>1, <2>2, <2>3 DEF IInv, Connections
<1>4. CASE Next /\ ~Reboot /\ ~UNCHANGED vars
  <2> SUFFICES ASSUME Sane' PROVE ConnectionsInv'
    BY <1>1 DEF IInv, Connections
  <2>1. ConnectionsInv
    BY <1>4, SaneBefore DEF IInv, Connections
  <2> QED
    BY <1>1, <1>4, <2>1, DoRequestConnections, WaitResponseConnections, FetchConnections,
       FreeConnections, RestConnections, TickConnections, InterruptConnections
       DEF Next, MainLoop
<1> QED
  BY <1>2, <1>3, <1>4

\* The whole invariant holds of every behaviour, for all parameters.
THEOREM InvariantHolds == Spec => []IInv
<1>1. ASSUME Init PROVE IInv
  BY <1>1, InitHeap, InitConnections DEF IInv, Connections
<1>2. IInv /\ [Next]_vars => IInv'
  BY NextInv
<1> QED
  BY <1>1, <1>2, PTL DEF Spec

\* A new request never shares its address, or the device, with a connection of
\* an earlier one: the sleep has outlasted its poll timer.
THEOREM ConnectionsDontCross == Spec => []NoCrossTalk
<1>1. IInv => NoCrossTalk
  BY DEF IInv, Connections, Sane, ConnectionsInv, OnlyItsPcb, NoCrossTalk
<1> QED
  BY <1>1, InvariantHolds, PTL

\* A request the main loop sees in progress is always waited for by a callback.
THEOREM ProgressIsDriven == Spec => []InProgressIsDriven
<1>1. ASSUME IInv PROVE InProgressIsDriven
  <2> SUFFICES ASSUME Sane, NEW a \in live
               PROVE  /\ mem[a].status = "DNS" => a \in dns
                      /\ mem[a].status \in NetStates \ {"DNS"} =>
                           /\ mem[a].pcb # NULL
                           /\ Connected(mem[a].pcb)
                           /\ pcb[mem[a].pcb].arg = a
    BY DEF InProgressIsDriven, Sane
  <2>1. a = http_request /\ http_request # NULL
    BY <1>1, HeapFacts DEF IInv
  <2> QED
    BY <1>1, <2>1 DEF IInv, Connections, ConnectionsInv, OpenRequest
<1> QED
  BY <1>1, InvariantHolds, PTL

\* A request that has failed has no connection and no lookup left.
THEOREM FailedHasNoCallback == Spec => []FailedIsClosed
<1>1. ASSUME IInv PROVE FailedIsClosed
  <2> SUFFICES ASSUME Sane, NEW a \in live, mem[a].status = "FAILED"
               PROVE  ~Pending(a)
    BY DEF FailedIsClosed, Sane
  <2>1. a = http_request /\ http_request # NULL
    BY <1>1, HeapFacts DEF IInv
  <2>2. a \notin dns
    BY <1>1 DEF IInv, Connections, ConnectionsInv, LookupPending
  <2>3. \A p \in Pcb : pcb[p].arg # a
    BY <1>1, <2>1, ClientAssumption
       DEF IInv, Connections, ConnectionsInv, ArgWhenUsed, OnlyItsPcb, OpenRequest, InUse,
           ClientAssumption
  <2> QED
    BY <2>2, <2>3 DEF Pending
<1> QED
  BY <1>1, InvariantHolds, PTL

\* A request is freed only after it has ended, with no lookup to report to it.
THEOREM FreedOnlyWhenEnded == Spec => FreedWhenEnded
<1>1. ASSUME IInv, [Next]_vars, Sane, NEW a \in live \ live'
      PROVE  mem[a].status \in EndStates /\ a \notin dns
  <2>1. a = http_request /\ http_request # NULL
    BY <1>1, HeapFacts DEF IInv
  <2>2. ASSUME ~FreeRequest PROVE live \subseteq live'
    <3>1. ~Reboot
      BY <1>1 DEF Reboot, Sane
    <3>2. Callback \/ LinkChange \/ Tick \/ ReloadConfig \/ UNCHANGED vars
             => UNCHANGED live
      BY CallbackLive DEF LinkChange, Tick, ClientTick, ReloadConfig, vars, clientVars
    <3>3. DoRequest => live \subseteq live'
      BY DEF DoRequest, Open2, clientVars
    <3>4. MainLoop /\ ~DoRequest => UNCHANGED live
      BY <2>2 DEF MainLoop, WaitResponse, Check, WaitForNothing, FetchResponse, ShowAlerts,
                  IgnoreResponse, Transition, WakeUp, vars, clientVars
    <3> QED
      BY <1>1, <3>1, <3>2, <3>3, <3>4 DEF Next, Interrupt
  <2>3. FreeRequest
    BY <2>2
  <2>4. mem[a].status \in EndStates
    BY <1>1, <2>1, <2>3 DEF IInv, Connections, ConnectionsInv, ReadWhenEnded, FreeRequest
  <2> QED
    BY <1>1, <2>4
       DEF IInv, Connections, ConnectionsInv, LookupPending, EndStates, DoneStates
<1>2. ASSUME IInv, [Next]_vars
      PROVE  [ ~halted /\ ~tainted => \A a \in live \ live' :
                 mem[a].status \in EndStates /\ a \notin dns ]_vars
  BY <1>1, <1>2 DEF Sane
<1> QED
  BY <1>2, InvariantHolds, PTL DEF Spec, FreedWhenEnded

\* No callback makes an ended request look unfinished.
LEMMA CallbackEnds ==
  ASSUME HeapInv, ConnectionsInv, Callback, Sane', NEW a \in live,
         mem[a].status \in EndStates
  PROVE  mem'[a].status \in EndStates
<1>1. /\ a = http_request /\ a \in Addr /\ http_request # NULL
      /\ mem \in [Addr -> Request] /\ pcb \in Blocks /\ mem[a] \in Request
      /\ OpenRequest(mem[a])
  BY HeapFacts DEF ConnectionsInv
<1>2. \A b \in dns : b # a /\ b \notin live
  BY <1>1, HeapFacts DEF ConnectionsInv, LookupPending, EndStates, DoneStates
<1>3. dns = {}
  BY <1>1, <1>2, HeapFacts DEF ConnectionsInv, LookupPending
<1>4. \A p \in Pcb : Connected(p) => pcb[p].arg = a /\ pcb[p].st = "est"
  <2> SUFFICES ASSUME NEW p \in Pcb, Connected(p)
               PROVE  pcb[p].arg = a /\ pcb[p].st = "est"
    OBVIOUS
  <2>1. pcb[p].arg = a /\ mem[a].pcb = p /\ p # NULL
    BY <1>1, OwnPcb, ClientAssumption DEF ClientAssumption
  <2> QED
    BY <1>1, <2>1 DEF OpenRequest, EndStates
<1>5. ASSUME NEW p \in Pcb, RecvCallback(p) PROVE mem'[a].status \in EndStates
  <2>1. pcb[p].arg = a /\ pcb[p] \in ControlBlock
    BY <1>1, <1>4, <1>5 DEF RecvCallback, Connected, Blocks
  <2>2. PICK s \in Segments(p) : \E o \in RecvOutcomes(mem[a], s) :
          IF o.failed THEN mem' = [mem EXCEPT ![a] = [o.req EXCEPT !.pcb = NULL]]
                      ELSE mem' = [mem EXCEPT ![a] = o.req]
    BY <1>5, <2>1 DEF RecvCallback
  <2>3. PICK o \in RecvOutcomes(mem[a], s) :
          IF o.failed THEN mem' = [mem EXCEPT ![a] = [o.req EXCEPT !.pcb = NULL]]
                      ELSE mem' = [mem EXCEPT ![a] = o.req]
    BY <2>2
  <2>4. s \in Segment /\ s.from < s.to
    BY SegmentLemma DEF HeapInv
  <2>5. mem[a].status # "FAILED" /\ Bounded(mem[a])
    <3>1. mem[a].pcb = p /\ p # NULL
      BY <1>1, <1>5, <2>1, OwnPcb, ClientAssumption
         DEF RecvCallback, Connected, ClientAssumption
    <3> QED
      BY <1>1, <3>1 DEF OpenRequest, HeapInv, ClientInv, BodyBounded
  <2>6. o.req = mem[a]
    <3>1. mem[a].status \notin ReceiveStates
      BY DEF ReceiveStates, EndStates, DoneStates
    <3> QED
      BY <1>1, <2>4, <2>5, <3>1, RecvLemma
  <2>7. [mem[a] EXCEPT !.pcb = NULL].status = mem[a].status
    BY <1>1 DEF Request
  <2> QED
    BY <1>1, <2>3, <2>6, <2>7
<1>6. ASSUME NEW p \in Pcb, FinCallback(p) \/ PollCallback(p) \/ ErrCallback(p)
      PROVE  mem'[a].status \in EndStates
  <2>1. Connected(p)
    BY <1>6 DEF FinCallback, PollCallback, PollDue, ErrCallback, Connected
  <2>2. pcb[p].arg = a
    BY <1>4, <2>1
  <2>3. CASE FinCallback(p) \/ PollCallback(p)
    <3>1. \/ mem' = [mem EXCEPT ![a].status = "COMPLETE", ![a].pcb = NULL]
          \/ mem' = [mem EXCEPT ![a].status = "TRUNCATED", ![a].pcb = NULL]
      BY <2>2, <2>3 DEF FinCallback, PollCallback
    <3> QED
      BY <1>1, <3>1 DEF Request, EndStates, DoneStates
  <2>4. CASE ErrCallback(p)
    BY <1>1, <2>2, <2>4 DEF ErrCallback, Fail, Request, EndStates
  <2> QED
    BY <1>6, <2>3, <2>4
<1>7. ASSUME NEW p \in Pcb, ConnectCallback(p) \/ Acked(p) \/ CallbackOnOverwritten(p)
      PROVE  mem' = mem
  BY <1>4, <1>7 DEF ConnectCallback, Acked, CallbackOnOverwritten, Connected
<1>8. \A b \in Addr : ~DnsCallback(b)
  BY <1>3 DEF DnsCallback
<1> QED
  BY <1>5, <1>6, <1>7, <1>8 DEF Callback

\* A callback has found its request overwritten (the only way to taint a state).
FoundOverwritten == \E p \in Pcb : CallbackOnOverwritten(p)

\* What the main loop has seen ended stays ended until it is freed.
THEOREM EndedForGood == Spec => EndedStaysEnded
<1>1. ASSUME IInv, Next, NEW a \in live \cap live', ~tainted', mem[a].status \in EndStates
      PROVE  mem'[a].status \in EndStates
  <2>1. a = http_request /\ a \in Addr /\ http_request # NULL
        /\ mem \in [Addr -> Request] /\ mem[a] \in Request
    BY <1>1, HeapFacts DEF IInv
  <2>2. CASE Interrupt
    <3>1. CASE LinkChange
      BY <1>1, <3>1 DEF LinkChange
    <3>2. CASE Callback
      <4>1. ~halted /\ ~FoundOverwritten
        BY <1>1, <3>2 DEF Callback, DnsCallback, ConnectCallback, Acked, RecvCallback,
              FinCallback, PollCallback, ErrCallback, CallbackOnOverwritten, CanReceive,
              Running, FoundOverwritten
      <4>2. UNCHANGED <<tainted, halted>>
        BY <3>2, <4>1 DEF Callback, DnsCallback, ConnectCallback, Acked, RecvCallback,
              FinCallback, PollCallback, ErrCallback, FoundOverwritten
      <4>3. Sane /\ Sane'
        BY <1>1, <4>1, <4>2, HeapFacts DEF Sane
      <4> QED
        BY <1>1, <3>2, <4>3, CallbackEnds DEF IInv, Connections
    <3> QED
      BY <2>2, <3>1, <3>2 DEF Interrupt
  <2>3. CASE Tick
    BY <1>1, <2>1, <2>3 DEF Tick, ClientTick, Request
  <2>4. CASE Reboot
    BY <1>1, <2>4 DEF Reboot
  <2>5. CASE MainLoop \/ ReloadConfig
    <3>1. CASE DoRequest
      BY <1>1, <2>1, <3>1 DEF DoRequest, clientVars
    <3>2. CASE WaitResponse
      BY <1>1, <2>1, <3>2 DEF WaitResponse, Check, EndStates, DoneStates
    <3>3. CASE FreeRequest
      BY <1>1, <2>1, <3>3 DEF FreeRequest, CloseRequest
    <3>4. CASE WaitForNothing \/ FetchResponse \/ ShowAlerts \/ IgnoreResponse
                 \/ Transition \/ WakeUp \/ ReloadConfig
      BY <1>1, <3>4 DEF WaitForNothing, FetchResponse, ShowAlerts, IgnoreResponse,
            Transition, WakeUp, ReloadConfig, vars, clientVars
    <3> QED
      BY <2>5, <3>1, <3>2, <3>3, <3>4 DEF MainLoop
  <2> QED
    BY <1>1, <2>2, <2>3, <2>4, <2>5 DEF Next
<1>2. ASSUME IInv, [Next]_vars
      PROVE  [ \A a \in live \cap live' :
                 ~tainted' /\ mem[a].status \in EndStates => mem'[a].status \in EndStates ]_vars
  BY <1>1, <1>2
<1> QED
  BY <1>2, InvariantHolds, PTL DEF Spec, EndedStaysEnded

------------------------------------------------------------------------------
(* RequestLife *)

LEMMA StageValues ==
  /\ \A s \in WifiStates : StageOf(s) = "joining"
  /\ StageOf("DNS") = "lookup"
  /\ StageOf("CONNECT") = "connecting" /\ StageOf("REQUEST") = "connecting"
  /\ StageOf("RESPONSE_STATUS") = "status"
  /\ StageOf("HEADERS") = "headers"
  /\ StageOf("DATA") = "body"
  /\ \A s \in EndStates : StageOf(s) = "ended"
  BY DEF StageOf, WifiStates, EndStates, DoneStates

LEMMA RankValues ==
  /\ Life!Stages = {"joining", "lookup", "connecting", "status", "headers", "body", "ended"}
  /\ Life!Rank["joining"] = 1 /\ Life!Rank["lookup"] = 2 /\ Life!Rank["connecting"] = 3
  /\ Life!Rank["status"] = 4 /\ Life!Rank["headers"] = 5 /\ Life!Rank["body"] = 6
  /\ Life!Rank["ended"] = 7
  BY DEF Life!Stages, Life!Rank

LEMMA StageTypes == \A s \in Status : StageOf(s) \in Life!Stages
  BY StageValues, RankValues DEF Status, NetStates

\* A request in status s may go on to status t.
Forward(s, t) ==
  \/ StageOf(t) = StageOf(s)
  \/ Life!Rank[StageOf(t)] > Life!Rank[StageOf(s)]

\* The steps forward that the code takes.
LEMMA ForwardSteps ==
  /\ \A s \in Status, t \in EndStates : Forward(s, t)
  /\ \A s, t \in WifiStates : Forward(s, t)
  /\ \A s \in WifiStates : Forward(s, "DNS") /\ Forward(s, "CONNECT")
  /\ Forward("DNS", "CONNECT")
  /\ \A s \in {"CONNECT", "REQUEST"} : Forward(s, "RESPONSE_STATUS")
  /\ Forward("RESPONSE_STATUS", "HEADERS") /\ Forward("RESPONSE_STATUS", "DATA")
  /\ Forward("HEADERS", "DATA")
<1> USE StageValues, RankValues DEF Forward
<1>1. \A s \in Status, t \in EndStates : Forward(s, t)
  BY DEF Status, NetStates
<1> QED
  BY <1>1

\* Whatever a segment does to the request it is received for is a step forward.
LEMMA RecvForward ==
  ASSUME NEW r \in Request, Bounded(r), r.status # "FAILED", NEW s \in Segment,
         s.from < s.to, NEW o \in RecvOutcomes(r, s)
  PROVE  Forward(r.status, o.req.status)
<1>1. CASE r.status \notin ReceiveStates
  BY <1>1, RecvLemma DEF Forward
<1>2. CASE r.status \in ReceiveStates
  <2>1. /\ o.req.status \in ReceiveStates \cup EndStates
        /\ r.status = "HEADERS" => o.req.status # "RESPONSE_STATUS"
        /\ r.status = "DATA" => o.req.status \notin {"RESPONSE_STATUS", "HEADERS"}
    BY <1>2, RecvLemma DEF EndStates
  <2>2. CASE o.req.status \in EndStates
    BY <2>2, ForwardSteps DEF Request
  <2>3. CASE o.req.status = r.status
    BY <2>3 DEF Forward
  <2>4. CASE o.req.status \in ReceiveStates /\ o.req.status # r.status
    BY <1>2, <2>1, <2>4, ForwardSteps DEF ReceiveStates
  <2> QED
    BY <2>1, <2>2, <2>3, <2>4
<1> QED
  BY <1>1, <1>2

\* Every callback moves the open request forward, or leaves it.
LEMMA CallbackForward ==
  ASSUME HeapInv, ConnectionsInv, Callback, Sane', http_request # NULL
  PROVE  Forward(mem[http_request].status, mem'[http_request].status)
<1> DEFINE a == http_request
<1>1. /\ a \in Addr /\ mem \in [Addr -> Request] /\ pcb \in Blocks
      /\ mem[a] \in Request /\ OpenRequest(mem[a]) /\ mem[a].status \in Status
  BY HeapFacts DEF ConnectionsInv, Request
<1>2. \A p \in Pcb : Connected(p) => pcb[p].arg = a /\ mem[a].pcb = p /\ p # NULL
  BY <1>1, OwnPcb, ClientAssumption DEF ClientAssumption
<1>3. CASE mem'[a].status \in EndStates
  BY <1>1, <1>3, ForwardSteps
<1>4. CASE mem'[a].status = mem[a].status
  BY <1>4 DEF Forward
<1>5. ASSUME NEW b \in Addr, DnsCallback(b)
      PROVE  Forward(mem[a].status, mem'[a].status)
  <2>1. b = a /\ mem[a].status = "DNS"
    BY <1>5, HeapFacts DEF DnsCallback, ConnectionsInv, LookupPending
  <2>2. Connect(mem[a], a, pcb) \/ Fail(mem[a], a, pcb)
    BY <1>5, <2>1 DEF DnsCallback
  <2>3. mem'[a].status \in {"CONNECT", "FAILED"}
    BY <1>1, <2>2 DEF Connect, Fail, Request
  <2> QED
    BY <1>3, <2>1, <2>3, ForwardSteps DEF EndStates
<1>6. ASSUME NEW p \in Pcb, ConnectCallback(p)
      PROVE  Forward(mem[a].status, mem'[a].status)
  <2>1. pcb[p].arg = a /\ pcb[p].st = "syn" /\ mem[a].pcb = p /\ Connected(p)
    BY <1>2, <1>6 DEF ConnectCallback, Connected
  <2>2. \/ mem' = [mem EXCEPT ![a].status = "RESPONSE_STATUS", ![a].sendbuf = FALSE]
        \/ Fail(mem[a], a, pcb)
    BY <1>6, <2>1 DEF ConnectCallback
  <2>3. mem'[a].status \in {"RESPONSE_STATUS", "FAILED"}
    BY <1>1, <2>2 DEF Fail, Request
  <2>4. mem[a].status \in {"CONNECT", "REQUEST"}
    BY <1>1, <1>2, <2>1, OwnStatus DEF OpenRequest, NetStates
  <2> QED
    BY <1>3, <2>3, <2>4, ForwardSteps DEF EndStates
<1>7. ASSUME NEW p \in Pcb, RecvCallback(p)
      PROVE  Forward(mem[a].status, mem'[a].status)
  <2>1. pcb[p].arg = a /\ Connected(p) /\ pcb[p] \in ControlBlock
    BY <1>1, <1>2, <1>7 DEF RecvCallback, Connected, Blocks
  <2>2. PICK s \in Segments(p) : \E o \in RecvOutcomes(mem[a], s) :
          IF o.failed THEN mem' = [mem EXCEPT ![a] = [o.req EXCEPT !.pcb = NULL]]
                      ELSE mem' = [mem EXCEPT ![a] = o.req]
    BY <1>7, <2>1 DEF RecvCallback
  <2>3. PICK o \in RecvOutcomes(mem[a], s) :
          IF o.failed THEN mem' = [mem EXCEPT ![a] = [o.req EXCEPT !.pcb = NULL]]
                      ELSE mem' = [mem EXCEPT ![a] = o.req]
    BY <2>2
  <2>4. s \in Segment /\ s.from < s.to /\ Bounded(mem[a])
    BY <1>1, SegmentLemma DEF HeapInv, ClientInv, BodyBounded
  <2>5. mem[a].status # "FAILED"
    BY <2>1, OwnStatus DEF NetStates, DoneStates
  <2>6. o.req \in Request /\ Forward(mem[a].status, o.req.status)
    BY <1>1, <2>4, <2>5, RecvForward, RecvLemma
  <2>7. mem'[a].status = o.req.status
    BY <1>1, <2>3, <2>6 DEF Request
  <2> QED
    BY <2>6, <2>7
<1>8. ASSUME NEW p \in Pcb, FinCallback(p) \/ PollCallback(p) \/ ErrCallback(p)
      PROVE  Forward(mem[a].status, mem'[a].status)
  <2>1. pcb[p].arg = a
    BY <1>2, <1>8 DEF FinCallback, PollCallback, PollDue, ErrCallback, Connected
  <2>2. \/ mem' = [mem EXCEPT ![a].status = "COMPLETE", ![a].pcb = NULL]
        \/ mem' = [mem EXCEPT ![a].status = "TRUNCATED", ![a].pcb = NULL]
        \/ Fail(mem[a], a, [pcb EXCEPT ![p] = FreePcb])
    BY <1>8, <2>1 DEF FinCallback, PollCallback, ErrCallback
  <2>3. mem'[a].status \in {"COMPLETE", "TRUNCATED", "FAILED"}
    <3>1. CASE Fail(mem[a], a, [pcb EXCEPT ![p] = FreePcb])
      BY <1>1, <3>1 DEF Fail, Request
    <3>2. CASE ~Fail(mem[a], a, [pcb EXCEPT ![p] = FreePcb])
      BY <1>1, <2>2, <3>2 DEF Request
    <3> QED
      BY <3>1, <3>2
  <2> QED
    BY <1>3, <2>3 DEF EndStates, DoneStates
<1>9. ASSUME NEW p \in Pcb, Acked(p) \/ CallbackOnOverwritten(p)
      PROVE  Forward(mem[a].status, mem'[a].status)
  BY <1>4, <1>9 DEF Acked, CallbackOnOverwritten
<1> QED
  BY <1>5, <1>6, <1>7, <1>8, <1>9 DEF Callback

------------------------------------------------------------------------------
(* The steps, as steps of RequestLife. *)

LEMMA OpenStage ==
  ASSUME ~tainted, http_request \in Addr
  PROVE  RequestStage = StageOf(mem[http_request].status)
  BY NullIsNoAddress DEF RequestStage

\* A step that keeps the request open and takes it forward, or leaves it.
LEMMA KeepsOpen ==
  ASSUME ~tainted, ~tainted', http_request \in Addr, UNCHANGED http_request,
         mem[http_request].status \in Status, mem'[http_request].status \in Status,
         Forward(mem[http_request].status, mem'[http_request].status)
  PROVE  Life!Advance \/ UNCHANGED RequestStage
<1>1. /\ RequestStage = StageOf(mem[http_request].status)
      /\ RequestStage' = StageOf(mem'[http_request].status)
  BY NullIsNoAddress DEF RequestStage
<1>2. RequestStage \in Life!Stages /\ RequestStage' \in Life!Stages
  BY <1>1, StageTypes
<1> QED
  BY <1>1, <1>2 DEF Forward, Life!Advance

\* A lookup is begun, is known already, or fails.
LEMMA LookupStatus ==
  ASSUME NEW a \in Addr, NEW w \in Request, NEW pcbs, mem \in [Addr -> Request],
         Lookup(w, a, pcbs)
  PROVE  mem'[a].status \in {"DNS", "CONNECT", "FAILED"}
  BY DEF Lookup, Connect, Fail, Request

LEMMA DoRequestLife ==
  ASSUME HeapInv, HeapInv', ConnectionsInv, DoRequest, Sane, ~tainted'
  PROVE  Life!Open \/ UNCHANGED RequestStage
<1>1. ASSUME NEW a \in Addr, Open2(a), http_request' = a, http_request = NULL
      PROVE  Life!Open
  <2> DEFINE r == [EmptyRequest EXCEPT !.sendbuf = TRUE]
  <2>1. /\ mem \in [Addr -> Request] /\ r \in Request /\ r.status = "NONE"
        /\ RequestStage = "none"
    BY <1>1, HeapFacts, EmptyRequestType DEF Request, RequestStage, Sane, EmptyRequest
  <2>2. mem'[a].status \in WifiStates \cup {"DNS", "CONNECT", "FAILED"}
    <3>1. \A w \in Request : \A pcbs :
            Lookup(w, a, pcbs) => mem'[a].status \in {"DNS", "CONNECT", "FAILED"}
      BY <2>1, LookupStatus
    <3>2. \A p \in Pcb \cup {NULL} : [r EXCEPT !.pcb = p] \in Request
      BY <2>1 DEF Request
    <3>3. CASE StartRequest(r, a)
      <4>1. CASE mem' = [mem EXCEPT ![a] = r]
        BY <2>1, <4>1 DEF WifiStates
      <4> QED
        BY <3>1, <3>2, <3>3, <4>1 DEF StartRequest
    <3>4. CASE mem' = [mem EXCEPT ![a] = [r EXCEPT !.status = "WIFI"]]
      BY <2>1, <3>4 DEF WifiStates, Request
    <3> QED
      BY <1>1, <3>3, <3>4 DEF Open2
  <2>3. RequestStage' = StageOf(mem'[a].status)
    BY <1>1, NullIsNoAddress DEF RequestStage
  <2> QED
    BY <2>1, <2>2, <2>3, StageValues DEF Life!Open, EndStates
<1>2. CASE UNCHANGED <<clientVars, http_request>>
  BY <1>2 DEF clientVars, RequestStage
<1> QED
  BY <1>1, <1>2 DEF DoRequest

LEMMA WaitResponseLife ==
  ASSUME HeapInv, HeapInv', ConnectionsInv, WaitResponse, Sane, ~tainted'
  PROVE  Life!Advance \/ UNCHANGED RequestStage
<1> DEFINE a == http_request
<1>1. /\ a \in Addr /\ mem \in [Addr -> Request] /\ mem[a] \in Request
      /\ mem' \in [Addr -> Request] /\ UNCHANGED http_request /\ Check(a)
  BY HeapFacts DEF WaitResponse, HeapInv, ClientInv, ClientType
<1>2. Forward(mem[a].status, mem'[a].status)
  <2>1. CASE mem' = mem
    BY <2>1 DEF Forward
  <2>2. CASE \/ /\ mem[a].status = "WIFI"
                /\ mem' = [mem EXCEPT ![a].status = "WIFI_INIT", ![a].retry = RetryTicks]
             \/ /\ mem[a].status = "WIFI_INIT"
                /\ mem' = [mem EXCEPT ![a].status = "WIFI"]
    <3>1. mem[a].status \in WifiStates /\ mem'[a].status \in WifiStates
      BY <1>1, <2>2 DEF Request, WifiStates
    <3> QED
      BY <3>1, ForwardSteps
  <2>3. CASE mem[a].status = "WIFI" /\ StartRequest(mem[a], a)
    <3>1. \A w \in Request : \A pcbs :
            Lookup(w, a, pcbs) => mem'[a].status \in {"DNS", "CONNECT", "FAILED"}
      BY <1>1, LookupStatus
    <3>2. \A p \in Pcb \cup {NULL} : [mem[a] EXCEPT !.pcb = p] \in Request
      BY <1>1 DEF Request
    <3>3. CASE mem' = [mem EXCEPT ![a] = mem[a]]
      BY <1>1, <3>3 DEF Forward
    <3>4. CASE mem'[a].status \in {"DNS", "CONNECT", "FAILED"}
      BY <1>1, <2>3, <3>4, ForwardSteps DEF WifiStates, EndStates, Request
    <3> QED
      BY <2>3, <3>1, <3>2, <3>3, <3>4 DEF StartRequest
  <2> QED
    BY <1>1, <2>1, <2>2, <2>3 DEF Check
<1>3. mem[a].status \in Status /\ mem'[a].status \in Status
  BY <1>1 DEF Request
<1> QED
  BY <1>1, <1>2, <1>3, KeepsOpen DEF Sane

LEMMA FreeRequestLife ==
  ASSUME HeapInv, ConnectionsInv, FreeRequest, Sane, ~tainted'
  PROVE  Life!Release
<1>1. http_request \in Addr /\ mem[http_request].status \in EndStates
  BY HeapFacts DEF ConnectionsInv, ReadWhenEnded, FreeRequest
<1>2. RequestStage = "ended"
  BY <1>1, OpenStage, StageValues DEF Sane
<1>3. RequestStage' = "none"
  BY DEF FreeRequest, RequestStage
<1> QED
  BY <1>2, <1>3 DEF Life!Release

LEMMA InterruptLife ==
  ASSUME HeapInv, HeapInv', ConnectionsInv, Interrupt, Sane, ~tainted'
  PROVE  Life!Advance \/ UNCHANGED RequestStage
<1>1. UNCHANGED http_request
  BY DEF Interrupt, mainVars
<1>2. CASE http_request = NULL
  BY <1>1, <1>2 DEF RequestStage, Sane
<1>3. CASE http_request # NULL /\ LinkChange
  BY <1>1, <1>3 DEF RequestStage, LinkChange
<1>4. CASE http_request # NULL /\ Callback
  <2>1. ~FoundOverwritten
    BY DEF CallbackOnOverwritten, FoundOverwritten
  <2>2. UNCHANGED halted
    BY <1>4, <2>1 DEF Callback, DnsCallback, ConnectCallback, Acked, RecvCallback,
                      FinCallback, PollCallback, ErrCallback, FoundOverwritten
  <2>3. Sane'
    BY <2>2 DEF Sane
  <2>4. Forward(mem[http_request].status, mem'[http_request].status)
    BY <1>4, <2>3, CallbackForward
  <2>5. /\ http_request \in Addr
        /\ mem[http_request].status \in Status /\ mem'[http_request].status \in Status
    BY <1>4, HeapFacts DEF HeapInv, ClientInv, ClientType, Request
  <2> QED
    BY <1>1, <2>4, <2>5, KeepsOpen DEF Sane
<1> QED
  BY <1>2, <1>3, <1>4 DEF Interrupt

LEMMA TickLife ==
  ASSUME HeapInv, Tick
  PROVE  UNCHANGED RequestStage
<1>1. \A a \in Addr : mem'[a].status = mem[a].status
  BY HeapFacts DEF Tick, ClientTick, Request
<1> QED
  BY <1>1, HeapFacts DEF Tick, ClientTick, RequestStage

LEMMA NextLife == ASSUME IInv, [Next]_vars PROVE [Life!Next]_(Life!vars)
<1>1. HeapInv /\ HeapInv' /\ halted \in BOOLEAN /\ halted' \in BOOLEAN
  BY NextHeap DEF IInv, HeapInv, ClientInv, ClientType
<1>2. CASE Reboot
  <2>1. RequestStage' = "none" /\ halted /\ ~halted'
    BY <1>2 DEF Reboot, RequestStage
  <2> QED
    BY <2>1 DEF Life!Next, Life!Restart
<1>3. CASE UNCHANGED vars
  BY <1>3 DEF vars, clientVars, mainVars, RequestStage, Life!vars
<1>4. CASE Next /\ ~Reboot
  <2>1. ~halted
    BY <1>4 DEF Next, MainLoop, ReloadConfig, Interrupt, Tick, DoRequest, WaitResponse,
       WaitForNothing, FetchResponse, FreeRequest, ShowAlerts, IgnoreResponse, Transition,
       WakeUp, AtCase, Callback, LinkChange, DnsCallback, ConnectCallback, Acked,
       RecvCallback, FinCallback, PollCallback, ErrCallback, CallbackOnOverwritten,
       CanReceive, Running
  <2>2. tainted => tainted'
    BY <1>4 DEF Next, MainLoop, ReloadConfig, Interrupt, Tick, ClientTick, DoRequest,
       WaitResponse, WaitForNothing, FetchResponse, FreeRequest, ShowAlerts,
       IgnoreResponse, Transition, WakeUp, Open2, Check, CloseRequest, Callback,
       LinkChange, DnsCallback, ConnectCallback, Acked, RecvCallback, FinCallback,
       PollCallback, ErrCallback, CallbackOnOverwritten, vars, clientVars
  <2> SUFFICES \/ Life!Open \/ Life!Advance \/ Life!Release \/ Life!Overwritten
               \/ UNCHANGED RequestStage
    BY <1>1, <2>1 DEF Life!Next, Life!Step
  <2>3. CASE tainted'
    BY <2>3 DEF RequestStage, Life!Overwritten
  <2>4. CASE ~tainted'
    <3>1. Sane /\ ConnectionsInv
      BY <2>1, <2>2, <2>4 DEF IInv, Connections, Sane
    <3>2. CASE WaitForNothing \/ FetchResponse \/ ShowAlerts \/ IgnoreResponse
                 \/ Transition \/ WakeUp \/ ReloadConfig
      <4>1. UNCHANGED <<mem, tainted, http_request>>
        BY <3>2 DEF WaitForNothing, FetchResponse, ShowAlerts, IgnoreResponse,
              Transition, WakeUp, ReloadConfig, vars, clientVars, mainVars
      <4> QED
        BY <4>1 DEF RequestStage
    <3> QED
      BY <1>1, <1>4, <2>4, <3>1, <3>2, DoRequestLife, WaitResponseLife, FreeRequestLife,
         InterruptLife, TickLife DEF Next, MainLoop
  <2> QED
    BY <2>3, <2>4
<1> QED
  BY <1>2, <1>3, <1>4

\* The refinement: for every server, link, number of addresses and pcbs, and
\* all timers, the request of main.cpp lives as RequestLife has it.
THEOREM RequestLivesForward == Spec => LivesForward
<1>1. ASSUME Init PROVE Life!Init
  BY <1>1 DEF Init, ClientInit, MainInit, RequestStage, Life!Init
<1>2. ASSUME IInv, [Next]_vars PROVE [Life!Next]_(Life!vars)
  BY <1>2, NextLife
<1> QED
  BY <1>1, <1>2, InvariantHolds, PTL DEF Spec, LivesForward, Life!Spec
=============================================================================
