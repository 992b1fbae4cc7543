---------------------------- MODULE ResponseProofs ----------------------------
(***************************************************************************)
(* Proofs about ResponseStream: however long the response, whatever the    *)
(* limit and wherever TCP cuts, no unit of the body is skipped, none of    *)
(* the headers is taken for one, and a response that completes is whole.   *)
(***************************************************************************)
EXTENDS ResponseStream, TLAPS

Segment == [from : Nat, to : Nat, code : Nat, clen : Nat]

Statuses == {"RESPONSE_STATUS", "HEADERS", "DATA", "TRUNCATED", "COMPLETE", "FAILED"}
Request ==
  [status : Statuses, code : Nat, cap : -1 .. MaxSize, len : 0 .. MaxSize, clen : 0 .. Unset]

\* What httpclient_recv_callback returns with when it has come to the body.
Copied(q, left) ==
  [req |-> DataStage(q, left).req, failed |-> FALSE, leaks |-> DataStage(q, left).left > 0]

------------------------------------------------------------------------------
(* The stages of the callback *)

\* A uint16_t is below its modulus, and a length that fits one is kept.
LEMMA ModFacts ==
  ASSUME NEW n \in Nat
  PROVE  n % U16 \in 0 .. Unset /\ (n < U16 => n % U16 = n)
BY ResponseAssumption DEF ResponseAssumption, Unset

\* The status line: the code, if the segment starts the response.
LEMMA StatusFacts ==
  ASSUME NEW r \in Request, NEW s \in Segment, NEW q \in StatusStage(r, s)
  PROVE  /\ q \in Request /\ q.len = r.len /\ q.clen = r.clen
         /\ \/ q = r
            \/ r.status = "RESPONSE_STATUS" /\ q.status = "HEADERS"
         /\ r.status = "RESPONSE_STATUS" /\ s.from = 0 /\ s.to >= 2 =>
              q.status = "HEADERS" /\ q.code = s.code
<1>1. CASE q = r /\ ~(r.status = "RESPONSE_STATUS" /\ HasLine(s) /\ s.from = 0)
  BY <1>1 DEF HasLine
<1>2. ASSUME r.status = "RESPONSE_STATUS", NEW c \in ParsedCodes(s),
             q = [r EXCEPT !.code = c, !.status = "HEADERS"]
      PROVE  /\ q \in Request /\ q.len = r.len /\ q.clen = r.clen
             /\ q.status = "HEADERS" /\ q.code = c
             /\ s.from = 0 => c = s.code
  <2>1. c \in Nat /\ (s.from = 0 => c = s.code)
    BY ModFacts DEF ParsedCodes, Segment, Unset
  <2> QED
    BY <1>2, <2>1 DEF Request, Statuses
<1>3. \/ q = r /\ ~(r.status = "RESPONSE_STATUS" /\ HasLine(s) /\ s.from = 0)
      \/ /\ r.status = "RESPONSE_STATUS"
         /\ \E c \in ParsedCodes(s) : q = [r EXCEPT !.code = c, !.status = "HEADERS"]
  BY DEF StatusStage
<1> QED
  BY <1>1, <1>2, <1>3

\* The headers: the body is sized, the request fails, or there is more to come.
LEMMA HeaderFacts ==
  ASSUME NEW q \in Request, NEW s \in Segment, NEW h \in HeaderStage(q, s)
  PROVE  /\ h.req \in Request
         /\ q.status # "HEADERS" =>
              h = [req |-> q, left |-> s.to - s.from, failed |-> FALSE]
         /\ q.status = "HEADERS" =>
              \/ h.req.status = "HEADERS" /\ ~h.failed /\ ~HasHeaderEnd(s)
              \/ h.req.status = "FAILED" /\ h.failed
              \/ /\ h.req.status = "DATA" /\ h.req.len = 0 /\ h.req.code = q.code
                 /\ h.req.clen = s.clen % U16 /\ h.left = s.to - HeaderUnits
                 /\ s.to >= HeaderUnits /\ s.from <= 3
<1> DEFINE sized == [q EXCEPT !.clen = SegmentLength(s)]
<1>1. /\ SegmentLength(s) \in 0 .. Unset /\ s.clen % U16 \in 0 .. Unset
      /\ SegmentLength(s) # Unset => SegmentLength(s) = s.clen % U16
  BY ModFacts, ResponseAssumption DEF SegmentLength, Segment, ResponseAssumption, Unset
<1>2. sized \in Request /\ sized.clen = SegmentLength(s) /\ sized.code = q.code
  BY <1>1 DEF Request
<1> HIDE DEF sized
<1>3. CASE q.status # "HEADERS"
  BY <1>3 DEF HeaderStage
<1>4. CASE q.status = "HEADERS" /\ ~HasHeaderEnd(s)
  <2>1. h = [req |-> [q EXCEPT !.clen = Unset], left |-> s.to - s.from, failed |-> FALSE]
    BY <1>4 DEF HeaderStage
  <2>2. [q EXCEPT !.clen = Unset] \in Request
    BY ResponseAssumption DEF Request, Unset, ResponseAssumption
  <2>3. [q EXCEPT !.clen = Unset].status = "HEADERS"
    BY <1>4 DEF Request
  <2> QED
    BY <1>4, <2>1, <2>2, <2>3
<1>5. CASE q.status = "HEADERS" /\ HasHeaderEnd(s)
  <2>1. \/ h = [req |-> [sized EXCEPT !.status = "FAILED"], left |-> s.to - s.from,
                failed |-> TRUE]
        \/ /\ sized.clen # Unset
           /\ h = [req |-> [sized EXCEPT !.cap = BufferSize(sized.clen), !.len = 0,
                              !.status = "DATA"],
                   left |-> BodyPart(s), failed |-> FALSE]
    BY <1>5 DEF HeaderStage, sized
  <2>2. BufferSize(sized.clen) \in -1 .. MaxSize
    BY <1>1, <1>2, ResponseAssumption DEF BufferSize, Least, ResponseAssumption, Unset
  <2>3. /\ [sized EXCEPT !.status = "FAILED"] \in Request
        /\ [sized EXCEPT !.status = "FAILED"].status = "FAILED"
    BY <1>2 DEF Request, Statuses
  <2> DEFINE cap == BufferSize(sized.clen)
             b   == [sized EXCEPT !.cap = cap, !.len = 0, !.status = "DATA"]
  <2>4. /\ b \in Request /\ b.status = "DATA" /\ b.len = 0
        /\ b.code = sized.code /\ b.clen = sized.clen
    <3>1. "DATA" \in Statuses /\ cap \in -1 .. MaxSize /\ 0 \in 0 .. MaxSize
      BY <2>2, ResponseAssumption DEF Statuses, ResponseAssumption
    <3> HIDE DEF cap
    <3> QED
      BY <1>2, <3>1 DEF Request
  <2>5. s.to >= HeaderUnits /\ s.from <= 3
    BY <1>5 DEF HasHeaderEnd, HeaderUnits, Segment
  <2>6. \/ h.req = [sized EXCEPT !.status = "FAILED"] /\ h.failed = TRUE
        \/ /\ sized.clen # Unset /\ h.req = b
           /\ h.left = s.to - HeaderUnits /\ h.failed = FALSE
    BY <2>1 DEF BodyPart
  <2> HIDE DEF b, cap
  <2> QED
    BY <1>1, <1>2, <1>5, <2>3, <2>4, <2>5, <2>6
<1> QED
  BY <1>3, <1>4, <1>5

\* The body: what fits is copied; what does not truncates the response.  An empty
\* rest of a segment is taken for RomLen units, none of which is copied.
LEMMA DataFacts ==
  ASSUME NEW q \in Request, q.status = "DATA", q.len <= q.clen, NEW left \in Nat
  PROVE  LET d == DataStage(q, left)
         IN /\ d.req \in Request /\ d.req.code = q.code /\ d.req.clen = q.clen
            /\ d.req.status \in {"DATA", "TRUNCATED", "COMPLETE"}
            /\ d.req.len <= q.clen
            /\ d.req.status # "TRUNCATED" => d.req.len = q.len + left
            /\ d.req.status = "COMPLETE" => d.req.len \in {q.clen, MaxSize}
            /\ d.req.status = "DATA" => d.req.len \notin {q.clen, MaxSize}
            /\ left > 0 /\ q.len + left <= Least(MaxSize, q.clen) =>
                 d.req.status # "TRUNCATED" /\ d.left = 0
<1> DEFINE seen   == IF left = 0 THEN RomLen ELSE left
           toRead == Room(q, seen)
           copied == IF left = 0 THEN 0 ELSE toRead
           len    == q.len + copied
           next   == IF toRead < seen THEN "TRUNCATED"
                     ELSE IF Reached(q, len) THEN "COMPLETE" ELSE "DATA"
           p      == [q EXCEPT !.len = len, !.status = next]
<1>1. /\ q.len \in Nat /\ q.len <= MaxSize /\ q.clen \in Nat
      /\ MaxSize \in Nat /\ RomLen \in Nat
  BY ResponseAssumption DEF Request, Unset, ResponseAssumption
<1>2. seen \in Nat /\ (left # 0 => seen = left)
  BY <1>1
<1> HIDE DEF seen
<1>3. /\ toRead \in Nat /\ toRead <= seen
      /\ q.len + toRead <= MaxSize /\ q.len + toRead <= q.clen
      /\ q.len + seen <= MaxSize /\ q.len + seen <= q.clen => toRead = seen
  BY <1>1, <1>2 DEF Room
<1> HIDE DEF toRead
<1>4. /\ copied \in Nat /\ copied <= left /\ copied <= toRead
      /\ toRead = seen => copied = left
      /\ left > 0 => copied = toRead
  BY <1>2, <1>3
<1> HIDE DEF copied
<1>5. len \in 0 .. MaxSize /\ len <= q.clen
  BY <1>1, <1>3, <1>4
<1>6. /\ next \in {"DATA", "TRUNCATED", "COMPLETE"}
      /\ next = "TRUNCATED" <=> toRead < seen
      /\ next = "COMPLETE" => len \in {q.clen, MaxSize}
      /\ next = "DATA" => len \notin {q.clen, MaxSize}
  BY DEF Reached
<1> HIDE DEF next
<1>7. len = q.len + copied
  OBVIOUS
<1> HIDE DEF len
<1>8. /\ p \in Request /\ p.code = q.code /\ p.clen = q.clen
      /\ p.status = next /\ p.len = len
  BY <1>5, <1>6 DEF Request, Statuses
<1>9. DataStage(q, left) = [req |-> p, left |-> left - copied]
  BY Zenon DEF DataStage, p, next, len, copied, toRead, seen
<1> HIDE DEF p
<1>10. DataStage(q, left).req = p /\ DataStage(q, left).left = left - copied
  BY <1>9
<1>11. left > 0 /\ q.len + left <= Least(MaxSize, q.clen) => toRead = seen /\ copied = left
  BY <1>1, <1>2, <1>3, <1>4 DEF Least
<1>12. next # "TRUNCATED" => copied = left
  BY <1>2, <1>3, <1>4, <1>6
<1> QED
  BY <1>2, <1>3, <1>4, <1>5, <1>6, <1>7, <1>8, <1>10, <1>11, <1>12

------------------------------------------------------------------------------
(* The callback *)

\* What a segment does to a request: nothing before the status line or the end of
\* the headers is in it, and then its body, or the rest of it, is copied.
LEMMA ReceiveFacts ==
  ASSUME NEW r \in Request, r.status = "DATA" => r.len <= r.clen,
         NEW s \in Segment, s.from < s.to, NEW o \in RecvOutcomes(r, s)
  PROVE  /\ r.status = "DATA" => o = Copied(r, s.to - s.from)
         /\ r.status \in {"TRUNCATED", "COMPLETE", "FAILED"} => o.req = r /\ ~o.failed
         /\ r.status \in {"RESPONSE_STATUS", "HEADERS"} =>
              \/ o.req \in Request /\ o.req.status \in {"RESPONSE_STATUS", "HEADERS"}
                 /\ ~o.failed /\ (s.from = 0 => s.to < HeaderUnits)
              \/ o.req \in Request /\ o.req.status = "FAILED" /\ o.failed
              \/ \E q \in Request :
                   /\ q.status = "DATA" /\ q.len = 0 /\ q.clen = s.clen % U16
                   /\ s.from = 0 /\ r.status = "RESPONSE_STATUS" => q.code = s.code
                   /\ s.to >= HeaderUnits /\ o = Copied(q, s.to - HeaderUnits)
<1> DEFINE finish(h) ==
             IF h.req.status = "DATA"
               THEN LET d == DataStage(h.req, h.left)
                    IN [req |-> d.req, failed |-> FALSE, leaks |-> d.left > 0]
               ELSE [req |-> h.req, failed |-> h.failed, leaks |-> TRUE]
<1>1. PICK q \in StatusStage(r, s) : \E h \in HeaderStage(q, s) : o = finish(h)
  BY Zenon DEF RecvOutcomes
<1>2. PICK h \in HeaderStage(q, s) : o = finish(h)
  BY <1>1
<1>3. /\ h.req.status = "DATA" => o = Copied(h.req, h.left)
      /\ h.req.status # "DATA" => o.req = h.req /\ o.failed = h.failed
  BY <1>2 DEF Copied
<1> HIDE DEF finish
<1>4. /\ q \in Request /\ q.len = r.len /\ q.clen = r.clen
      /\ \/ q = r
         \/ r.status = "RESPONSE_STATUS" /\ q.status = "HEADERS"
      /\ r.status = "RESPONSE_STATUS" /\ s.from = 0 /\ s.to >= 2 =>
           q.status = "HEADERS" /\ q.code = s.code
  BY <1>1, StatusFacts
<1>5. /\ h.req \in Request
      /\ q.status # "HEADERS" => h = [req |-> q, left |-> s.to - s.from, failed |-> FALSE]
      /\ q.status = "HEADERS" =>
           \/ h.req.status = "HEADERS" /\ ~h.failed /\ ~HasHeaderEnd(s)
           \/ h.req.status = "FAILED" /\ h.failed
           \/ /\ h.req.status = "DATA" /\ h.req.len = 0 /\ h.req.code = q.code
              /\ h.req.clen = s.clen % U16 /\ h.left = s.to - HeaderUnits
              /\ s.to >= HeaderUnits /\ s.from <= 3
  BY <1>2, <1>4, HeaderFacts
<1>6. CASE r.status \notin {"RESPONSE_STATUS", "HEADERS"}
  <2>1. q = r /\ h.req = r /\ h.left = s.to - s.from /\ h.failed = FALSE
    BY <1>4, <1>5, <1>6
  <2> QED
    BY <1>3, <1>6, <2>1
<1>7. CASE r.status \in {"RESPONSE_STATUS", "HEADERS"} /\ q.status # "HEADERS"
  <2>1. q = r /\ h.req = r /\ h.failed = FALSE /\ r.status = "RESPONSE_STATUS"
    BY <1>4, <1>5, <1>7
  <2>2. s.from = 0 => s.to < HeaderUnits
    BY <1>4, <1>7, <2>1 DEF Segment, HeaderUnits
  <2> QED
    BY <1>3, <2>1, <2>2
<1>8. CASE r.status \in {"RESPONSE_STATUS", "HEADERS"} /\ q.status = "HEADERS"
  <2>1. CASE h.req.status = "HEADERS" /\ ~h.failed /\ ~HasHeaderEnd(s)
    <3>1. s.from = 0 => s.to < HeaderUnits
      BY <2>1 DEF HasHeaderEnd, HeaderUnits, Segment
    <3> QED
      BY <1>3, <1>5, <1>8, <2>1, <3>1
  <2>2. CASE h.req.status = "FAILED" /\ h.failed
    BY <1>3, <1>5, <1>8, <2>2
  <2>3. CASE /\ h.req.status = "DATA" /\ h.req.len = 0 /\ h.req.code = q.code
             /\ h.req.clen = s.clen % U16 /\ h.left = s.to - HeaderUnits
             /\ s.to >= HeaderUnits /\ s.from <= 3
    <3>1. o = Copied(h.req, s.to - HeaderUnits)
      BY <1>3, <2>3
    <3>2. s.from = 0 /\ r.status = "RESPONSE_STATUS" => h.req.code = s.code
      BY <1>4, <2>3 DEF HeaderUnits, Segment
    <3> QED
      BY <1>5, <1>8, <2>3, <3>1, <3>2
  <2> QED
    BY <1>5, <1>8, <2>1, <2>2, <2>3
<1> QED
  BY <1>6, <1>7, <1>8

------------------------------------------------------------------------------
(* The invariant *)

TypeInv ==
  /\ request \in Request /\ served \in Served
  /\ pos \in 0 .. Total(served.clen) /\ first \in 0 .. pos /\ leaks \in Nat /\ open \in BOOLEAN

\* Before the first segment nothing has happened, unless the connection has ended.
\* A request that has failed has lost its connection.
StartInv ==
  /\ pos = 0 => leaks = 0 /\ (open => request.status = "RESPONSE_STATUS")
  /\ pos > 0 => first > 0
  /\ request.status = "FAILED" => ~open

\* The body has its announced length, modulo that of a uint16_t, is no longer
\* than it, and has its end where the length or the limit is.
BodyInv ==
  /\ request.status = "DATA" =>
       /\ open
       /\ request.len = pos - HeaderUnits
       /\ request.len \notin {request.clen, MaxSize}
  /\ open /\ request.status \in {"DATA", "COMPLETE"} =>
       request.len <= request.clen /\ request.clen = served.clen % U16
  /\ open /\ request.status = "COMPLETE" => request.len \in {request.clen, MaxSize}

\* Headers that came in one segment with some of a body that fits.
Uncut == first > HeaderUnits /\ served.clen \in 1 .. MaxSize /\ request.status # "FAILED"

\* Such a response is read as it comes.
UncutInv ==
  Uncut =>
    /\ request.code = served.code /\ leaks = 0
    /\ \/ request.status = "DATA"
       \/ /\ request.status = "COMPLETE"
          /\ open => pos = Total(served.clen)
          /\ pos = Total(served.clen) => request.len = served.clen

StreamInv == TypeInv /\ StartInv /\ BodyInv /\ UncutInv

LEMMA InitStream == Init => StreamInv
<1> SUFFICES ASSUME Init PROVE StreamInv
  OBVIOUS
<1>1. served.clen \in Nat
  BY ServedAssumption DEF Init, ServedAssumption
<1>2. request \in Request
  BY ResponseAssumption DEF Init, Request, Statuses, ResponseAssumption, Unset
<1> QED
  BY <1>1, <1>2
     DEF Init, StreamInv, TypeInv, StartInv, BodyInv, UncutInv, Uncut, Total, HeaderUnits

\* What the copying of a rest of a segment makes of the invariant.
LEMMA CopyKeeps ==
  ASSUME StreamInv, NEW to \in pos + 1 .. Total(served.clen), Receive(to),
         NEW q \in Request, q.status = "DATA", q.len <= q.clen,
         q.clen = served.clen % U16,
         NEW left \in Nat, q.len + left = to - HeaderUnits,
         request' = Copied(q, left).req, open' = TRUE,
         leaks' = IF Copied(q, left).leaks THEN leaks + 1 ELSE leaks,
         Uncut' => q.code = served.code /\ leaks = 0 /\ left > 0
  PROVE  StreamInv'
<1> DEFINE d == DataStage(q, left)
<1>1. /\ pos \in Nat /\ to \in Nat /\ pos < to /\ to <= Total(served.clen)
      /\ served.clen \in Nat /\ served.code \in Nat
      /\ first \in 0 .. pos /\ leaks \in Nat
  BY ServedAssumption DEF StreamInv, TypeInv, ServedAssumption, Total, HeaderUnits
<1>2. /\ pos' = to /\ served' = served /\ first' = IF first = 0 THEN to ELSE first
      /\ request' = d.req /\ leaks' = IF d.left > 0 THEN leaks + 1 ELSE leaks
  BY DEF Receive, Copied
<1>3. /\ d.req \in Request /\ d.req.code = q.code /\ d.req.clen = q.clen
      /\ d.req.status \in {"DATA", "TRUNCATED", "COMPLETE"}
      /\ d.req.len <= q.clen
      /\ d.req.status # "TRUNCATED" => d.req.len = q.len + left
      /\ d.req.status = "COMPLETE" => d.req.len \in {q.clen, MaxSize}
      /\ d.req.status = "DATA" => d.req.len \notin {q.clen, MaxSize}
      /\ left > 0 /\ q.len + left <= Least(MaxSize, q.clen) =>
           d.req.status # "TRUNCATED" /\ d.left = 0
  BY DataFacts
<1> HIDE DEF d
<1>4. TypeInv'
  BY <1>1, <1>2, <1>3 DEF TypeInv, StreamInv
<1>5. StartInv'
  BY <1>1, <1>2, <1>3 DEF StartInv
<1>6. BodyInv'
  BY <1>1, <1>2, <1>3 DEF BodyInv
<1>7. ASSUME Uncut' PROVE UncutInv'
  <2>1. served.clen \in 1 .. MaxSize /\ served.clen < U16 /\ MaxSize \in Nat
    BY <1>2, <1>7, ResponseAssumption DEF Uncut, ResponseAssumption
  <2>2. q.clen = served.clen
    BY <1>1, <2>1, ModFacts
  <2>3. to - HeaderUnits <= served.clen
    BY <1>1 DEF Total, HeaderUnits
  <2>4. q.len + left <= Least(MaxSize, q.clen)
    BY <1>1, <2>1, <2>2, <2>3 DEF Least
  <2>5. d.req.status # "TRUNCATED" /\ d.left = 0 /\ leaks' = 0
    BY <1>2, <1>3, <1>7, <2>4
  <2>6. d.req.status = "COMPLETE" => to = Total(served.clen) /\ d.req.len = served.clen
    BY <1>1, <1>3, <2>1, <2>2, <2>3 DEF Total, HeaderUnits
  <2> QED
    BY <1>2, <1>3, <1>7, <2>5, <2>6 DEF UncutInv
<1> QED
  BY <1>4, <1>5, <1>6, <1>7 DEF StreamInv, UncutInv

LEMMA ReceiveKeeps ==
  ASSUME StreamInv, NEW to \in pos + 1 .. Total(served.clen), Receive(to)
  PROVE  StreamInv'
<1> DEFINE s == [from |-> pos, to |-> to, code |-> served.code, clen |-> served.clen]
<1>1. /\ pos \in Nat /\ to \in Nat /\ pos < to /\ to <= Total(served.clen)
      /\ served.clen \in Nat /\ served.code \in Nat /\ served \in Served
      /\ first \in 0 .. pos /\ leaks \in Nat /\ request \in Request
  BY ServedAssumption DEF StreamInv, TypeInv, ServedAssumption, Total, HeaderUnits
<1>2. /\ open /\ pos' = to /\ served' = served
      /\ first' = IF first = 0 THEN to ELSE first
  BY DEF Receive
<1>3. PICK o \in RecvOutcomes(request, s) :
        /\ request' = o.req /\ open' = ~o.failed
        /\ leaks' = IF o.leaks THEN leaks + 1 ELSE leaks
  BY DEF Receive
<1>4. /\ s \in Segment /\ s.from = pos /\ s.to = to
      /\ s.code = served.code /\ s.clen = served.clen
  BY <1>1 DEF Segment
<1> HIDE DEF s
<1>5. request.status = "DATA" => request.len <= request.clen
  BY <1>2 DEF StreamInv, BodyInv
<1>6. /\ request.status = "DATA" => o = Copied(request, to - pos)
      /\ request.status \in {"TRUNCATED", "COMPLETE", "FAILED"} => o.req = request /\ ~o.failed
      /\ request.status \in {"RESPONSE_STATUS", "HEADERS"} =>
           \/ o.req \in Request /\ o.req.status \in {"RESPONSE_STATUS", "HEADERS"}
              /\ ~o.failed /\ (pos = 0 => to < HeaderUnits)
           \/ o.req \in Request /\ o.req.status = "FAILED" /\ o.failed
           \/ \E q \in Request :
                /\ q.status = "DATA" /\ q.len = 0 /\ q.clen = served.clen % U16
                /\ pos = 0 /\ request.status = "RESPONSE_STATUS" => q.code = served.code
                /\ to >= HeaderUnits /\ o = Copied(q, to - HeaderUnits)
  BY <1>1, <1>4, <1>5, ReceiveFacts
<1>7. ASSUME Uncut' PROVE IF pos = 0 THEN to > HeaderUnits ELSE Uncut \/ request.status = "FAILED"
  <2>1. pos = 0 => first = 0
    BY <1>1
  <2>2. pos > 0 => first > 0
    BY DEF StreamInv, StartInv
  <2> QED
    BY <1>1, <1>2, <1>7, <2>1, <2>2 DEF Uncut
<1>8. CASE request.status = "DATA"
  <2>1. /\ request.clen = served.clen % U16 /\ request.len = pos - HeaderUnits
        /\ request.len \in Nat /\ pos # 0
    BY <1>1, <1>2, <1>8 DEF StreamInv, BodyInv, StartInv, Request
  <2>2. Uncut' => request.code = served.code /\ leaks = 0
    BY <1>1, <1>7, <1>8, <2>1 DEF StreamInv, UncutInv
  <2>3. o = Copied(request, to - pos) /\ open' = TRUE
    <3>1. o = Copied(request, to - pos)
      BY <1>6, <1>8
    <3>2. o.failed = FALSE
      BY <3>1 DEF Copied
    <3> QED
      BY <1>3, <3>1, <3>2
  <2>4. request.len + (to - pos) = to - HeaderUnits /\ to - pos \in Nat /\ to - pos > 0
    BY <1>1, <2>1 DEF HeaderUnits
  <2> QED
    BY <1>1, <1>3, <1>5, <1>8, <2>1, <2>2, <2>3, <2>4, CopyKeeps
<1>9. CASE request.status \in {"TRUNCATED", "COMPLETE", "FAILED"}
  <2>1. request' = request /\ open' = TRUE
    BY <1>3, <1>6, <1>9
  <2>2. pos # 0 /\ request.status # "FAILED"
    BY <1>2, <1>9 DEF StreamInv, StartInv
  <2>3. ~Uncut'
    <3> SUFFICES ASSUME Uncut' PROVE FALSE
      OBVIOUS
    <3>1. Uncut
      BY <1>7, <2>2
    <3>2. pos = Total(served.clen)
      BY <1>2, <1>9, <3>1 DEF StreamInv, UncutInv
    <3> QED
      BY <1>1, <3>2
  <2>4. TypeInv'
    BY <1>1, <1>2, <1>3, <2>1 DEF TypeInv
  <2>5. StartInv'
    BY <1>1, <1>2, <2>1, <2>2 DEF StartInv, StreamInv
  <2>6. BodyInv'
    BY <1>2, <1>9, <2>1 DEF BodyInv, StreamInv
  <2> QED
    BY <2>3, <2>4, <2>5, <2>6 DEF StreamInv, UncutInv
<1>10. CASE request.status \in {"RESPONSE_STATUS", "HEADERS"}
  <2>1. CASE /\ o.req \in Request /\ o.req.status \in {"RESPONSE_STATUS", "HEADERS"}
             /\ ~o.failed /\ (pos = 0 => to < HeaderUnits)
    <3>1. ~Uncut'
      <4> SUFFICES ASSUME Uncut' PROVE FALSE
        OBVIOUS
      <4>1. pos # 0 /\ Uncut
        BY <1>1, <1>7, <1>10, <2>1 DEF HeaderUnits
      <4> QED
        BY <1>10, <4>1 DEF StreamInv, UncutInv
    <3>2. TypeInv' /\ StartInv' /\ BodyInv'
      BY <1>1, <1>2, <1>3, <2>1 DEF TypeInv, StartInv, BodyInv
    <3> QED
      BY <3>1, <3>2 DEF StreamInv, UncutInv
  <2>2. CASE o.req \in Request /\ o.req.status = "FAILED" /\ o.failed
    <3>1. open' = FALSE /\ request' \in Request /\ request'.status = "FAILED"
      BY <1>3, <2>2
    <3>2. TypeInv' /\ ~Uncut'
      BY <1>1, <1>2, <1>3, <3>1 DEF TypeInv, Uncut
    <3>3. StartInv' /\ BodyInv'
      BY <1>1, <1>2, <3>1 DEF StartInv, BodyInv
    <3> QED
      BY <3>2, <3>3 DEF StreamInv, UncutInv
  <2>3. ASSUME NEW q \in Request,
               q.status = "DATA", q.len = 0, q.clen = served.clen % U16,
               pos = 0 /\ request.status = "RESPONSE_STATUS" => q.code = served.code,
               to >= HeaderUnits, o = Copied(q, to - HeaderUnits)
        PROVE  StreamInv'
    <3>1. q.clen \in Nat /\ q.len <= q.clen
      BY <2>3, ResponseAssumption DEF Request, Unset, ResponseAssumption
    <3>2. to - HeaderUnits \in Nat /\ q.len + (to - HeaderUnits) = to - HeaderUnits
      BY <1>1, <2>3 DEF HeaderUnits
    <3>3. open' = TRUE
      BY <1>3, <2>3 DEF Copied
    <3>4. ASSUME Uncut' PROVE q.code = served.code /\ leaks = 0 /\ to - HeaderUnits > 0
      <4>1. pos = 0
        <5> SUFFICES ASSUME pos # 0 PROVE FALSE
          OBVIOUS
        <5>1. Uncut
          BY <1>7, <1>10, <3>4
        <5> QED
          BY <1>10, <5>1 DEF StreamInv, UncutInv
      <4>2. request.status = "RESPONSE_STATUS" /\ leaks = 0
        BY <1>2, <4>1 DEF StreamInv, StartInv
      <4>3. to > HeaderUnits
        BY <1>7, <3>4, <4>1
      <4> QED
        BY <1>1, <2>3, <4>1, <4>2, <4>3 DEF HeaderUnits
    <3> QED
      BY <1>3, <2>3, <3>1, <3>2, <3>3, <3>4, CopyKeeps
  <2> QED
    BY <1>6, <1>10, <2>1, <2>2, <2>3
<1> QED
  BY <1>1, <1>8, <1>9, <1>10 DEF Request, Statuses

LEMMA FinishKeeps ==
  ASSUME StreamInv, Finish
  PROVE  StreamInv'
<1>1. /\ request \in Request /\ request' = [request EXCEPT !.status = "COMPLETE"]
      /\ open /\ open' = FALSE /\ UNCHANGED <<served, pos, first, leaks>>
  BY DEF Finish, StreamInv, TypeInv
<1>2. /\ request' \in Request /\ request'.status = "COMPLETE"
      /\ request'.len = request.len /\ request'.code = request.code
  BY <1>1 DEF Request, Statuses
<1>3. TypeInv' /\ StartInv' /\ BodyInv'
  BY <1>1, <1>2 DEF TypeInv, StartInv, BodyInv, StreamInv
<1>4. ASSUME Uncut' PROVE UncutInv'
  <2>1. Uncut
    BY <1>1, <1>4 DEF Uncut, StreamInv, StartInv
  <2>2. request.code = served.code /\ leaks = 0
    BY <2>1 DEF StreamInv, UncutInv
  <2>3. ASSUME pos = Total(served.clen) PROVE request.len = served.clen
    <3>1. CASE request.status = "DATA"
      BY <1>1, <2>3, <3>1, ServedAssumption
         DEF StreamInv, TypeInv, BodyInv, Total, HeaderUnits, ServedAssumption
    <3>2. CASE request.status # "DATA"
      BY <2>1, <2>3, <3>2 DEF StreamInv, UncutInv
    <3> QED
      BY <3>1, <3>2
  <2> QED
    BY <1>1, <1>2, <2>2, <2>3 DEF UncutInv
<1> QED
  BY <1>3, <1>4 DEF StreamInv, UncutInv

\* Each step preserves the invariant.
THEOREM StreamCorrect == Spec => []StreamInv
<1>1. StreamInv /\ [Next]_vars => StreamInv'
  <2> SUFFICES ASSUME StreamInv, [Next]_vars PROVE StreamInv'
    OBVIOUS
  <2>1. CASE UNCHANGED vars
    BY <2>1 DEF vars, StreamInv, TypeInv, StartInv, BodyInv, UncutInv, Uncut
  <2> QED
    BY <2>1, FinishKeeps, ReceiveKeeps DEF Next
<1> QED
  BY <1>1, InitStream, PTL DEF Spec

\* Wherever a response is cut, what has been copied of its body is what has been
\* received of it: httpclient_recv_callback skips no unit and copies no header.
THEOREM NothingIsLost == Spec => []NothingLost
<1>1. StreamInv => NothingLost
  BY DEF StreamInv, BodyInv, NothingLost
<1> QED
  BY <1>1, StreamCorrect, PTL

\* A response that completes with its connection open has all of its body, up to
\* the caller's limit, if its length fits a uint16_t.
THEOREM CompleteIsAllThereIs == Spec => []CompleteIsWhole
<1>1. StreamInv => CompleteIsWhole
  <2> SUFFICES ASSUME StreamInv, open, request.status = "COMPLETE", served.clen < Unset
               PROVE  request.len = Least(MaxSize, served.clen)
    BY DEF CompleteIsWhole
  <2>1. served.clen \in Nat /\ request.len \in 0 .. MaxSize /\ MaxSize \in Nat
    BY ServedAssumption, ResponseAssumption
       DEF StreamInv, TypeInv, Request, ServedAssumption, ResponseAssumption
  <2>2. request.clen = served.clen
    <3>1. served.clen % U16 = served.clen
      BY <2>1, ModFacts, ResponseAssumption DEF Unset, ResponseAssumption
    <3> QED
      BY <3>1 DEF StreamInv, BodyInv
  <2>3. request.len <= served.clen /\ request.len \in {served.clen, MaxSize}
    BY <2>2 DEF StreamInv, BodyInv
  <2> QED
    BY <2>1, <2>3 DEF Least
<1> QED
  BY <1>1, StreamCorrect, PTL

\* Headers that arrive with some of a body that fits are enough: the code is the
\* server's, no buffer is leaked, and the last unit completes the response.
THEOREM UncutIsReadWhole == Spec => []UncutIsRead
<1>1. StreamInv => UncutIsRead
  <2> SUFFICES ASSUME StreamInv, Uncut
               PROVE  /\ request.code = served.code /\ leaks = 0
                      /\ pos = Total(served.clen) =>
                           request.status = "COMPLETE" /\ request.len = served.clen
    BY DEF UncutIsRead, Uncut
  <2>1. request.status # "DATA" \/ pos # Total(served.clen)
    <3> SUFFICES ASSUME request.status = "DATA", pos = Total(served.clen) PROVE FALSE
      OBVIOUS
    <3>1. request.len = served.clen
      BY ServedAssumption
         DEF StreamInv, TypeInv, BodyInv, Total, HeaderUnits, ServedAssumption
    <3>2. request.clen = served.clen
      <4>1. served.clen \in Nat /\ served.clen < U16
        BY ResponseAssumption DEF Uncut, ResponseAssumption
      <4> QED
        BY <4>1, ModFacts DEF StreamInv, BodyInv
    <3> QED
      BY <3>1, <3>2 DEF StreamInv, BodyInv
  <2> QED
    BY <2>1 DEF StreamInv, UncutInv
<1> QED
  BY <1>1, StreamCorrect, PTL
=============================================================================
