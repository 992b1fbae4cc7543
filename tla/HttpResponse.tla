---------------------------- MODULE HttpResponse ----------------------------
(***************************************************************************)
(* What httpclient_recv_callback does with one received segment.           *)
(*                                                                         *)
(* A response is a stream of units, received in order but cut into         *)
(* segments wherever TCP pleases:                                          *)
(*                                                                         *)
(*    1, 2   the two halves of the status line (its CRLF is in unit 2)     *)
(*    3      the header lines, Content-Length among them                   *)
(*    4      the CRLF that ends the last header line                       *)
(*    5      the CRLF of the blank line                                    *)
(*    6 ..   the units of the body                                         *)
(*                                                                         *)
(* A segment [from, to, code, clen] holds the units from + 1 .. to of a    *)
(* response whose status line carries "code" and whose Content-Length is   *)
(* "clen".  The callback looks for each thing in the segment it was handed *)
(* and nowhere else, so what it makes of a response depends on the cuts.   *)
(***************************************************************************)
EXTENDS Integers

CONSTANTS
  MaxSize,   \* response_max_size: the caller's limit (1024 bytes in main.cpp)
  U16,       \* the modulus of a uint16_t; U16 - 1 is the "no length" marker
  RomLen     \* what p_buf->tot_len reads through a NULL p_buf (boot ROM)

ASSUME ResponseAssumption ==
  /\ MaxSize \in Nat
  /\ U16 \in Nat \ {0}
  /\ MaxSize < U16
  /\ RomLen \in Nat

Unset == U16 - 1               \* (uint16_t)-1
HeaderUnits == 5               \* units before the body
Least(a, b) == IF a <= b THEN a ELSE b

Total(clen) == HeaderUnits + clen

\* Does pbuf_memfind see the end of a non-empty first line in the segment?
HasLine(s) == s.from < 4 /\ s.to >= IF s.from = 0 THEN 2 ELSE s.from + 1

\* What atoi makes of the second word of that line.  Only a segment that
\* starts the response surely shows the code; a later one starts in the
\* middle of the status line, or at a header line.
ParsedCodes(s) ==
  CASE s.from = 0 -> {s.code}
    [] s.from = 1 -> {0, s.code}
    [] s.from = 2 -> {0, s.clen % U16}
    [] OTHER      -> {0}

\* RESPONSE_STATUS stage.  A torn line may also have no second word at all.
StatusStage(r, s) ==
  IF r.status = "RESPONSE_STATUS" /\ HasLine(s)
    THEN {[r EXCEPT !.code = c, !.status = "HEADERS"] : c \in ParsedCodes(s)}
           \cup (IF s.from = 0 THEN {} ELSE {r})
    ELSE {r}

\* Is the end of the headers in this segment, is Content-Length?
HasHeaderEnd(s) == s.from <= 3 /\ s.to >= 5
SegmentLength(s) == IF s.from <= 2 THEN s.clen % U16 ELSE Unset

\* The response buffer is the lesser of the limit and the length announced.
BufferSize_Uncapped(clen) == clen
BufferSize(clen) == Least(MaxSize, clen)

\* What is left of a segment when pbuf_free_header has taken the headers away.
BodyPart_HeadersKept(s) == s.to - s.from
BodyPart(s) == s.to - HeaderUnits

\* HEADERS stage: the outcomes, each with what is left in p_buf for the next
\* stage ("left"; p_buf itself is NULL when nothing is) and whether the
\* request has failed and its pcb is to be closed.
HeaderStage(r, s) ==
  LET sized == [r EXCEPT !.clen = SegmentLength(s)]
      fail  == [req |-> [sized EXCEPT !.status = "FAILED"], left |-> s.to - s.from,
                failed |-> TRUE]
  IN CASE r.status # "HEADERS" ->
            {[req |-> r, left |-> s.to - s.from, failed |-> FALSE]}
       [] r.status = "HEADERS" /\ ~HasHeaderEnd(s) ->
            {[req |-> [r EXCEPT !.clen = Unset], left |-> s.to - s.from,
              failed |-> FALSE]}
       [] r.status = "HEADERS" /\ HasHeaderEnd(s) /\ sized.clen = Unset -> {fail}
       [] OTHER ->
            {fail,                                          \* malloc returned NULL
             [req |-> [sized EXCEPT !.cap = BufferSize(sized.clen), !.len = 0,
                               !.status = "DATA"],
              left |-> BodyPart(s), failed |-> FALSE]}

\* How much of "seen" units there is room for: the limit first, then the length.
Room_NoLimit(r, seen) == IF r.len + seen > r.clen THEN r.clen - r.len ELSE seen
Room(r, seen) ==
  LET byMax == IF r.len + seen > MaxSize THEN MaxSize - r.len ELSE seen
  IN IF r.len + byMax > r.clen THEN r.clen - r.len ELSE byMax

\* Is a body of this length complete?
Reached_LimitOnly(r, len) == len = MaxSize
Reached_OneShort(r, len) == len >= r.clen - 1 \/ len = MaxSize
Reached(r, len) == len = r.clen \/ len = MaxSize

\* DATA stage on a p_buf with "left" units, NULL when left = 0.
DataStage(r, left) ==
  LET seen   == IF left = 0 THEN RomLen ELSE left
      toRead == Room(r, seen)
      copied == IF left = 0 THEN 0 ELSE toRead
      len    == r.len + copied
  IN [req  |-> [r EXCEPT
                  !.len = len,
                  !.status = IF toRead < seen THEN "TRUNCATED"
                             ELSE IF Reached(r, len) THEN "COMPLETE"
                             ELSE "DATA"],
      left |-> left - copied]

\* The whole callback on a segment: the request it leaves, whether the request
\* failed (its pcb is closed), and whether p_buf is returned unfreed.
RecvOutcomes(r, s) ==
  LET afterHeaders == UNION {HeaderStage(q, s) : q \in StatusStage(r, s)}
      finish(o) ==
        IF o.req.status = "DATA"
          THEN LET d == DataStage(o.req, o.left)
               IN [req |-> d.req, failed |-> FALSE, leaks |-> d.left > 0]
          ELSE [req |-> o.req, failed |-> o.failed, leaks |-> TRUE]
  IN {finish(o) : o \in afterHeaders}

------------------------------------------------------------------------------
(* What should hold of a request whatever is received. *)

\* While a body is being received it is no longer than announced ...
Bounded(r) == r.status = "DATA" => r.len <= r.clen

\* ... and fits its buffer, which is the lesser of the two limits.
Fits(r) ==
  /\ r.cap = -1 => r.len = 0
  /\ r.cap # -1 => r.len <= r.cap
  /\ r.status = "DATA" => r.cap = Least(MaxSize, r.clen)
=============================================================================
