-------------------------------- MODULE Http --------------------------------
(***************************************************************************)
(* The HTTP server side processor (pp_https_read and pp_https_write in     *)
(* trace/protocol.c) with the code that shows it the bytes: virtual_read() *)
(* and present_pp() for requests, vwrite_req() for responses               *)
(* (trace/vfd.c).                                                          *)
(*                                                                         *)
(* The processor finds the end of a header with strstr(), which knows no   *)
(* length: it runs on through the bytes that earlier messages have left in *)
(* the buffer, up to the first zero.  So the buffers are modelled as they  *)
(* are, with what lies behind their end.  The bytes of a stream are        *)
(* numbered 1, 2, ...; 0 is a zero of the BSS.  The last byte of a header  *)
(* stands for the empty line, those before it, in a request, for the       *)
(* request line.  A run looks at one direction of one connection.  The     *)
(* application's read() asks for at least what is released (VirtualRead    *)
(* has the short ones).                                                    *)
(*                                                                         *)
(* Where the code leaves its bounds or gives up, `fate' says so and the    *)
(* process takes no further step.                                          *)
(***************************************************************************)
EXTENDS Stream

CONSTANTS
  VBUFSIZE,      \* bytes in rbuf, and in wbuf
  ReqBodies,     \* sizes of the bodies of requests
  Bodies,        \* sizes of the bodies of responses
  Kinds,         \* kinds of responses, see Messages
  LargestWrite,  \* most bytes the application passes to one write()
  Cuts           \* a read() or write() may end inside a header

HttpConstants ==
  /\ VBUFSIZE \in Nat /\ HDR \in Nat /\ HDR > 1
  /\ Bodies \subseteq Nat /\ ReqBodies \subseteq Nat
  /\ Kinds \subseteq {"length", "close", "none"} /\ LargestWrite \in Nat
  /\ Cuts \in BOOLEAN /\ MaxMsgs \in Nat

ASSUME HttpAssumption == HttpConstants

VARIABLES
  dir,        \* "read" or "write"
  given,      \* bytes real_read() or the application have put into buf
  buf,        \* rbuf or wbuf
  buflen, bufofs,
  lastlen,    \* rlastlen: bytes of rbuf the application has got
  ppwantmore,
  fate        \* "runs"; "fault": strstr(NULL), the VERSION is missing;
              \* "unknown": assert(0), it is neither of two; "past": the
              \* offset is behind the end of the buffer (the assertion of
              \* read(), the length of vwrite_req()'s memmove()); "overrun":
              \* vwrite_req() has copied beyond wbuf

http_vars == <<dir, stream, given, buf, buflen, bufofs, lastlen, ppwantmore, fate, inloop, st,
               heard>>
fixed == <<dir, stream>>

(* Requests: HTTP/1.0 or 1.1.  Responses: with a Content-Length, with      *)
(* "Connection: close" before it, or with neither.                         *)
Messages(d) ==
  [ver : IF d = "read" THEN {0, 1} ELSE {1},
   kind : IF d = "read" THEN {"length"} ELSE Kinds,
   body : IF d = "read" THEN ReqBodies ELSE Bodies]

HttpLen(k) == HDR + stream[k].body

(* The number of the first byte of message k, and of the byte behind all.  *)
HeaderStart[k \in 1..Len(stream) + 1] == IF k = 1 THEN 1 ELSE HeaderStart[k-1] + HttpLen(k-1)

StreamLen == HeaderStart[Len(stream) + 1] - 1
Msgs  == 1..Len(stream)

(* The message whose header ends with byte b, or 0. *)
EndOf(b) ==
  IF \E k \in Msgs : HeaderStart[k] + HDR - 1 = b
  THEN CHOOSE k \in Msgs : HeaderStart[k] + HDR - 1 = b ELSE 0

InHeader(b) == \E k \in Msgs : HeaderStart[k] < b /\ b < HeaderStart[k] + HDR

(* Byte n may be the last one before a pause. *)
MayStop(n) == n <= StreamLen /\ (Cuts \/ ~InHeader(n + 1))

-----------------------------------------------------------------------------
(* The processor.  Its answer: bytes taken or -1, its next state, the      *)
(* message it logs, or 0, and whether it comes to an answer at all.        *)

Takes(n, s) == [ret |-> n, st |-> s, tell |-> 0, fate |-> "runs"]

Cells == 0..VBUFSIZE - 1

(* strstr(cbuf, "\r\n\r\n"): where the first empty line after bufofs ends, *)
(* or -1 if a zero comes first.                                            *)
strstr ==
  LET ends == {i \in Cells : /\ i >= bufofs /\ EndOf(buf[i]) # 0
                             /\ \A j \in bufofs..i : buf[j] # 0}
  IN  IF ends = {} THEN -1 ELSE CHOOSE i \in ends : \A j \in ends : i <= j

(* Mutant: one byte more than the header. *)
TakenTo_more(end) == end + 2 - bufofs

(* end - cbuf + 4 *)
TakenTo(end) == end + 1 - bufofs

(* The request line of request k is all there, in the len bytes that the   *)
(* processor copies.                                                       *)
LineThere(k, len) ==
  \A i \in 0..HDR - 2 : i < len /\ buf[bufofs + i] = HeaderStart[k] + i

(* The third word of the copy: the VERSION, if the copy begins with a       *)
(* request line.  If it does not (a body, the rest of a cut header, and    *)
(* nothing ends the copy) there is any word or, -1, none; 2 is a word that *)
(* is neither HTTP/1.0 nor HTTP/1.1.                                       *)
Version(len) ==
  LET lines == {k \in Msgs : LineThere(k, len)}
  IN  IF lines # {} THEN {stream[k].ver : k \in lines} ELSE {-1, 0, 1, 2}

Ending(ver) ==
  CASE ver \in {0, 1} -> "runs" [] ver = 2 -> "unknown" [] ver = -1 -> "fault"

(* Mutant: an HTTP/1.1 connection has one request. *)
ReadHeader_once(s, ver) == [s EXCEPT !.done = (ver = 0), !.await = FALSE]

(* HTTP/1.0: all that follows is content.  HTTP/1.1: the next header.      *)
ReadHeader(s, ver) == [s EXCEPT !.done = (ver = 0), !.await = (ver = 1)]

(* The end of the header is looked for in all of the buffer, the VERSION   *)
(* in the len bytes it is shown.  PP_MSG_RECV is logged before that.       *)
pp_https_read(len) ==
  CASE st.done -> {Takes(len, st)}
    [] ~st.done /\ st.await /\ strstr >= 0 ->
         {[ret |-> TakenTo(strstr), st |-> ReadHeader(st, ver), tell |-> EndOf(buf[strstr]),
           fate |-> Ending(ver)] : ver \in Version(len)}
    [] OTHER -> {Takes(-1, st)}

(* The text from bufofs up to the end of a header is that header.          *)
InOnePiece(end) ==
  /\ \A i \in bufofs..end : buf[i] = buf[end] - (end - i)
  /\ buf[bufofs] <= HeaderStart[EndOf(buf[end])]

(* Messages of whose headers something lies behind the end of this one.    *)
Trailing(end) ==
  {k \in Msgs : \E i \in Cells :
     /\ i > end /\ HeaderStart[k] <= buf[i] /\ buf[i] < HeaderStart[k] + HDR
     /\ \A j \in end..i : buf[j] # 0}

(* The response whose lines the processor goes by.  It copies what is       *)
(* there, up to 1024 bytes, and takes the first Content-Length or           *)
(* "Connection: close": if the header has neither, that may be one of       *)
(* another response behind it.  When the text is patched together from old  *)
(* and new bytes, anything.  (Headers are shorter than 1024 bytes and       *)
(* bodies have no such lines.)                                              *)
Parsed(end) ==
  LET k == EndOf(buf[end])
  IN  IF ~InOnePiece(end) THEN Messages(dir)
      ELSE {stream[k]} \cup
           {stream[l] : l \in IF stream[k].kind = "none" THEN Trailing(end) ELSE {}}

(* Mutant: the end of a body is not the beginning of a header. *)
WriteBody_forgets(s, used) == [s EXCEPT !.toread = @ - used]

Used(len) == Min(len, st.toread)

WriteBody(s, used) ==
  [s EXCEPT !.toread = @ - used, !.await = @ \/ s.toread = used]

(* The first line that matters decides. *)
WriteHeader(s, m) ==
  [s EXCEPT !.await = FALSE, !.done = (m.kind = "close"),
            !.toread = IF m.kind = "length" THEN m.body ELSE 0]

pp_https_write(len) ==
  CASE st.done -> {Takes(len, st)}
    [] ~st.done /\ st.toread # 0 ->
         {Takes(Used(len), WriteBody(st, Used(len)))}
    [] ~st.done /\ st.toread = 0 /\ st.await ->
         IF strstr < 0 THEN {Takes(-1, st)}
         ELSE {[ret |-> TakenTo(strstr), st |-> WriteHeader(st, m),
                tell |-> EndOf(buf[strstr]), fate |-> "runs"] : m \in Parsed(strstr)}
    [] OTHER -> {Takes(len, st)}

(* The processor's own part of an answer, and the caller's check that it    *)
(* took no more than the len bytes it was shown.                            *)
Answers(a, len) ==
  /\ st' = a.st
  /\ heard' = IF a.tell = 0 THEN heard ELSE Append(heard, a.tell)
  /\ fate' = IF a.fate = "runs" /\ a.ret > len THEN "past" ELSE a.fate

-----------------------------------------------------------------------------
(* Requests: read() *)

(* Mutant: one byte more is released than the processor has taken. *)
present_pp_one_more ==
  \E a \in pp_https_read(buflen - bufofs) :
    /\ Answers(a, buflen - bufofs)
    /\ IF a.ret < 0
       THEN /\ lastlen' = buflen /\ ppwantmore' = TRUE
            /\ UNCHANGED bufofs
       ELSE /\ bufofs' = bufofs + a.ret
            /\ lastlen' = Min(buflen, bufofs + a.ret + 1) /\ ppwantmore' = FALSE

(* present_pp() and buf_ret(): what is released goes to the application,   *)
(* if read() gets past its assertion.                                      *)
present_pp ==
  \E a \in pp_https_read(buflen - bufofs) :
    /\ Answers(a, buflen - bufofs)
    /\ IF a.ret < 0
       THEN /\ lastlen' = buflen /\ ppwantmore' = TRUE
            /\ UNCHANGED bufofs
       ELSE /\ bufofs' = bufofs + a.ret
            /\ lastlen' = bufofs + a.ret /\ ppwantmore' = FALSE

Shown == bufofs < buflen /\ ~ppwantmore

(* The processor has not seen all of rbuf. *)
ReadBuffered ==
  /\ dir = "read" /\ fate = "runs" /\ Shown
  /\ present_pp
  /\ UNCHANGED <<fixed, given, buf, buflen, inloop>>

(* buf_shift(): the bytes behind the end stay where they are.  Then        *)
(* real_read(), as a step of its own.                                      *)
ReadRefill ==
  /\ dir = "read" /\ fate = "runs" /\ ~Shown
  /\ LET begin == Min(bufofs, lastlen)
         kept  == buflen - begin
     IN  \E r \in 1..Min(VBUFSIZE - kept, StreamLen - given) :
           /\ MayStop(given + r)
           /\ buf' = [i \in Cells |->
                        IF i < kept THEN buf[i + begin]
                        ELSE IF i < kept + r THEN given + 1 + i - kept ELSE buf[i]]
           /\ bufofs' = bufofs - begin /\ lastlen' = lastlen - begin
           /\ buflen' = kept + r /\ given' = given + r
           /\ ppwantmore' = FALSE
  /\ UNCHANGED <<fixed, fate, inloop, st, heard>>

-----------------------------------------------------------------------------
(* Responses: write() *)

(* The application has written n bytes.  They are appended to wbuf,        *)
(* whether they fit or not.                                                *)
Write ==
  /\ dir = "write" /\ fate = "runs" /\ ~inloop
  /\ \E n \in 1..Min(LargestWrite, StreamLen - given) :
       /\ MayStop(given + n)
       /\ buf' = [i \in Cells |->
                    IF buflen <= i /\ i < buflen + n THEN given + 1 + i - buflen ELSE buf[i]]
       /\ buflen' = buflen + n /\ given' = given + n
       /\ fate' = IF buflen + n > VBUFSIZE THEN "overrun" ELSE "runs"
  /\ inloop' = TRUE
  /\ UNCHANGED <<fixed, bufofs, lastlen, ppwantmore, st, heard>>

(* memmove() of the rest to the front ends vwrite_req(). *)
KeepRest(vlen) ==
  /\ inloop' = FALSE
  /\ buf' = [i \in Cells |-> IF i < vlen THEN buf[i + bufofs] ELSE buf[i]]
  /\ bufofs' = 0 /\ buflen' = vlen

(* One turn of the loop. *)
vwrite_req ==
  /\ dir = "write" /\ fate = "runs" /\ inloop
  /\ LET vlen == buflen - bufofs
     IN  IF vlen = 0 THEN KeepRest(0) /\ UNCHANGED <<fate, st, heard>>
         ELSE \E a \in pp_https_write(vlen) :
                /\ Answers(a, vlen)
                /\ IF a.ret > 0
                   THEN bufofs' = bufofs + a.ret /\ UNCHANGED <<buf, buflen, inloop>>
                   ELSE KeepRest(vlen)
  /\ UNCHANGED <<fixed, given, lastlen, ppwantmore>>

-----------------------------------------------------------------------------
HttpInit ==
  /\ dir \in {"read", "write"}
  /\ stream \in UNION {[1..n -> Messages(dir)] : n \in 1..MaxMsgs}
  /\ given = 0 /\ buf = [i \in Cells |-> 0] /\ buflen = 0 /\ bufofs = 0 /\ lastlen = 0
  /\ ppwantmore = FALSE /\ fate = "runs" /\ inloop = FALSE /\ heard = << >>
  /\ st = [done |-> FALSE, await |-> TRUE, toread |-> 0]

HttpNext == ReadBuffered \/ ReadRefill \/ Write \/ vwrite_req

HttpSpec == HttpInit /\ [][HttpNext]_http_vars

-----------------------------------------------------------------------------
(* Properties *)

(* What the processor can follow: requests without a body, responses that  *)
(* have a length or are closed, headers that no read() or write() cuts,    *)
(* and no write() larger than wbuf.                                        *)
CanFollow ==
  ~Cuts /\ ReqBodies \subseteq {0} /\ "none" \notin Kinds /\ LargestWrite <= VBUFSIZE

(* The processor does not bring the program down, whatever earlier         *)
(* messages have left in the buffer: read() asserts rbufofs <= rbuflen,    *)
(* vwrite_req()'s memcpy() and memmove() stay within wbuf, and the copy of *)
(* a request always holds its VERSION.                                     *)
Survives == fate = "runs"

(* read() asserts rbufofs <= rbuflen after every call. *)
OffsetInBuffer == dir = "read" => fate # "past"

(* The first message after which the code no longer follows, and after     *)
(* which nothing is expected of it: an HTTP/1.0 request; a response that   *)
(* is closed, or has no length or an empty body.                           *)
Blinds(m) ==
  IF dir = "read" THEN m.ver = 0 ELSE m.kind # "length" \/ m.body = 0

Followed(k) == \A j \in 1..k-1 : ~Blinds(stream[j])

(* A request is in the log before the application can act on it: when      *)
(* read() has given it the end of a header, PP_MSG_RECV has been logged    *)
(* for that request, once and in order, however requests and bodies are    *)
(* packed into reads.                                                      *)
HeardBeforeServed ==
  dir = "read" =>
    /\ \A i \in 1..Len(heard) : heard[i] = i
    /\ \A k \in Msgs :
         Followed(k) /\ HeaderStart[k] + HDR - 1 <= given - (buflen - lastlen) => k <= Len(heard)

(* Every response is logged once, in order, by the time write() returns,   *)
(* up to the one that blinds the processor, and no further one; and        *)
(* nothing waits in wbuf, so that the memcpy() of the next write(), which  *)
(* is unchecked, has all of it.                                            *)
HeardResponses ==
  dir = "write" /\ ~inloop =>
    LET whole == {k \in Msgs : Followed(k) /\ HeaderStart[k] + HDR - 1 <= given}
    IN  /\ \A i \in 1..Len(heard) : heard[i] = i
        /\ whole = 1..Len(heard)
        /\ buflen = 0

(* One read(), one request: a read() never gives the application the end   *)
(* of one header and bytes behind it, as long as the processor follows.    *)
IsolatedRequests ==
  [][dir = "read" /\ ~st.done /\ heard' # heard /\ fate' = "runs" =>
       given' - (buflen' - lastlen') = HeaderStart[heard'[Len(heard')]] + HDR - 1]_http_vars
=============================================================================
