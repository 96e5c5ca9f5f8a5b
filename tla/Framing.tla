------------------------------- MODULE Framing -------------------------------
(***************************************************************************)
(* The protocol processors that frame messages by a length in a header     *)
(* (speak_psql, speak_mysql, speak_fcgi in trace/protocol.c), driven by    *)
(* the write path (vwrite_req in trace/vfd.c): what the application wrote  *)
(* is appended to wbuf and shown to the processor, which takes a header or *)
(* a piece of a body from the front, or asks for more, until wbuf is empty *)
(* or it asks for more.                                                    *)
(*                                                                         *)
(* The bytes of the stream are numbered 1, 2, ...; a message is its type   *)
(* and the size of its body (content and padding, for FastCGI).  HDR is 5  *)
(* for PostgreSQL, 4 for MySQL and 8 for FastCGI.                          *)
(***************************************************************************)
EXTENDS Stream

CONSTANTS
  Sides,      \* the sides of connections looked at: "psqlc" and "psqls", a
              \* PostgreSQL client and server, "mysql", "fcgi"
  STARTUP,    \* bytes in the header of a PostgreSQL client's first message: 8
  BYTE,       \* values of a byte: 256
  UINT,       \* values of an unsigned int: 2^32
  Types,      \* of the messages a side sends: "Q", Query, which the processor
              \* waits for, and "Z", ReadyForQuery, of PostgreSQL; "B",
              \* BEGIN_REQUEST or END_REQUEST, and "O", STDOUT, of FastCGI;
              \* or another
  Sizes,      \* of the bodies of a side's messages
  Splits,     \* sides on which a write() may end inside the body of a message
  MaxWrite    \* bound: bytes of one write()

FramingConstants ==
  /\ Sides \subseteq {"psqlc", "psqls", "mysql", "fcgi"} /\ Splits \subseteq Sides
  /\ HDR \in Nat \ {0} /\ STARTUP \in Nat \ {0}
  /\ BYTE \in Nat \ {0} /\ UINT \in Nat /\ UINT >= BYTE * BYTE * BYTE
  /\ \A a \in Sides : Sizes[a] \subseteq Nat
  /\ MaxMsgs \in Nat /\ MaxWrite \in Nat

ASSUME FramingAssumption == FramingConstants

VARIABLES
  side,      \* the side that writes
  written,   \* how many bytes of the stream it has written
  wbuf,      \* the first wbuflen bytes of wbuf, by number
  wbufofs

framing_vars == <<side, stream, written, wbuf, wbufofs, inloop, st, heard>>

MessagesOf(a) == [type : Types[a], size : Sizes[a]]

StreamsOf(a) == UNION {[1..n -> MessagesOf(a)] : n \in 0..MaxMsgs}

HeaderLen(k) == IF k = 1 /\ side = "psqlc" THEN STARTUP ELSE HDR

MessageLen(k) == HeaderLen(k) + stream[k].size

(* The number of the first byte of message k, and of the byte behind all.  *)
StartOf[k \in 1..Len(stream) + 1] == IF k = 1 THEN 1 ELSE StartOf[k-1] + MessageLen(k-1)

Total == StartOf[Len(stream) + 1] - 1

(* The message whose header starts at byte b, or 0. *)
MessageAt(b) ==
  IF \E k \in 1..Len(stream) : StartOf[k] = b
  THEN CHOOSE k \in 1..Len(stream) : StartOf[k] = b ELSE 0

(* What the processor takes the bytes from b on for, if they are a header  *)
(* to it: anything, when they are none.                                    *)
HeadersAt(b) == IF MessageAt(b) # 0 THEN {stream[MessageAt(b)]} ELSE MessagesOf(side)

-----------------------------------------------------------------------------
(* The processors: their answer to len bytes that start like header h,     *)
(* their next state, and whether they log the message.                     *)

More(s) == [ret |-> -1, st |-> s, tell |-> FALSE]

Took(n, s) == [ret |-> n, st |-> s, tell |-> FALSE]

psql_body(s, used) ==
  [s EXCEPT !.todo = @ - used, !.gotHeader = IF s.todo = used THEN FALSE ELSE @]

(* Mutant: a query that is there completely is waited for. *)
WaitsFor_inclusive(s, len) == s.type = "Q" /\ len <= s.todo

WaitsFor(s, len) == s.type = "Q" /\ len < s.todo

(* A client logs the queries it sends, a server that it is ready. *)
psql_logs(type) == type = IF side = "psqlc" THEN "Q" ELSE "Z"

psql_startup(s, h) == [s EXCEPT !.gotStartup = TRUE, !.todo = h.size]

psql_header(s, h) == [s EXCEPT !.type = h.type, !.gotHeader = TRUE, !.todo = h.size]

speak_psql(s, len, h) ==
  CASE s.todo > 0 -> IF WaitsFor(s, len) THEN More(s)
                     ELSE Took(Min(len, s.todo), psql_body(s, Min(len, s.todo)))
    [] s.todo = 0 /\ ~s.gotStartup ->
         IF len < STARTUP THEN More(s) ELSE Took(STARTUP, psql_startup(s, h))
    [] s.todo = 0 /\ s.gotStartup /\ ~s.gotHeader ->
         IF len < HDR THEN More(s)
         ELSE [ret |-> HDR, tell |-> psql_logs(h.type), st |-> psql_header(s, h)]
    [] OTHER -> More(s)

(* Mutant: the most significant byte comes first. *)
get_mysql_size_reversed(n) ==
  (n % BYTE) * BYTE * BYTE + ((n \div BYTE) % BYTE) * BYTE + (n \div (BYTE * BYTE))

(* As a signed char. *)
negative(b) == 2 * b >= BYTE

(* Three bytes, least significant first, each a signed char that is        *)
(* extended to an int before they are or-ed together.                      *)
get_mysql_size(n) ==
  LET b0 == n % BYTE
      b1 == (n \div BYTE) % BYTE
      b2 == n \div (BYTE * BYTE)
  IN  IF negative(b0) THEN UINT - BYTE + b0
      ELSE IF negative(b1) THEN UINT - BYTE * BYTE + b1 * BYTE + b0
      ELSE IF negative(b2) THEN UINT - BYTE * BYTE * BYTE + n
      ELSE n

speak_mysql(s, len, h) ==
  CASE s.todo > 0 -> Took(Min(len, s.todo), [s EXCEPT !.todo = @ - Min(len, s.todo)])
    [] s.todo = 0 /\ len < HDR -> More(s)
    [] OTHER -> [ret |-> HDR, tell |-> TRUE,
                 st |-> [s EXCEPT !.todo = get_mysql_size(h.size)]]

(* gotHeader is success, todo is conlen + padlen. *)
fcgi_header(s, h) ==
  [s EXCEPT !.gotHeader = h.size > 0, !.todo = h.size, !.done = (h.type = "O")]

speak_fcgi(s, len, h) ==
  CASE s.done -> Took(len, s)
    [] ~s.done /\ ~s.gotHeader ->
         IF len < HDR THEN More(s)
         ELSE [ret |-> HDR, tell |-> h.type \in {"B", "O"}, st |-> fcgi_header(s, h)]
    [] ~s.done /\ s.gotHeader /\ len >= s.todo ->
         Took(s.todo, [s EXCEPT !.gotHeader = FALSE, !.todo = 0])
    [] OTHER -> Took(len, s)

pp_write(s, len, h) ==
  CASE side \in {"psqlc", "psqls"} -> speak_psql(s, len, h)
    [] side = "mysql" -> speak_mysql(s, len, h)
    [] side = "fcgi"  -> speak_fcgi(s, len, h)

-----------------------------------------------------------------------------
(* vwrite_req() *)

(* Whether byte b is in the body of a message, and not the last of it. *)
InsideBody(b) ==
  \E k \in 1..Len(stream) : StartOf[k] + HeaderLen(k) <= b /\ b < StartOf[k + 1] - 1

(* The application writes the next n bytes.  wbuf has room for them: that  *)
(* the code copies them without looking is modelled in Http.               *)
write(n) ==
  /\ ~inloop /\ written + n <= Total
  /\ side \in Splits \/ ~InsideBody(written + n)
  /\ written' = written + n
  /\ wbuf' = wbuf \o [j \in 1..n |-> written + j]
  /\ inloop' = TRUE
  /\ UNCHANGED <<side, stream, wbufofs, st, heard>>

(* Mutant: what is left over stays where it is. *)
Rest_unmoved == SubSeq(wbuf, 1, Len(wbuf) - wbufofs)

(* memmove() of what is left over. *)
Rest == SubSeq(wbuf, wbufofs + 1, Len(wbuf))

vwrite_req_empty ==
  /\ inloop /\ wbufofs = Len(wbuf)
  /\ wbuf' = Rest /\ wbufofs' = 0 /\ inloop' = FALSE
  /\ UNCHANGED <<side, stream, written, st, heard>>

vwrite_req_call ==
  /\ inloop /\ wbufofs < Len(wbuf)
  /\ LET first == wbuf[wbufofs + 1]
         vlen  == Len(wbuf) - wbufofs
     IN  \E h \in HeadersAt(first) :
           LET p == pp_write(st, vlen, h)
           IN  /\ st' = p.st
               /\ heard' = IF p.tell THEN Append(heard, MessageAt(first)) ELSE heard
               /\ IF p.ret > 0
                  THEN wbufofs' = wbufofs + p.ret /\ UNCHANGED <<wbuf, inloop>>
                  ELSE wbuf' = Rest /\ wbufofs' = 0 /\ inloop' = FALSE
  /\ UNCHANGED <<side, stream, written>>

-----------------------------------------------------------------------------
FramingInit ==
  /\ side \in Sides /\ stream \in StreamsOf(side)
  /\ written = 0 /\ wbuf = << >> /\ wbufofs = 0 /\ inloop = FALSE
  /\ st = [gotStartup |-> side # "psqlc", gotHeader |-> FALSE, type |-> "none",
           todo |-> 0, done |-> FALSE]
  /\ heard = << >>

FramingNext == (\E n \in 1..MaxWrite : write(n)) \/ vwrite_req_empty \/ vwrite_req_call

FramingSpec == FramingInit /\ [][FramingNext]_framing_vars

-----------------------------------------------------------------------------
(* Properties *)

(* What the processors understand: no empty message of PostgreSQL, no      *)
(* MySQL length with a byte that a signed char takes for negative, and no  *)
(* write() that ends inside the body of a FastCGI record, of which         *)
(* speak_fcgi() forgets how much it has taken.                             *)
Regular ==
  /\ \A a \in Sides \cap {"psqlc", "psqls"} : 0 \notin Sizes[a]
  /\ "mysql" \in Sides =>
       \A n \in Sizes["mysql"] : /\ ~negative(n % BYTE)
                                 /\ ~negative((n \div BYTE) % BYTE)
                                 /\ ~negative(n \div (BYTE * BYTE))
  /\ "fcgi" \notin Splits

(* Bytes of the stream the processor has taken. *)
Taken == written - (Len(wbuf) - wbufofs)

(* The processor is in step with the stream: it looks for a header only at *)
(* the start of a message, and in a body it knows how much is left of it,  *)
(* wherever the writes cut and join the messages (speak_psql(),            *)
(* speak_mysql()); speak_fcgi() if they cut no body.                       *)
InStep ==
  st.done \/ \E k \in 1..Len(stream) + 1 : Taken + 1 + st.todo = StartOf[k]

(* Between two calls of write(), vwrite_req() keeps nothing but what is    *)
(* unfinished: no message that was written completely is left in wbuf,     *)
(* which would not be shown again before the next write(), and what is     *)
(* left is part of a header, or of a query, which may be of any size: that *)
(* it may not fit into wbuf is not said here.                              *)
NothingPending ==
  ~inloop =>
    /\ \A k \in 1..Len(stream) : StartOf[k + 1] - 1 <= written => StartOf[k + 1] - 1 <= Taken
    /\ \/ Len(wbuf) < IF st.gotStartup THEN HDR ELSE STARTUP
       \/ st.type = "Q" /\ Len(wbuf) < st.todo

(* The messages the processor is to log: every packet of MySQL, the        *)
(* queries or the readiness of PostgreSQL, the begin, the end and the      *)
(* first output of FastCGI.                                                *)
Notable(k) ==
  \/ side = "mysql"
  \/ side = "psqlc" /\ stream[k].type = "Q" /\ k > 1
  \/ side = "psqls" /\ stream[k].type = "Z"
  \/ /\ side = "fcgi" /\ stream[k].type \in {"B", "O"}
     /\ \A j \in 1..k-1 : stream[j].type # "O"

(* Each of them is logged once, in order, when its header is written.      *)
HeardAll ==
  /\ \A i, j \in 1..Len(heard) : i < j => heard[i] < heard[j]
  /\ {heard[i] : i \in 1..Len(heard)}
       = {k \in 1..Len(stream) : Notable(k) /\ StartOf[k] <= Taken}
==============================================================================
