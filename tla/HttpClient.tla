----------------------------- MODULE HttpClient -----------------------------
(***************************************************************************)
(* source/httpclient/httpclient.c: an HTTP/1.1 client over one TCP         *)
(* connection.  A client, its server, and the bytes under way between      *)
(* them; the server may die in the middle of an answer, and a receive may  *)
(* return any number of bytes, time out or find the connection closed.     *)
(*                                                                         *)
(* The client is one thread: its calls are cut into steps only at receives *)
(* and at the iterations of loops.  A byte is a pair of a kind and a       *)
(* value: the text of a header line is one byte, so is a digit of a chunk  *)
(* size, and CR and LF are bytes, since a receive may cut between them.    *)
(* Bytes of a body are numbered, so that loss and order are visible.       *)
(* Transport security is compiled out: to connect to an https URL fails.   *)
(***************************************************************************)
EXTENDS Integers, Sequences, FiniteSets, SequencesExt

CONSTANTS
  Responses,      \* the answers of the server: code, kind, parts, pad
  HeaderBufLen,   \* header_buf_len
  Settings,       \* what the application gives: response_buf_len, the length of
                  \* its custom header, whether there is data to post
  SendBufSize,    \* HTTPCLIENT_SEND_BUF_SIZE
  RedirectMax,    \* HTTPCLIENT_REDIRECT_MAX
  MaxRequests     \* bound: the requests the server answers

ChunkSizeStrLen == 6    \* HTTPCLIENT_CHUNK_SIZE_STR_LEN
MaxStatusLine == 3      \* status line: its text, CR, LF

\* How an answer announces its body; "unspaced" is a length in a header line
\* that has no space behind its colon, which HTTP allows.
Kinds == {"length", "unspaced", "chunked", "close", "redirect"}

ASSUME ConstantsAssumption ==
  /\ Responses \subseteq [code : Nat \ {0}, kind : Kinds, parts : Seq(Seq(Nat)), pad : Nat]
  \* RFC 9112: the chunk of size 0 is the last
  /\ \A r \in Responses : r.kind = "chunked" => <<>> \notin ToSet(r.parts)
  /\ HeaderBufLen \in Nat /\ HeaderBufLen > MaxStatusLine
  /\ Settings \subseteq [bufLen : {n \in Nat : n >= 4}, header : Nat, post : BOOLEAN]
  /\ SendBufSize \in Nat \ {0}
  /\ RedirectMax \in Nat /\ MaxRequests \in Nat

VARIABLES
  \* httpclient_t; a socket that was closed by a failed connect is stale
  socket, responseCode, redirectTimes,
  \* httpclient_data_t; responseBuf has the first content_block_len bytes of
  \* response_buf, bufLen is its length, headerBuf is header_buf from data on
  isMore, isChunked, retrieveLen, contentLen, responseBuf, bufLen, headerBuf,
  hasPost, header,
  \* the call: where it is, the bytes at data that are not yet looked at, the
  \* request it sends, whether it is one of the calls that do everything,
  \* whether a send follows the connect and a receive the send, what it returned
  pc, pending, method, high, chained, result,
  \* how far the application is with its connection
  stage,
  \* the network and the server
  wire, peerClosed, got,
  \* history: requests answered, the last answer, its bytes given to the
  \* application, and what has happened that explains an error
  answered, response, delivered, excuses

client  == <<socket, responseCode, redirectTimes>>
data    == <<isMore, isChunked, retrieveLen, contentLen, responseBuf, headerBuf>>
given   == <<bufLen, hasPost, header>>
request == <<method, high, chained>>
net     == <<wire, peerClosed, got>>
history == <<answered, response, excuses>>
vars == <<client, data, given, pc, pending, request, result, stage, net, history, delivered>>

-----------------------------------------------------------------------------
(* Bytes                                                                   *)

CR == <<"cr", 0>>
LF == <<"lf", 0>>
CRLF == <<CR, LF>>
Hex(n) == <<"hex", n>>

None == [code |-> 0, kind |-> "close", parts |-> <<>>, pad |-> 0]

Data(part) == [i \in DOMAIN part |-> <<"data", part[i]>>]

\* The body of an answer: the bytes of its parts.
Body(r) == Data(FlattenSeq(r.parts))

\* The size line of a chunk, after pad zeros.
SizeLine(r, n) == [i \in 1..r.pad |-> Hex(0)] \o <<Hex(n)>> \o CRLF

\* What the server sends: status line, one header line, the body.
Wire(r) ==
  LET head(line) == <<<<"status", r.code>>>> \o CRLF \o line \o CRLF IN
  CASE r.kind \in {"length", "unspaced"}
                           -> head(<<<<r.kind, Len(Body(r))>>>> \o CRLF) \o Body(r)
    [] r.kind = "close"    -> head(<<<<"other", 0>>>> \o CRLF) \o Body(r)
    [] r.kind = "redirect" -> head(<<<<"location", 0>>>> \o CRLF)
    [] r.kind = "chunked"  -> head(<<<<"chunked", 0>>>> \o CRLF)
         \o FlattenSeq([i \in DOMAIN r.parts |->
              SizeLine(r, Len(r.parts[i])) \o Data(r.parts[i]) \o CRLF])
         \o SizeLine(r, 0) \o CRLF

Least(m, n) == IF m <= n THEN m ELSE n
Take(s, n) == SubSeq(s, 1, Least(n, Len(s)))
Drop(s, n) == SubSeq(s, n + 1, Len(s))

\* The offset of the first CRLF of s among the first n, or -1.
FindCrlf(s, n) ==
  LET P == {p \in 0..n-1 : p + 2 <= Len(s) /\ SubSeq(s, p + 1, p + 2) = CRLF}
  IN IF P = {} THEN -1 ELSE CHOOSE p \in P : \A q \in P : p <= q

-----------------------------------------------------------------------------
Init ==
  /\ socket = "none" /\ responseCode = 0 /\ redirectTimes = 0
  /\ isMore = FALSE /\ isChunked = FALSE /\ retrieveLen = 0 /\ contentLen = 0
  /\ responseBuf = <<>> /\ headerBuf = <<>>
  /\ \E g \in Settings : bufLen = g.bufLen /\ header = g.header /\ hasPost = g.post
  /\ pc = "idle" /\ pending = <<>> /\ method = "GET" /\ high = FALSE
  /\ chained = FALSE /\ result = "OK" /\ stage = "closed"
  /\ wire = <<>> /\ peerClosed = FALSE /\ got = <<>>
  /\ answered = 0 /\ response = None /\ delivered = <<>> /\ excuses = {}

\* The call returns r to the application, or to httpclient_common, which closes.
Return(r, next) ==
  /\ result' = r
  /\ pc' = IF high THEN "close" ELSE "idle"
  /\ stage' = next
  /\ UNCHANGED <<method, high>>
  /\ chained' = FALSE

Fail(r) == Return(r, "failed") /\ UNCHANGED delivered

\* A receive returns content: what the buffer holds is the application's.
Give(r, next, block) == Return(r, next) /\ delivered' = delivered \o block

\* The call goes on at w.
Go(w) == pc' = w /\ UNCHANGED <<request, result, stage, delivered>>

\* What httpclient_recv can return when it asks for at least min and at most
\* max bytes: how many it has got, and its result.
httpclient_recv(min, max) ==
  LET most == Least(max, Len(wire)) IN
  {<<n, "OK">> : n \in {k \in 0..most : k >= Least(min, max)}}
    \cup {<<n, "ERROR_CONN">> : n \in {k \in 0..most : k < Least(min, max)}}
    \cup {<<n, "CLOSED">> : n \in {k \in 0..most : k < Least(min, max) /\ k = Len(wire) /\ peerClosed}}

\* The bytes of a receive leave the wire.
Received(n) == wire' = Drop(wire, n) /\ UNCHANGED <<peerClosed, got>>

\* The results on which the callers of httpclient_recv give up.
GivesUp(n, ret) == ret = "ERROR_CONN" \/ (ret = "CLOSED" /\ n = 0)

-----------------------------------------------------------------------------
(* Connecting and closing                                                  *)

\* The application begins with fresh data: a connection of its own, or one of
\* httpclient_get, _post, _put and _delete.
Begin(all, m) ==
  /\ pc = "idle" /\ stage = "closed"
  /\ pc' = "connect" /\ high' = all /\ chained' = all /\ method' = m
  /\ isMore' = FALSE /\ isChunked' = FALSE /\ retrieveLen' = 0 /\ contentLen' = 0
  /\ responseBuf' = <<>> /\ headerBuf' = <<>>
  /\ pending' = <<>> /\ result' = "OK"
  /\ delivered' = <<>> /\ response' = None /\ excuses' = {}
  /\ UNCHANGED <<client, given, stage, net, answered>>

\* The socket that is left: an address of the host answers; or there is none, or
\* no socket for the last; or the last refuses, and its closed socket stays.
httpclient_conn == {"open", "none", "stale"}

httpclient_connect ==
  /\ pc = "connect"
  /\ wire' = <<>> /\ peerClosed' = FALSE /\ got' = <<>>
  /\ socket' \in httpclient_conn
  /\ \/ socket' = "open" /\ chained /\ Go("send")
     \/ socket' = "open" /\ ~chained /\ Return("OK", "ready") /\ UNCHANGED delivered
     \/ socket' # "open" /\ Fail("ERROR_CONN")
  /\ UNCHANGED <<responseCode, redirectTimes, data, given, pending, history>>

\* httpclient_close, called by the application or at the end of httpclient_common.
httpclient_close ==
  /\ \/ pc = "close"
     \/ pc = "idle" /\ stage \in {"ready", "asked", "failed"}
  /\ socket' = "none" /\ pc' = "idle" /\ stage' = "closed" /\ high' = FALSE
  /\ wire' = <<>> /\ peerClosed' = FALSE /\ got' = <<>>
  /\ UNCHANGED <<responseCode, redirectTimes, data, given, pending, method, chained,
                 result, history, delivered>>

-----------------------------------------------------------------------------
(* Sending                                                                 *)

Part(name, n) == [i \in 1..n |-> <<name, i>>]

\* The parts of a request: request line and host, custom header, the length of
\* the data to post, the end of the headers.
RequestLine == Part("line", 2)
CustomHeader == Part("header", header)
Announced == IF hasPost THEN Part("announce", 1) ELSE <<>>
EndOfHeaders == Part("end", 1)

\* Mutant: the buffer counts as full one byte early.
httpclient_get_info_Mutant(s, part) ==
  IF Len(s.buf) + Len(part) < SendBufSize - 1 THEN [s EXCEPT !.buf = @ \o part, !.ok = TRUE]
  ELSE [s EXCEPT !.sent = @ \o Take(s.buf \o part, SendBufSize), !.ok = FALSE]

\* A part is put behind what the send buffer holds.  A buffer that gets full
\* is sent, but the number of bytes sent is taken for an error: the rest of
\* the part is not put anywhere and the index stays where it was.
httpclient_get_info(s, part) ==
  IF Len(s.buf) + Len(part) < SendBufSize THEN [s EXCEPT !.buf = @ \o part, !.ok = TRUE]
  ELSE [s EXCEPT !.sent = @ \o Take(s.buf \o part, SendBufSize), !.ok = FALSE]

\* The buffer after each part; the length is announced only if there is data.
\* The results of all parts but the first are not looked at.
First == httpclient_get_info([buf |-> <<>>, sent |-> <<>>, ok |-> TRUE], RequestLine)
Second == httpclient_get_info(First, CustomHeader)
Third == IF hasPost THEN httpclient_get_info(Second, Announced) ELSE Second
Filled == httpclient_get_info(Third, EndOfHeaders)

\* The application asks for a request on its connection.
Ask(m) ==
  /\ pc = "idle" /\ stage = "ready"
  /\ pc' = "send" /\ method' = m
  /\ delivered' = <<>> /\ response' = None /\ got' = <<>>
  /\ UNCHANGED <<client, data, given, pending, high, chained, result, stage, wire,
                 peerClosed, answered, excuses>>

\* All the bytes are sent, or the connection fails.
httpclient_tcp_send_all(bytes) == {<<bytes, "OK">>, <<<<>>, "ERROR_CONN">>}

httpclient_send_header ==
  /\ pc = "send"
  /\ \/ /\ First.ok
        /\ \E r \in httpclient_tcp_send_all(Filled.buf) :
             /\ got' = Filled.sent \o r[1]
             /\ IF r[2] = "OK" THEN Go(IF method = "POST" THEN "userdata" ELSE "sent") ELSE Fail(r[2])
     \/ /\ ~First.ok
        /\ got' = Filled.sent
        /\ Fail("ERROR_CONN")
  /\ UNCHANGED <<client, data, given, pending, wire, peerClosed, history>>

\* httpclient_send_userdata: after the header of a POST or PUT.
httpclient_send_userdata ==
  /\ pc = "userdata"
  /\ \/ /\ hasPost
        /\ \E r \in httpclient_tcp_send_all(<<<<"post", 1>>>>) :
             /\ got' = got \o r[1]
             /\ IF r[2] = "OK" THEN Go("sent") ELSE Fail(r[2])
     \/ ~hasPost /\ Go("sent") /\ UNCHANGED got
  /\ UNCHANGED <<client, data, given, pending, wire, peerClosed, history>>

\* The request is sent; a receive follows at once, or when the application wants.
httpclient_send_request ==
  /\ pc = "sent"
  /\ IF chained THEN Go("recv") ELSE Return("OK", "asked") /\ UNCHANGED delivered
  /\ UNCHANGED <<client, data, given, pending, net, history>>

-----------------------------------------------------------------------------
(* Receiving: the header                                                   *)

\* httpclient_recv_response on a connection that owes an answer: more of a
\* body, or the first bytes of a header, which must hold the whole status line.
Receive ==
  /\ pc = "idle" /\ stage = "asked"
  /\ Go("recv")
  /\ UNCHANGED <<client, data, given, pending, net, history>>

\* Where httpclient_retrieve_content begins.
ContentStart(chunked, left, length) ==
  IF length = -1 /\ ~chunked THEN "until_close"
  ELSE IF chunked /\ left <= 0 THEN "chunk_line" ELSE "retrieve"

httpclient_recv_response ==
  /\ pc = "recv"
  /\ IF isMore
     THEN /\ responseBuf' = <<>> /\ pending' = <<>>
          /\ Go(ContentStart(isChunked, retrieveLen, contentLen))
          /\ UNCHANGED <<client, isMore, isChunked, retrieveLen, contentLen, headerBuf, net, excuses>>
     ELSE \E r \in httpclient_recv(1, HeaderBufLen - 1) :
          LET bytes == Take(wire, r[1])
              crlf == FindCrlf(bytes, r[1]) IN
          /\ Received(r[1])
          /\ contentLen' = IF r[1] > 0 THEN -1 ELSE contentLen
          /\ \/ r[1] = 0 /\ Fail(r[2])
                /\ UNCHANGED <<responseCode, isChunked, headerBuf, excuses>>
             \/ r[1] > 0 /\ (crlf # 1 \/ bytes[1][1] # "status") /\ Fail("ERROR_PRTCL")
                /\ excuses' = excuses \cup (IF r[1] < MaxStatusLine THEN {"split_status"} ELSE {})
                /\ UNCHANGED <<responseCode, isChunked, headerBuf>>
             \/ r[1] > 0 /\ crlf = 1 /\ bytes[1][1] = "status"
                /\ responseCode' = bytes[1][2] /\ isChunked' = FALSE
                /\ headerBuf' = Drop(bytes, crlf + 2)
                /\ Go("header") /\ UNCHANGED excuses
          /\ UNCHANGED <<socket, redirectTimes, isMore, retrieveLen, responseBuf, pending>>
  /\ UNCHANGED <<given, answered, response>>

\* httpclient_response_parse, a header line: if it is not there yet, more is
\* received into what the lines before have left free.
HeaderMore ==
  /\ pc = "header" /\ FindCrlf(headerBuf, Len(headerBuf)) = -1
  /\ \/ /\ Len(headerBuf) < HeaderBufLen - 1
        /\ \E r \in httpclient_recv(1, HeaderBufLen - Len(headerBuf) - 1) :
             /\ Received(r[1])
             /\ headerBuf' = headerBuf \o Take(wire, r[1])
             /\ IF GivesUp(r[1], r[2]) THEN Fail(r[2]) ELSE Go("header")
        /\ UNCHANGED excuses
     \/ /\ Len(headerBuf) >= HeaderBufLen - 1 /\ Fail("ERROR")
        /\ excuses' = excuses \cup {"long_header"}
        /\ UNCHANGED <<headerBuf, net>>
  /\ UNCHANGED <<client, isMore, isChunked, retrieveLen, contentLen, responseBuf, given, pending,
                 answered, response>>

\* strstr looks for ": " in all that has been received, not in the line: two
\* bytes of a body behind the line may be one.
TextFollows == \E i \in 2..Len(headerBuf)-1 :
                 headerBuf[i][1] = "data" /\ headerBuf[i+1][1] = "data"

\* A header line that is there: a length, a transfer encoding, or another, which
\* is what a line without a ": " of its own is taken for if there is one behind.
HeaderLine ==
  /\ pc = "header" /\ FindCrlf(headerBuf, Len(headerBuf)) = 1
  /\ LET line == headerBuf[1] IN
     /\ line[1] # "location"
     /\ line[1] = "unspaced" => TextFollows
     /\ contentLen' = CASE line[1] = "length" -> line[2] [] line[1] = "chunked" -> 0 [] OTHER -> contentLen
     /\ retrieveLen' = CASE line[1] = "length" -> line[2] [] line[1] = "chunked" -> 0 [] OTHER -> retrieveLen
     /\ isChunked' = (isChunked \/ line[1] = "chunked")
  /\ headerBuf' = Drop(headerBuf, 3)
  /\ Go("header")
  /\ UNCHANGED <<client, isMore, responseBuf, given, pending, net, history>>

\* A header line with no ": " in it, nor, as it happens, behind it.
HeaderBad ==
  /\ pc = "header" /\ FindCrlf(headerBuf, Len(headerBuf)) = 1
  /\ headerBuf[1][1] = "unspaced"
  /\ Fail("ERROR") /\ excuses' = excuses \cup {"unspaced"}
  /\ UNCHANGED <<client, data, given, pending, net, answered, response>>

\* The end of the headers: what is left of header_buf is moved to response_buf.
HeaderEnd ==
  /\ pc = "header" /\ FindCrlf(headerBuf, Len(headerBuf)) = 0
  /\ IF bufLen > Len(headerBuf) - 2 + 1
     THEN /\ responseBuf' = <<>> /\ pending' = Drop(headerBuf, 2) /\ headerBuf' = <<>>
          /\ isMore' = TRUE
          /\ Go(ContentStart(isChunked, retrieveLen, contentLen))
          /\ UNCHANGED excuses
     ELSE /\ Fail("ERROR") /\ excuses' = excuses \cup {"long_header"}
          /\ UNCHANGED <<responseBuf, pending, headerBuf, isMore>>
  /\ UNCHANGED <<client, isChunked, retrieveLen, contentLen, given, net, answered, response>>

\* httpclient_redirect: a GET of the location on a new connection, with the
\* same data; its answer is the answer of this call.
httpclient_redirect ==
  /\ pc = "header" /\ FindCrlf(headerBuf, Len(headerBuf)) = 1
  /\ headerBuf[1][1] = "location"
  /\ \/ /\ responseCode \in {301, 302} /\ redirectTimes < RedirectMax
        /\ redirectTimes' = redirectTimes + 1
        /\ socket' = "none" /\ wire' = <<>> /\ peerClosed' = FALSE /\ got' = <<>>
        /\ isMore' = FALSE /\ retrieveLen' = 0
        /\ pc' = "connect" /\ method' = "GET" /\ chained' = TRUE
        /\ response' = None /\ excuses' = {}
        /\ UNCHANGED <<high, result, stage, delivered>>
     \/ /\ responseCode \notin {301, 302} \/ redirectTimes >= RedirectMax
        /\ Fail("ERROR") /\ excuses' = excuses \cup {"no_redirect"}
        /\ UNCHANGED <<socket, redirectTimes, net, isMore, retrieveLen, response>>
  /\ UNCHANGED <<responseCode, isChunked, contentLen, responseBuf, headerBuf, given, pending, answered>>

-----------------------------------------------------------------------------
(* Receiving: the content.  responseBuf are the count bytes before data,    *)
(* pending the len bytes at data.                                           *)

Count == Len(responseBuf)

\* The bytes that fit into response_buf, without its terminating null.
Room == bufLen - 1 - Count

\* A body that ends with the connection.
UntilClose ==
  /\ pc = "until_close"
  /\ \/ /\ Len(pending) < Room
        /\ responseBuf' = responseBuf \o pending
        /\ \E r \in httpclient_recv(1, Room - Len(pending)) :
             /\ Received(r[1])
             /\ pending' = Take(wire, r[1])
             /\ isMore' = (r[2] = "ERROR_CONN" \/ r[1] > 0)
             /\ \/ r[2] = "ERROR_CONN" /\ Fail(r[2])
                \/ r[2] # "ERROR_CONN" /\ r[1] = 0 /\ Give("OK", "ready", responseBuf \o pending)
                \/ r[2] # "ERROR_CONN" /\ r[1] > 0 /\ Go(pc)
     \/ /\ Len(pending) >= Room
        /\ responseBuf' = responseBuf \o Take(pending, Room)
        /\ pending' = <<>>
        /\ Give("MORE", "asked", responseBuf \o Take(pending, Room))
        /\ UNCHANGED <<isMore, net>>
  /\ UNCHANGED <<client, isChunked, retrieveLen, contentLen, headerBuf, given, history>>

\* What a chunk line may take of response_buf beyond the bytes before it.
LineRoom == bufLen - Count - 1 + 3

\* The size in a chunk line: the number its leading digits make, or -1.
ChunkSize(line) ==
  LET value[i \in 0..Len(line)] ==
        IF i = 0 THEN 0
        ELSE IF line[i][1] = "hex" THEN 16 * value[i-1] + line[i][2] ELSE value[i-1]
  IN IF line = <<>> \/ line[1][1] # "hex" THEN -1 ELSE value[Len(line)]

\* Mutant: the byte that must follow the CRLF need not be there, and what was
\* read beyond the line is taken for part of it.
ChunkLine_Mutant ==
  /\ pc = "chunk_line"
  /\ LET crlf == FindCrlf(pending, Len(pending) - 2)
         size == ChunkSize(Take(pending, crlf)) IN
     /\ crlf # -1
     /\ pending' = <<>>
     /\ retrieveLen' = IF size = -1 THEN 0 ELSE size
     /\ contentLen' = contentLen + retrieveLen'
     /\ isMore' = (size # 0)
     /\ excuses' = excuses
     /\ \/ size = -1 /\ Fail("ERROR_PRTCL")
        \/ size = 0 /\ Give("OK", "ready", responseBuf)
        \/ size > 0 /\ Go("retrieve")
  /\ UNCHANGED <<client, isChunked, responseBuf, headerBuf, given, net, answered, response>>

\* A chunk line is there, and a byte behind it.  After the last chunk the call
\* is over, whether the CRLF that ends the body has been received or not.
ChunkLine ==
  /\ pc = "chunk_line"
  /\ LET crlf == FindCrlf(pending, Len(pending) - 2)
         size == ChunkSize(Take(pending, crlf)) IN
     /\ crlf # -1
     /\ pending' = IF size = -1 THEN pending ELSE Drop(pending, crlf + 2)
     /\ retrieveLen' = IF size = -1 THEN 0 ELSE size
     /\ contentLen' = contentLen + retrieveLen'
     /\ isMore' = (size # 0)
     /\ excuses' = excuses \cup (IF size = 0 /\ Len(pending) < crlf + 4 THEN {"unread_crlf"} ELSE {})
     /\ \/ size = -1 /\ Fail("ERROR_PRTCL")
        \/ size = 0 /\ Give("OK", "ready", responseBuf)
        \/ size > 0 /\ Go("retrieve")
  /\ UNCHANGED <<client, isChunked, responseBuf, headerBuf, given, net, answered, response>>

\* Mutant: nothing is asked of the space before a chunk line.
ChunkLineMore_Mutant ==
  /\ pc = "chunk_line" /\ FindCrlf(pending, Len(pending) - 2) = -1
  /\ \E r \in httpclient_recv(1, LineRoom - Len(pending)) :
       /\ Received(r[1])
       /\ pending' = pending \o Take(wire, r[1])
       /\ IF GivesUp(r[1], r[2]) THEN Fail(r[2]) ELSE Go(pc)
  /\ UNCHANGED <<client, data, given, history>>

\* No chunk line yet: more is received, unless response_buf is full.
ChunkLineMore ==
  /\ pc = "chunk_line" /\ FindCrlf(pending, Len(pending) - 2) = -1
  /\ \/ /\ LineRoom < ChunkSizeStrLen
        /\ IF pending = <<>> THEN Give("MORE", "asked", responseBuf) ELSE Fail("ERROR")
        /\ UNCHANGED <<pending, net>>
     \/ /\ LineRoom >= ChunkSizeStrLen
        /\ \E r \in httpclient_recv(1, LineRoom - Len(pending)) :
             /\ Received(r[1])
             /\ pending' = pending \o Take(wire, r[1])
             /\ IF GivesUp(r[1], r[2]) THEN Fail(r[2]) ELSE Go(pc)
  /\ UNCHANGED <<client, data, given, history>>

\* The bytes of a chunk or of a body of known length: the buffer gets full and
\* the rest is for the next call, or all of it is there, or more is received.
RetrieveFull ==
  /\ pc = "retrieve" /\ Least(Len(pending), retrieveLen) >= Room
  /\ responseBuf' = responseBuf \o Take(pending, Room)
  /\ retrieveLen' = retrieveLen - Room
  /\ excuses' = excuses \cup (IF isChunked /\ retrieveLen = Room THEN {"full_at_end_of_chunk"} ELSE {})
  /\ Give("MORE", "asked", responseBuf \o Take(pending, Room))
  /\ UNCHANGED <<client, isMore, isChunked, contentLen, headerBuf, given, pending, net, answered, response>>

RetrieveEnd ==
  /\ pc = "retrieve" /\ retrieveLen < Room /\ Len(pending) >= retrieveLen
  /\ responseBuf' = responseBuf \o Take(pending, retrieveLen)
  /\ pending' = Drop(pending, retrieveLen) /\ retrieveLen' = 0
  /\ IF isChunked THEN Go("chunk_end") /\ UNCHANGED isMore
     ELSE Give("OK", "ready", responseBuf \o Take(pending, retrieveLen)) /\ isMore' = FALSE
  /\ UNCHANGED <<client, isChunked, contentLen, headerBuf, given, net, history>>

RetrieveMore ==
  /\ pc = "retrieve" /\ Len(pending) < Room /\ Len(pending) < retrieveLen
  /\ responseBuf' = responseBuf \o pending
  /\ retrieveLen' = retrieveLen - Len(pending)
  /\ \E r \in httpclient_recv(1, Least(Room, retrieveLen) - Len(pending)) :
       /\ Received(r[1])
       /\ pending' = Take(wire, r[1])
       /\ IF GivesUp(r[1], r[2]) THEN Fail(r[2]) ELSE Go(pc)
  /\ UNCHANGED <<client, isMore, isChunked, contentLen, headerBuf, given, history>>

\* Mutant: the receive for the CRLF takes all that there is space for.
ChunkEnd_Mutant ==
  /\ pc = "chunk_end"
  /\ LET len == Len(pending) IN
     \E r \in IF len < 2 THEN httpclient_recv(2 - len, Room - len + 2) ELSE {<<0, "OK">>} :
       LET bytes == pending \o Take(wire, r[1]) IN
       /\ Received(r[1])
       /\ \/ len < 2 /\ GivesUp(r[1], r[2]) /\ Fail(r[2]) /\ UNCHANGED pending
          \/ ~(len < 2 /\ GivesUp(r[1], r[2])) /\ Take(bytes, 2) = CRLF
             /\ pending' = Drop(bytes, 2) /\ Go("chunk_line")
          \/ ~(len < 2 /\ GivesUp(r[1], r[2])) /\ Take(bytes, 2) # CRLF
             /\ pending' = bytes /\ Fail("ERROR_PRTCL")
  /\ UNCHANGED <<client, data, given, history>>

\* The CRLF behind a chunk; if it is not there yet it is received, and with it
\* what comes behind if there is room for a chunk line.
ChunkEnd ==
  /\ pc = "chunk_end"
  /\ LET len == Len(pending)
         missing == 2 - len
         room == Room - len + 2
         max == IF room + len < 2 + ChunkSizeStrLen THEN missing ELSE room IN
     \E r \in IF len < 2 THEN httpclient_recv(missing, max) ELSE {<<0, "OK">>} :
       LET bytes == pending \o Take(wire, r[1]) IN
       /\ Received(r[1])
       /\ \/ len < 2 /\ GivesUp(r[1], r[2]) /\ Fail(r[2]) /\ UNCHANGED pending
          \/ ~(len < 2 /\ GivesUp(r[1], r[2])) /\ Take(bytes, 2) = CRLF
             /\ pending' = Drop(bytes, 2) /\ Go("chunk_line")
          \/ ~(len < 2 /\ GivesUp(r[1], r[2])) /\ Take(bytes, 2) # CRLF
             /\ pending' = bytes /\ Fail("ERROR_PRTCL")
  /\ UNCHANGED <<client, data, given, history>>

-----------------------------------------------------------------------------
(* The server                                                              *)

Sent(name) == \E i \in DOMAIN got : got[i][1] = name

\* It has read a request to its end: if a length was announced, the data too.
RequestComplete == Sent("end") /\ (Sent("announce") => Sent("post"))

\* It answers, once, and closes if nothing else ends the body.
Answer(r) ==
  /\ socket = "open" /\ ~peerClosed /\ RequestComplete /\ response = None
  /\ answered < MaxRequests
  /\ response' = r /\ answered' = answered + 1
  /\ wire' = wire \o Wire(r)
  /\ peerClosed' = (r.kind = "close")
  /\ UNCHANGED <<client, data, given, pc, pending, request, result, stage, got, delivered, excuses>>

\* It dies: what is under way is cut anywhere.
Die ==
  /\ socket = "open" /\ ~peerClosed
  /\ \E n \in 0..Len(wire) : wire' = Take(wire, n)
  /\ peerClosed' = TRUE
  /\ excuses' = excuses \cup {"died"}
  /\ UNCHANGED <<client, data, given, pc, pending, request, result, stage, got, answered, response, delivered>>

-----------------------------------------------------------------------------
Content == \/ UntilClose
           \/ ChunkLine
           \/ ChunkLineMore
           \/ RetrieveFull
           \/ RetrieveEnd
           \/ RetrieveMore
           \/ ChunkEnd

Header == \/ httpclient_recv_response
          \/ HeaderMore
          \/ HeaderLine
          \/ HeaderBad
          \/ HeaderEnd
          \/ httpclient_redirect

\* A call goes on.
Call == \/ httpclient_connect
        \/ httpclient_send_header
        \/ httpclient_send_userdata
        \/ httpclient_send_request
        \/ Header
        \/ Content
        \/ pc = "close" /\ httpclient_close

Next == \/ Call
        \/ \E all \in BOOLEAN, m \in {"GET", "POST"} : Begin(all, m)
        \/ \E m \in {"GET", "POST"} : Ask(m)
        \/ Receive
        \/ pc = "idle" /\ httpclient_close
        \/ \E r \in Responses : Answer(r)
        \/ Die

Spec == Init /\ [][Next]_vars

\* A call that has begun goes on: each receive ends, if only by its timeout
\* (SO_RCVTIMEO).  Neither the application nor the server need do anything.
FairSpec == Spec /\ WF_vars(Call)

-----------------------------------------------------------------------------
(* Properties                                                              *)

\* The application gets the bytes of the body in order, none lost and none
\* twice, however they are cut on their way and whatever fits into its buffer;
\* and when it is told that there is no more, it has them all, unless the
\* server died while only the end of the connection could end the body, or
\* could for the client, which has not seen a length without a space before it.
BodyDelivered ==
  /\ IsPrefix(delivered, Body(response))
  /\ pc = "idle" /\ stage = "ready" /\ response # None
       => \/ delivered = Body(response)
          \/ response.kind \in {"close", "unspaced"} /\ "died" \in excuses

\* An answer in order is not taken for an error of the server, but in the cases
\* in which the code does this: a status line in more than one segment; a
\* header, or a header and the beginning of a body, that is too long for the
\* buffers; a header line without a space behind its colon; a redirection too
\* many; a receive that ended before the CRLF behind the last chunk, so that it
\* is found before the next answer; and a response buffer that gets full with the
\* last byte of a chunk, so that the CRLF behind it is taken for a size line.
ErrorsHaveReasons == result \in {"ERROR_PRTCL", "ERROR"} => excuses # {}

\* What the server has got when a request is sent is the request, if it is
\* shorter than the send buffer.
RequestArrives ==
  LET asked == RequestLine \o CustomHeader \o Announced \o EndOfHeaders
      posted == IF method = "POST" /\ hasPost THEN <<<<"post", 1>>>> ELSE <<>> IN
  pc = "sent" /\ Len(asked) < SendBufSize => got = asked \o posted

\* A chunk line that is longer than the space at the end of the response buffer.
LineTooLong ==
  /\ pc = "chunk_line" /\ Len(pending) = LineRoom /\ LineRoom >= ChunkSizeStrLen
  /\ FindCrlf(pending, Len(pending) - 2) = -1

\* A call returns, also from servers that redirect to each other for ever, but
\* for a chunk line that does not fit: then it receives nothing, for ever.
CallsReturn == pc # "idle" ~> pc = "idle" \/ LineTooLong
=============================================================================
