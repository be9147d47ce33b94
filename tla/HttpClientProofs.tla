--------------------------- MODULE HttpClientProofs ---------------------------
(***************************************************************************)
(* That the requests of HttpClient arrive as they were asked for, that the *)
(* bodies of the answers are delivered, and that errors have reasons: for  *)
(* all answers and settings, and all sizes of the buffers.                 *)
(*                                                                         *)
(* The proof of the last two follows the position in the answer: at each   *)
(* place of a call, what is in the buffers and then on the connection is   *)
(* what the answer has from some position on, and the position fits what   *)
(* the client believes of the bytes and chunks that are left (IInv).       *)
(***************************************************************************)
EXTENDS HttpClient, DataLemmas, TLAPS

\* What RequestArrives calls asked and posted.
Asked == RequestLine \o CustomHeader \o Announced \o EndOfHeaders
Posted == IF method = "POST" /\ hasPost THEN <<<<"post", 1>>>> ELSE <<>>

\* What the application gave with its data is never changed.
GivenInv == bufLen \in Nat /\ bufLen >= 4 /\ header \in Nat /\ hasPost \in BOOLEAN

\* Before the data of a POST the server has the header and nothing else; then
\* it has all of the request.
SendingInv ==
  /\ pc = "userdata" => method = "POST"
  /\ pc = "userdata" /\ Len(Asked) < SendBufSize => got = Asked
  /\ pc = "sent" /\ Len(Asked) < SendBufSize => got = Asked \o Posted

-----------------------------------------------------------------------------
\* A byte is a kind and a value.
Names == {"cr", "lf", "hex", "data", "status", "length", "unspaced", "chunked", "other",
          "location", "line", "header", "announce", "end", "post"}
Byte == Names \X Int

\* The pairs that are bytes.
LEMMA Pairs == \A k \in Names, v \in Int : <<k, v>> \in Byte
BY DEF Byte

\* A part is as long as it says.
LEMMA PartType ==
  ASSUME NEW name \in Names, NEW n \in Nat
  PROVE  Part(name, n) \in Seq(Byte) /\ Len(Part(name, n)) = n
<1>1. \A i \in 1..n : i \in Int
  OBVIOUS
<1>2. \A i \in 1..n : <<name, i>> \in Byte
  BY <1>1, Pairs
<1>3. [i \in 1..n |-> <<name, i>>] \in [1..n -> Byte]
  BY <1>2
<1> QED BY <1>3 DEF Part

\* The parts of a request and their lengths.
LEMMA PartsType ==
  ASSUME GivenInv
  PROVE  /\ RequestLine \in Seq(Byte) /\ CustomHeader \in Seq(Byte)
         /\ Announced \in Seq(Byte) /\ EndOfHeaders \in Seq(Byte)
         /\ ~hasPost => Announced = <<>>
<1>1. <<>> \in Seq(Byte)
  OBVIOUS
<1>2. "line" \in Names /\ "header" \in Names /\ "announce" \in Names /\ "end" \in Names
  BY DEF Names
<1>3. /\ Part("line", 2) \in Seq(Byte) /\ Part("header", header) \in Seq(Byte)
      /\ Part("announce", 1) \in Seq(Byte) /\ Part("end", 1) \in Seq(Byte)
  BY <1>2, PartType DEF GivenInv
<1> QED BY <1>1, <1>3 DEF RequestLine, CustomHeader, Announced, EndOfHeaders

\* httpclient_get_info puts a part that fits behind what the buffer holds.
LEMMA PartFits ==
  ASSUME NEW b, NEW part, Len(b) + Len(part) < SendBufSize
  PROVE  httpclient_get_info([buf |-> b, sent |-> <<>>, ok |-> TRUE], part)
           = [buf |-> b \o part, sent |-> <<>>, ok |-> TRUE]
BY DEF httpclient_get_info

\* A request that is shorter than the send buffer is in it as a whole.
LEMMA RequestFits ==
  ASSUME GivenInv, Len(Asked) < SendBufSize
  PROVE  First.ok /\ Filled.buf = Asked /\ Filled.sent = <<>>
<1> DEFINE a == RequestLine
           b == CustomHeader
           c == Announced
           d == EndOfHeaders
           ab == a \o b
           abc == ab \o c
           E == [buf |-> <<>>, sent |-> <<>>, ok |-> TRUE]
<1>1. /\ a \in Seq(Byte) /\ b \in Seq(Byte) /\ c \in Seq(Byte) /\ d \in Seq(Byte)
      /\ ~hasPost => c = <<>>
  BY PartsType
<1>2. SendBufSize \in Nat
  BY ConstantsAssumption
<1>3. Asked = abc \o d
  BY DEF Asked
<1>4. First = httpclient_get_info(E, a)
  BY DEF First
<1>5. Second = httpclient_get_info(First, b)
  BY DEF Second
<1>6. Third = IF hasPost THEN httpclient_get_info(Second, c) ELSE Second
  BY DEF Third
<1>7. Filled = httpclient_get_info(Third, d)
  BY DEF Filled
<1> HIDE DEF a, b, c, d
<1>8. /\ ab \in Seq(Byte) /\ Len(ab) = Len(a) + Len(b)
      /\ <<>> \o a = a /\ Len(<<>>) = 0
  BY <1>1
<1> HIDE DEF ab
<1>9. /\ abc \in Seq(Byte) /\ Len(abc) = Len(ab) + Len(c)
      /\ ~hasPost => abc = ab
  <2>1. abc \in Seq(Byte) /\ Len(abc) = Len(ab) + Len(c)
    BY <1>1, <1>8, ConcatProperties DEF abc
  <2>2. ab \o <<>> = ab
    BY <1>8
  <2> QED BY <1>1, <2>1, <2>2 DEF abc
<1> HIDE DEF abc
<1>10. Len(abc \o d) = Len(abc) + Len(d)
  BY <1>1, <1>9, ConcatProperties
<1>11. Len(a) \in Nat /\ Len(b) \in Nat /\ Len(c) \in Nat /\ Len(d) \in Nat
  BY <1>1, LenProperties
<1>12. /\ Len(<<>>) + Len(a) < SendBufSize /\ Len(a) + Len(b) < SendBufSize
       /\ Len(ab) + Len(c) < SendBufSize /\ Len(abc) + Len(d) < SendBufSize
  BY <1>2, <1>3, <1>8, <1>9, <1>10, <1>11
<1>13. First = [buf |-> a, sent |-> <<>>, ok |-> TRUE]
  BY <1>4, <1>8, <1>12, PartFits
<1>14. Second = [buf |-> ab, sent |-> <<>>, ok |-> TRUE]
  BY <1>5, <1>12, <1>13, PartFits DEF ab
<1>15. Third = [buf |-> abc, sent |-> <<>>, ok |-> TRUE]
  <2>1. CASE hasPost
    <3>1. Third = httpclient_get_info([buf |-> ab, sent |-> <<>>, ok |-> TRUE], c)
      BY <1>6, <1>14, <2>1
    <3> QED BY <1>12, <3>1, PartFits DEF abc
  <2>2. CASE ~hasPost
    BY <1>6, <1>9, <1>14, <2>2
  <2> QED BY <2>1, <2>2
<1>16. Filled = [buf |-> abc \o d, sent |-> <<>>, ok |-> TRUE]
  BY <1>7, <1>12, <1>15, PartFits
<1> QED BY <1>3, <1>13, <1>16

-----------------------------------------------------------------------------
\* A client that has not begun has sent nothing.
LEMMA InitSending == Init => GivenInv /\ SendingInv
BY ConstantsAssumption DEF Init, GivenInv, SendingInv

\* Nothing changes what was given.
LEMMA NextGiven == GivenInv /\ [Next]_vars => GivenInv' /\ UNCHANGED <<Asked, hasPost>>
<1> SUFFICES ASSUME GivenInv, [Next]_vars PROVE GivenInv' /\ UNCHANGED <<Asked, hasPost>>
  OBVIOUS
<1>1. UNCHANGED given => GivenInv' /\ UNCHANGED <<Asked, hasPost>>
  BY DEF given, GivenInv, Asked, RequestLine, CustomHeader, Announced, EndOfHeaders
<1>2. Header => UNCHANGED given
  BY DEF Header, httpclient_recv_response, HeaderMore, HeaderLine, HeaderBad, HeaderEnd,
         httpclient_redirect
<1>3. Content => UNCHANGED given
  BY DEF Content, UntilClose, ChunkLine, ChunkLineMore, RetrieveFull, RetrieveEnd, RetrieveMore,
         ChunkEnd
<1>4. Call => UNCHANGED given
  BY <1>2, <1>3 DEF Call, httpclient_connect, httpclient_send_header, httpclient_send_userdata,
         httpclient_send_request, httpclient_close
<1>5. Next => UNCHANGED given
  BY <1>4 DEF Next, Begin, Ask, Receive, httpclient_close, Answer, Die
<1> QED BY <1>1, <1>5 DEF vars

\* The steps of an answer, of a connect and of a close do not lead to a state in
\* which a request is on its way.
LEMMA SendsNothing == Header \/ Content \/ httpclient_close \/ httpclient_connect
                      => pc' \notin {"userdata", "sent"}
<1> USE DEF Go, Fail, Give, Return, ContentStart
<1>1. Header => pc' \notin {"userdata", "sent"}
  <2>1. httpclient_recv_response => pc' \notin {"userdata", "sent"}
    BY DEF httpclient_recv_response
  <2>2. HeaderMore \/ HeaderLine \/ HeaderBad \/ HeaderEnd \/ httpclient_redirect
          => pc' \notin {"userdata", "sent"}
    BY DEF HeaderMore, HeaderLine, HeaderBad, HeaderEnd,
         httpclient_redirect
  <2> QED BY <2>1, <2>2 DEF Header
<1>2. Content => pc' \notin {"userdata", "sent"}
  <2>1. UntilClose \/ ChunkLine \/ ChunkLineMore => pc' \notin {"userdata", "sent"}
    BY DEF UntilClose, ChunkLine, ChunkLineMore
  <2>2. RetrieveFull \/ RetrieveEnd \/ RetrieveMore \/ ChunkEnd => pc' \notin {"userdata", "sent"}
    BY DEF RetrieveFull, RetrieveEnd, RetrieveMore, ChunkEnd
  <2> QED BY <2>1, <2>2 DEF Content
<1> QED BY <1>1, <1>2 DEF httpclient_close, httpclient_connect

\* The header is sent as a whole, then the data behind it; whatever else the
\* client does, nothing is added and nothing is sent again.
LEMMA NextSending == GivenInv /\ SendingInv /\ [Next]_vars => SendingInv'
<1> SUFFICES ASSUME GivenInv, SendingInv, [Next]_vars PROVE SendingInv'
  OBVIOUS
<1>1. UNCHANGED <<Asked, hasPost>> /\ hasPost \in BOOLEAN
  BY NextGiven DEF GivenInv
<1>2. SendBufSize' = SendBufSize
  OBVIOUS
<1>3. ASSUME pc' \notin {"userdata", "sent"} PROVE SendingInv'
  BY <1>3 DEF SendingInv
<1>4. ASSUME UNCHANGED <<pc, method, got>> PROVE SendingInv'
  BY <1>1, <1>4 DEF SendingInv, Posted
<1>5. CASE httpclient_send_header
  <2>1. ASSUME First.ok, Len(Asked) < SendBufSize, pc' \in {"userdata", "sent"}
        PROVE  got' = Asked
    <3>1. Filled.buf = Asked /\ Filled.sent = <<>> /\ Asked \in Seq(Byte)
      <4>1. Asked \in Seq(Byte)
        BY PartsType DEF Asked
      <4> QED BY <2>1, <4>1, RequestFits
    <3>2. got' = Filled.sent \o Filled.buf
      <4>1. PICK r \in httpclient_tcp_send_all(Filled.buf) :
              /\ got' = Filled.sent \o r[1]
              /\ IF r[2] = "OK" THEN Go(IF method = "POST" THEN "userdata" ELSE "sent") ELSE Fail(r[2])
        BY <1>5, <2>1 DEF httpclient_send_header
      <4>2. r[2] = "OK"
        BY <2>1, <4>1 DEF Fail, Return
      <4>3. r = <<Filled.buf, "OK">> \/ r = <<<<>>, "ERROR_CONN">>
        BY DEF httpclient_tcp_send_all
      <4>4. r[1] = Filled.buf
        BY <4>2, <4>3
      <4> QED BY <4>1, <4>4
    <3> QED BY <3>1, <3>2
  <2>2. ASSUME ~First.ok
        PROVE  pc' \notin {"userdata", "sent"}
    BY <1>5, <2>2 DEF httpclient_send_header, Fail, Return
  <2>3. /\ pc' = "userdata" => method' = "POST"
        /\ pc' = "sent" => method' # "POST"
    BY <1>5 DEF httpclient_send_header, Go, Fail, Return, request
  <2>4. ASSUME pc' = "sent" PROVE Posted' = <<>>
    BY <2>3, <2>4 DEF Posted
  <2>5. Asked \in Seq(Byte)
    BY PartsType DEF Asked
  <2>6. Asked \o <<>> = Asked
    BY <2>5
  <2> QED BY <1>1, <2>1, <2>2, <2>3, <2>4, <2>6 DEF SendingInv
<1>6. CASE httpclient_send_userdata
  <2>1. pc = "userdata" /\ method = "POST"
    BY <1>6 DEF httpclient_send_userdata, SendingInv
  <2>2. ASSUME pc' \in {"userdata", "sent"}
        PROVE  /\ pc' = "sent" /\ method' = method
               /\ Len(Asked) < SendBufSize => got' = got \o Posted
    <3>1. pc' = "sent" /\ method' = method
      BY <1>6, <2>2 DEF httpclient_send_userdata, Go, Fail, Return, request
    <3>2. CASE hasPost
      BY <1>6, <2>1, <2>2, <3>1, <3>2 DEF httpclient_send_userdata, httpclient_tcp_send_all, Posted, Go,
         Fail, Return
    <3>3. CASE ~hasPost
      <4>1. got' = got /\ Posted = <<>>
        BY <1>6, <3>3 DEF httpclient_send_userdata, Posted
      <4>2. Len(Asked) < SendBufSize => got = Asked
        BY <2>1 DEF SendingInv
      <4>3. Asked \in Seq(Byte)
        BY PartsType DEF Asked
      <4>4. Asked \o <<>> = Asked
        BY <4>3
      <4> QED BY <3>1, <4>1, <4>2, <4>4
    <3> QED BY <3>2, <3>3
  <2> QED BY <1>1, <2>1, <2>2 DEF SendingInv, Posted
<1>7. CASE httpclient_send_request
  BY <1>3, <1>7 DEF httpclient_send_request, Go, Return
<1>8. Call => SendingInv'
  BY <1>3, <1>5, <1>6, <1>7, SendsNothing DEF Call
<1>9. ASSUME NEW all \in BOOLEAN, NEW m \in {"GET", "POST"}, Begin(all, m) \/ Ask(m)
      PROVE  SendingInv'
  BY <1>3, <1>9 DEF Begin, Ask
<1>10. Receive => SendingInv'
  BY <1>3 DEF Receive, Go
<1>11. ASSUME NEW r \in Responses, Answer(r) PROVE SendingInv'
  BY <1>4, <1>11 DEF Answer, request
<1>12. Die => SendingInv'
  BY <1>4 DEF Die, request
<1>13. UNCHANGED vars => SendingInv'
  BY <1>4 DEF vars, request, net
<1> QED
  BY <1>3, <1>8, <1>9, <1>10, <1>11, <1>12, <1>13, SendsNothing DEF Next

\* What the server has got when a request is sent is the request, whatever came
\* before on the connection, if the send buffer has room for it.
THEOREM RequestsArrive == Spec => []RequestArrives
<1>1. GivenInv /\ SendingInv /\ [Next]_vars => (GivenInv /\ SendingInv)'
  BY NextGiven, NextSending
<1>2. SendingInv => RequestArrives
  BY DEF SendingInv, RequestArrives, Asked, Posted
<1> QED BY <1>1, <1>2, InitSending, PTL DEF Spec

-----------------------------------------------------------------------------
(* The invariant behind BodyDelivered and ErrorsHaveReasons: how far the   *)
(* answer has been read.                                                   *)

\* Where each sequence of ss begins in what they make when joined.
Offsets(ss) == LET at[i \in 0..Len(ss)] == IF i = 0 THEN 0 ELSE at[i-1] + Len(ss[i]) IN at

\* What the server sends for a part, where it begins, and where the part begins
\* in the body.
Chunk(r, part) == SizeLine(r, Len(part)) \o Data(part) \o CRLF
Chunks(r) == [i \in DOMAIN r.parts |-> Chunk(r, r.parts[i])]
ChunkAt(r, k) == 8 + Offsets(Chunks(r))[k]
BodyAt(r, k) == Offsets(r.parts)[k]

\* u is what the answer r has from position p on.
Shows(r, u, p) == \A i \in 1..Len(u) : u[i] = Wire(r)[p+i]

\* w is all that it has from there on, or the first of it if the server died.
Reads(r, e, w, p) ==
  /\ p + Len(w) <= Len(Wire(r))
  /\ Shows(r, w, p)
  /\ p + Len(w) = Len(Wire(r)) \/ "died" \in e

\* u is in a buffer and w, which comes next, on the connection.
Continues(r, e, u, w, p) == Shows(r, u, p) /\ Reads(r, e, w, p + Len(u))

\* u is what the body of r has behind its first D bytes.
InBody(r, u, D) ==
  /\ D + Len(u) <= Len(Body(r))
  /\ \A i \in 1..Len(u) : u[i] = Body(r)[D+i]

\* D bytes of the body have been received, and u, then what is on the connection,
\* is of a body of known length, or of a body that ends with the connection, or
\* begins in a chunk, before the size line of a chunk, or before the CRLF behind.
Plain(u, D) ==
  /\ response.kind = "length" /\ ~isChunked /\ contentLen \in Nat
  /\ retrieveLen \in Nat /\ D + retrieveLen = Len(Body(response))
  /\ Continues(response, excuses, u, wire, 8 + D)

Closing(u, D) ==
  /\ response.kind \in {"close", "unspaced"} /\ ~isChunked /\ contentLen = -1
  /\ Continues(response, excuses, u, wire, 8 + D)

Inside(u, D) ==
  /\ response.kind = "chunked" /\ isChunked /\ retrieveLen > 0
  /\ \E k \in 1..Len(response.parts) :
       /\ BodyAt(response, k-1) <= D /\ D + retrieveLen = BodyAt(response, k)
       /\ Continues(response, excuses, u, wire, ChunkAt(response, k) - 2 - retrieveLen)

Line(u, D) ==
  /\ response.kind = "chunked" /\ isChunked /\ retrieveLen = 0
  /\ \E k \in 0..Len(response.parts) :
       /\ D = BodyAt(response, k)
       /\ Continues(response, excuses, u, wire, ChunkAt(response, k))

End(u, D) ==
  /\ response.kind = "chunked" /\ isChunked /\ retrieveLen = 0
  /\ \E k \in 1..Len(response.parts) :
       /\ D = BodyAt(response, k)
       /\ Continues(response, excuses, u, wire, ChunkAt(response, k) - 2)

\* The client takes the CRLF behind a chunk for a size line.
Late(u, D) == End(u, D) /\ "full_at_end_of_chunk" \in excuses

Pcs == {"idle", "connect", "send", "userdata", "sent", "recv", "header", "until_close",
        "chunk_line", "retrieve", "chunk_end", "close"}

TypeInv ==
  /\ response \in Responses \cup {None}
  /\ wire \in Seq(Byte) /\ pending \in Seq(Byte) /\ headerBuf \in Seq(Byte)
  /\ responseBuf \in Seq(Byte) /\ delivered \in Seq(Byte)
  /\ isMore \in BOOLEAN /\ isChunked \in BOOLEAN /\ peerClosed \in BOOLEAN
  /\ retrieveLen \in Int /\ contentLen \in Int
  /\ pc \in Pcs

\* Without an answer nothing is delivered; an answer that does not end with the
\* connection is cut only by a server that dies; an error ends the connection.
CommonInv ==
  /\ InBody(response, delivered, 0)
  /\ response = None => delivered = <<>>
  /\ peerClosed /\ response # None /\ response.kind # "close" => "died" \in excuses
  /\ result \in {"ERROR_PRTCL", "ERROR"} =>
       /\ excuses # {}
       /\ pc = "close" \/ (pc = "idle" /\ stage \in {"failed", "closed"})

\* Before the connection is there.
ClosedInv ==
  /\ pc = "connect" \/ (pc = "idle" /\ stage = "closed") => socket # "open"
  /\ pc = "connect" => response = None /\ ~isMore

\* The end of an answer that was left on the connection.
Stale == "unread_crlf" \in excuses /\ wire # <<>> /\ wire[1] \in {CR, LF}

\* A request is under way, or its answer is, and none of it has been read.
Fresh == pc \in {"send", "userdata", "sent"} \/ (~isMore /\ (pc = "recv" \/ (pc = "idle" /\ stage = "asked")))

FreshInv == Fresh =>
  /\ ~isMore /\ delivered = <<>>
  /\ \/ /\ response = None /\ wire = <<>>
     \/ /\ response # None /\ Reads(response, excuses, wire, 0)
     \/ Stale

\* Before the first request, or after an answer.
ReadyInv == pc = "idle" /\ stage = "ready" =>
  /\ ~isMore
  /\ response = None => got = <<>>
  /\ response # None => \/ delivered = Body(response)
                        \/ (response.kind \in {"close", "unspaced"} /\ "died" \in excuses)
  /\ wire = <<>> \/ Stale

\* The status line has been read, and then the line of the header.
HeaderInv == pc = "header" =>
  /\ response # None /\ delivered = <<>> /\ ~isMore
  /\ \/ /\ Continues(response, excuses, headerBuf, wire, 3)
        /\ ~isChunked /\ contentLen = -1
     \/ /\ Continues(response, excuses, headerBuf, wire, 6)
        /\ \/ /\ response.kind = "length" /\ ~isChunked
              /\ retrieveLen = Len(Body(response)) /\ contentLen = retrieveLen
           \/ /\ response.kind \in {"close", "unspaced"} /\ ~isChunked /\ contentLen = -1
           \/ /\ response.kind = "chunked" /\ isChunked
              /\ retrieveLen = 0 /\ contentLen = 0

Contents == {"until_close", "retrieve", "chunk_line", "chunk_end"}

\* A call has returned with a part of the body, or the next has begun.
Mid == isMore /\ (pc = "recv" \/ (pc = "idle" /\ stage = "asked"))

ContentInv ==
  /\ pc \in Contents =>
       /\ response # None /\ isMore /\ InBody(response, responseBuf, Len(delivered))
       /\ LET D == Len(delivered) + Len(responseBuf) IN
          /\ pc = "until_close" => Closing(pending, D)
          /\ pc = "retrieve" => Plain(pending, D) \/ Inside(pending, D)
          /\ pc = "chunk_line" => Line(pending, D) \/ Late(pending, D)
          /\ pc = "chunk_end" => End(pending, D)
  /\ Mid => LET D == Len(delivered) IN
       /\ response # None
       /\ Closing(<<>>, D) \/ Plain(<<>>, D) \/ Inside(<<>>, D) \/ Line(<<>>, D) \/ Late(<<>>, D)

\* What was received fits into the response buffer.
RoomInv ==
  /\ pc \in {"until_close", "retrieve", "chunk_end"} => Len(pending) <= Room
  /\ pc = "chunk_line" =>
       /\ Room >= 0 /\ Len(pending) <= Room + 3
       /\ pending # <<>> => Room >= 3

IInv ==
  /\ TypeInv /\ GivenInv /\ CommonInv /\ ClosedInv /\ FreshInv /\ ReadyInv
  /\ HeaderInv /\ ContentInv /\ RoomInv

-----------------------------------------------------------------------------
(* The operators                                                           *)

\* The first n of a sequence, and the others.
LEMMA TakeDrop ==
  ASSUME NEW S, NEW s \in Seq(S), NEW n \in 0..Len(s)
  PROVE  /\ Take(s, n) \in Seq(S) /\ Len(Take(s, n)) = n
         /\ \A i \in 1..n : Take(s, n)[i] = s[i]
         /\ Drop(s, n) \in Seq(S) /\ Len(Drop(s, n)) = Len(s) - n
         /\ \A i \in 1..Len(s)-n : Drop(s, n)[i] = s[n+i]
<1>0. /\ Len(s) \in Nat /\ n \in Nat /\ n <= Len(s)
      /\ \A i \in 1..Len(s) : s[i] \in S
  BY LenProperties, ElementOfSeq
<1> DEFINE l == Len(s)
<1>1. Take(s, n) = SubSeq(s, 1, n)
  BY <1>0 DEF Take, Least
<1>2. /\ SubSeq(s, 1, n) \in Seq(S) /\ Len(SubSeq(s, 1, n)) = n
      /\ \A i \in 1..n : SubSeq(s, 1, n)[i] = s[i]
  <2>1. \A i \in 1..n : s[i] \in S
    BY <1>0
  <2> QED BY <1>0, <2>1, SubSeqProperties
<1>3. /\ SubSeq(s, n+1, l) \in Seq(S) /\ Len(SubSeq(s, n+1, l)) = l - n
      /\ \A i \in 1..l-n : SubSeq(s, n+1, l)[i] = s[n+i]
  <2>0. l \in Nat /\ n \in Nat /\ n <= l
    BY <1>0
  <2>1. \A i \in n+1..l : s[i] \in S
    BY <1>0
  <2> HIDE DEF l
  <2>2. n+1 \in Int /\ l \in Int
    BY <2>0
  <2>3. /\ SubSeq(s, n+1, l) \in Seq(S)
        /\ Len(SubSeq(s, n+1, l)) = IF n+1 <= l THEN l-(n+1)+1 ELSE 0
        /\ \A i \in 1..l-(n+1)+1 : SubSeq(s, n+1, l)[i] = s[n+1+i-1]
    BY <2>1, <2>2, SubSeqProperties
  <2>4. l-(n+1)+1 = l-n /\ (n+1 <= l \/ l-n = 0)
    BY <2>0
  <2>5. ASSUME NEW i \in 1..l-n PROVE SubSeq(s, n+1, l)[i] = s[n+i]
    <3>1. n+1+i-1 = n+i
      BY <2>0
    <3> QED BY <2>3, <2>4, <3>1
  <2>6. Len(SubSeq(s, n+1, l)) = l-n
    BY <2>3, <2>4
  <2> QED BY <2>3, <2>5, <2>6
<1> QED BY <1>1, <1>2, <1>3 DEF Drop

\* Take of all, and a sequence of length 0.
LEMMA TakeAll ==
  ASSUME NEW S, NEW s \in Seq(S)
  PROVE  Take(s, Len(s)) = s
<1>1. Len(s) \in Nat /\ Len(s) \in 0..Len(s)
  BY LenProperties
<1>2. /\ Take(s, Len(s)) \in Seq(S) /\ Len(Take(s, Len(s))) = Len(s)
      /\ \A i \in 1..Len(s) : Take(s, Len(s))[i] = s[i]
  BY <1>1, TakeDrop
<1> QED BY <1>1, <1>2, SeqEqual

\* What a receive of at least min and at most max bytes can return.
LEMMA RecvResult ==
  ASSUME wire \in Seq(Byte), NEW min \in Int, NEW max \in Int,
         NEW r \in httpclient_recv(min, max)
  PROVE  /\ r[1] \in 0..Len(wire) /\ r[1] <= max
         /\ r[2] \in {"OK", "ERROR_CONN", "CLOSED"}
         /\ r[2] = "OK" => r[1] >= Least(min, max)
         /\ r[2] = "CLOSED" => r[1] = Len(wire) /\ peerClosed /\ r[1] < Least(min, max)
<1> DEFINE most == Least(max, Len(wire))
<1>1. Len(wire) \in Nat /\ most \in Int /\ most <= max /\ most <= Len(wire) /\ Least(min, max) \in Int
  BY LenProperties DEF Least
<1>2. /\ \/ \E n \in {k \in 0..most : k >= Least(min, max)} : r = <<n, "OK">>
         \/ \E n \in {k \in 0..most : k < Least(min, max)} : r = <<n, "ERROR_CONN">>
         \/ \E n \in {k \in 0..most : k < Least(min, max) /\ k = Len(wire) /\ peerClosed} :
              r = <<n, "CLOSED">>
  BY DEF httpclient_recv
<1> HIDE DEF most
<1>3. CASE \E n \in {k \in 0..most : k >= Least(min, max)} : r = <<n, "OK">>
  <2>1. PICK n \in 0..most : n >= Least(min, max) /\ r = <<n, "OK">>
    BY <1>3
  <2>2. r[1] = n /\ r[2] = "OK" /\ n \in Nat /\ n <= most
    BY <1>1, <2>1
  <2> QED BY <1>1, <2>1, <2>2
<1>4. CASE \E n \in {k \in 0..most : k < Least(min, max)} : r = <<n, "ERROR_CONN">>
  <2>1. PICK n \in 0..most : r = <<n, "ERROR_CONN">>
    BY <1>4
  <2>2. r[1] = n /\ r[2] = "ERROR_CONN" /\ n \in Nat /\ n <= most
    BY <1>1, <2>1
  <2> QED BY <1>1, <2>2
<1>5. CASE \E n \in {k \in 0..most : k < Least(min, max) /\ k = Len(wire) /\ peerClosed} : r = <<n, "CLOSED">>
  <2>1. PICK n \in 0..most : n < Least(min, max) /\ n = Len(wire) /\ peerClosed /\ r = <<n, "CLOSED">>
    BY <1>5
  <2>2. r[1] = n /\ r[2] = "CLOSED" /\ n \in Nat /\ n <= most
    BY <1>1, <2>1
  <2> QED BY <1>1, <2>1, <2>2
<1> QED BY <1>2, <1>3, <1>4, <1>5

\* CRLF is at position p of s.
CrlfAt(s, p) == p + 2 <= Len(s) /\ s[p+1] = CR /\ s[p+2] = LF

\* The first CRLF among the first n positions.
LEMMA CrlfFound ==
  ASSUME NEW s \in Seq(Byte), NEW n \in Int
  PROVE  LET c == FindCrlf(s, n) IN
         /\ \/ c = -1
            \/ c \in 0..n-1 /\ CrlfAt(s, c) /\ \A q \in 0..c-1 : ~CrlfAt(s, q)
         /\ c = -1 => \A q \in 0..n-1 : ~CrlfAt(s, q)
<1> DEFINE c == FindCrlf(s, n)
           P == {p \in 0..n-1 : p + 2 <= Len(s) /\ SubSeq(s, p + 1, p + 2) = CRLF}
           Q == {p \in 0..n-1 : CrlfAt(s, p)}
<1>1. ASSUME NEW p \in 0..n-1
      PROVE  (p + 2 <= Len(s) /\ SubSeq(s, p + 1, p + 2) = CRLF) <=> CrlfAt(s, p)
  <2>1. SUFFICES ASSUME p + 2 <= Len(s)
                 PROVE  SubSeq(s, p + 1, p + 2) = CRLF <=> (s[p+1] = CR /\ s[p+2] = LF)
    BY DEF CrlfAt
  <2> DEFINE t == SubSeq(s, p + 1, p + 2)
  <2>2. p \in Nat /\ Len(s) \in Nat /\ p+1 \in 1..Len(s) /\ p+2 \in 1..Len(s)
    BY <2>1, LenProperties
  <2>3. \A i \in p+1..p+2 : s[i] \in Byte
    BY <2>2, ElementOfSeq
  <2>4. t \in Seq(Byte) /\ Len(t) = 2 /\ \A i \in 1..2 : t[i] = s[p+1+i-1]
    <3>1. p+1 \in Int /\ p+2 \in Int /\ p+1 <= p+2 /\ p+2-(p+1)+1 = 2
      BY <2>2
    <3> QED BY <2>3, <3>1, SubSeqProperties
  <2>5. t[1] = s[p+1] /\ t[2] = s[p+2]
    <3>1. 1 \in 1..2 /\ 2 \in 1..2 /\ p+1+1-1 = p+1 /\ p+1+2-1 = p+2
      BY <2>2
    <3> HIDE DEF t
    <3> QED BY <2>4, <3>1
  <2>6. CRLF[1] = CR /\ CRLF[2] = LF /\ Len(CRLF) = 2 /\ CRLF \in Seq({CR, LF})
    BY DEF CRLF
  <2>7. (t[1] = CR /\ t[2] = LF) => t = CRLF
    <3> HIDE DEF t
    <3>1. SUFFICES ASSUME t[1] = CR, t[2] = LF PROVE t = CRLF
      OBVIOUS
    <3>2. \A i \in 1..2 : t[i] = CRLF[i]
      BY <2>6, <3>1
    <3> QED BY <2>4, <2>6, <3>2, SeqEqual
  <2> HIDE DEF t
  <2> QED BY <2>5, <2>6, <2>7 DEF t
<1>2. P = Q
  BY <1>1
<1>3. c = IF Q = {} THEN -1 ELSE CHOOSE p \in Q : \A q \in Q : p <= q
  <2>1. c = IF P = {} THEN -1 ELSE CHOOSE p \in P : \A q \in P : p <= q
    BY DEF FindCrlf
  <2> HIDE DEF P, Q, c
  <2> QED BY <1>2, <2>1
<1>4. \A q \in 0..n-1 : q \in Q <=> CrlfAt(s, q)
  OBVIOUS
<1>5. Q \subseteq 0..n-1
  OBVIOUS
<1> HIDE DEF Q, P, c
<1>6. CASE Q = {}
  BY <1>3, <1>4, <1>6 DEF c
<1>7. CASE Q # {}
  <2>1. Q \subseteq Nat
    BY <1>5
  <2>2. c \in Q /\ \A q \in Q : c <= q
    BY <1>3, <1>7, <2>1, LeastNat
  <2>3. c \in 0..n-1 /\ CrlfAt(s, c) /\ c # -1
    BY <1>4, <1>5, <2>2
  <2>4. ASSUME NEW q \in 0..c-1 PROVE ~CrlfAt(s, q)
    <3>1. q \in 0..n-1 /\ ~(c <= q)
      BY <2>3
    <3> QED BY <1>4, <2>2, <3>1
  <2> QED BY <2>3, <2>4 DEF c
<1> QED BY <1>6, <1>7

-----------------------------------------------------------------------------
(* What the server sends                                                   *)

\* Where the sequences that are joined begin.
LEMMA OffsetsAre ==
  ASSUME NEW S, NEW ss \in Seq(Seq(S))
  PROVE  /\ Offsets(ss) \in [0..Len(ss) -> Nat] /\ Offsets(ss)[0] = 0
         /\ \A i \in 1..Len(ss) : Offsets(ss)[i] = Offsets(ss)[i-1] + Len(ss[i])
<1> DEFINE n == Len(ss)
           at[i \in 0..n] == IF i = 0 THEN 0 ELSE at[i-1] + Len(ss[i])
           g == [i \in 1..n |-> [x \in Nat |-> x + Len(ss[i])]]
<1>1. n \in Nat /\ \A i \in 1..n : Len(ss[i]) \in Nat
  BY LenProperties, ElementOfSeq
<1>2. Offsets(ss) = at
  BY DEF Offsets
<1> HIDE DEF n
<1>3. at = [i \in 0..n |-> IF i = 0 THEN 0 ELSE at[i-1] + Len(ss[i])]
  <2>1. g \in [1..n -> [Nat -> Nat]] /\ 0 \in Nat
    <3>1. \A i \in 1..n, x \in Nat : x + Len(ss[i]) \in Nat
      BY <1>1
    <3> QED BY <3>1
  <2>2. PICK f : Iterates(f, Nat, 0, n, g)
    <3> HIDE DEF g
    <3> QED BY <1>1, <2>1, RecursionExists
  <2>3. f \in [0..n -> Nat] /\ f[0] = 0 /\ \A i \in 1..n : f[i] = g[i][f[i-1]]
    <3> HIDE DEF g
    <3> QED BY <2>2 DEF Iterates
  <2>4. ASSUME NEW i \in 0..n PROVE f[i] = IF i = 0 THEN 0 ELSE f[i-1] + Len(ss[i])
    <3>1. CASE i = 0
      BY <2>3, <3>1
    <3>2. CASE i # 0
      <4>1. i \in 1..n /\ i-1 \in 0..n
        BY <1>1, <3>2
      <4>2. f[i] = g[i][f[i-1]] /\ f[i-1] \in Nat
        <5> HIDE DEF g
        <5> QED BY <2>3, <4>1
      <4> QED BY <3>2, <4>1, <4>2
    <3> QED BY <3>1, <3>2
  <2>5. f = [i \in 0..n |-> IF i = 0 THEN 0 ELSE f[i-1] + Len(ss[i])]
    <3> HIDE DEF g
    <3> QED BY <2>3, <2>4
  <2> HIDE DEF g
  <2> QED BY <2>5
<1> HIDE DEF at
<1>4. at[0] = 0 /\ \A i \in 1..n : at[i] = at[i-1] + Len(ss[i])
  <2>1. \A i \in 0..n : at[i] = IF i = 0 THEN 0 ELSE at[i-1] + Len(ss[i])
    BY <1>3
  <2>2. 0 \in 0..n /\ \A i \in 1..n : i \in 0..n /\ i # 0
    BY <1>1
  <2> QED BY <2>1, <2>2
<1> DEFINE T == {i \in 0..n : at[i] \notin Nat}
<1>5. T = {}
  <2>1. SUFFICES ASSUME T # {} PROVE FALSE
    OBVIOUS
  <2>2. PICK m \in T : \A y \in T : m <= y
    <3>1. T \subseteq Nat
      OBVIOUS
    <3> HIDE DEF T
    <3> QED BY <2>1, <3>1, LeastNat
  <2>3. m \in 0..n /\ at[m] \notin Nat
    OBVIOUS
  <2>4. m # 0 /\ m-1 \in 0..n /\ ~(m <= m-1) /\ m \in 1..n
    BY <1>1, <1>4, <2>3
  <2>5. at[m-1] \in Nat
    <3>1. m-1 \in T \/ at[m-1] \in Nat
      BY <2>4
    <3> HIDE DEF T
    <3> QED BY <2>2, <2>4, <3>1
  <2>6. at[m] = at[m-1] + Len(ss[m]) /\ Len(ss[m]) \in Nat
    BY <1>1, <1>4, <2>4
  <2> QED BY <2>3, <2>5, <2>6
<1>6. at \in [0..n -> Nat]
  <2>1. \A i \in 0..n : at[i] \in Nat
    BY <1>5
  <2>2. at = [i \in 0..n |-> at[i]]
    BY <1>3
  <2> QED BY <2>1, <2>2
<1> QED BY <1>2, <1>4, <1>6 DEF n

\* The bytes of a part.
LEMMA DataType ==
  ASSUME NEW s \in Seq(Nat)
  PROVE  /\ Data(s) \in Seq(Byte) /\ Len(Data(s)) = Len(s)
         /\ \A i \in 1..Len(s) : Data(s)[i] = <<"data", s[i]>>
<1>1. Len(s) \in Nat /\ DOMAIN s = 1..Len(s) /\ \A i \in 1..Len(s) : s[i] \in Nat
  BY LenProperties, ElementOfSeq
<1>2. "data" \in Names
  BY DEF Names
<1>3. \A i \in 1..Len(s) : s[i] \in Int
  BY <1>1
<1>4. \A i \in 1..Len(s) : <<"data", s[i]>> \in Byte
  BY <1>2, <1>3, Pairs
<1>5. Data(s) = [i \in 1..Len(s) |-> <<"data", s[i]>>]
  BY <1>1 DEF Data
<1>6. Data(s) \in [1..Len(s) -> Byte]
  BY <1>4, <1>5
<1>7. Data(s) \in Seq(Byte) /\ Len(Data(s)) = Len(s)
  BY <1>1, <1>6
<1>8. \A i \in 1..Len(s) : Data(s)[i] = <<"data", s[i]>>
  BY <1>5
<1> QED BY <1>7, <1>8

\* The bytes that are not of a body.
LEMMA ByteTypes ==
  /\ CR \in Byte /\ LF \in Byte /\ CR # LF
  /\ \A n \in Nat : Hex(n) \in Byte /\ Hex(n)[1] = "hex" /\ Hex(n)[2] = n
                    /\ Hex(n) # CR /\ Hex(n) # LF
  /\ CRLF \in Seq(Byte) /\ Len(CRLF) = 2 /\ CRLF[1] = CR /\ CRLF[2] = LF
<1>1. "cr" \in Names /\ "lf" \in Names /\ "hex" \in Names /\ 0 \in Int
  BY DEF Names
<1>2. CR \in Byte /\ LF \in Byte
  BY <1>1, Pairs DEF CR, LF
<1>3. CR # LF
  BY DEF CR, LF
<1>4. ASSUME NEW n \in Nat
      PROVE  Hex(n) \in Byte /\ Hex(n)[1] = "hex" /\ Hex(n)[2] = n /\ Hex(n) # CR /\ Hex(n) # LF
  <2>1. n \in Int
    OBVIOUS
  <2>2. <<"hex", n>> \in Byte
    BY <1>1, <2>1, Pairs
  <2>3. <<"hex", n>>[1] = "hex" /\ <<"hex", n>>[2] = n
    OBVIOUS
  <2>4. CR[1] = "cr" /\ LF[1] = "lf"
    BY DEF CR, LF
  <2> QED BY <2>2, <2>3, <2>4 DEF Hex
<1>5. CRLF \in Seq(Byte) /\ Len(CRLF) = 2 /\ CRLF[1] = CR /\ CRLF[2] = LF
  BY <1>2 DEF CRLF
<1> QED BY <1>2, <1>3, <1>4, <1>5

\* Where CR and LF, and three bytes in a row, come to stand.
LEMMA ThreeBytes ==
  ASSUME NEW a \in Byte, NEW h, h = <<a>> \o CRLF
  PROVE  h \in Seq(Byte) /\ Len(h) = 3 /\ h[1] = a /\ h[2] = CR /\ h[3] = LF
<1>1. <<a>> \in Seq(Byte) /\ Len(<<a>>) = 1 /\ <<a>>[1] = a
  OBVIOUS
<1>2. CRLF \in Seq(Byte) /\ Len(CRLF) = 2 /\ CRLF[1] = CR /\ CRLF[2] = LF
  BY ByteTypes
<1>3. h \in Seq(Byte) /\ IsConcat(h, <<a>>, CRLF)
  BY <1>1, <1>2, ConcatIs
<1>4. 1 \in 1..Len(<<a>>) /\ 1 \in 1..Len(CRLF) /\ 2 \in 1..Len(CRLF)
  BY <1>1, <1>2
<1> QED BY <1>1, <1>2, <1>3, <1>4 DEF IsConcat

\* A size line.
LEMMA SizeLineIs ==
  ASSUME NEW r, r.pad \in Nat, NEW n \in Nat
  PROVE  /\ SizeLine(r, n) \in Seq(Byte) /\ Len(SizeLine(r, n)) = r.pad + 3
         /\ \A i \in 1..r.pad : SizeLine(r, n)[i] = Hex(0)
         /\ SizeLine(r, n)[r.pad + 1] = Hex(n)
         /\ SizeLine(r, n)[r.pad + 2] = CR
         /\ SizeLine(r, n)[r.pad + 3] = LF
<1> DEFINE p == r.pad
           z == [i \in 1..p |-> Hex(0)]
           zn == z \o <<Hex(n)>>
<1>1. Hex(0) \in Byte /\ Hex(n) \in Byte /\ p \in Nat
  BY ByteTypes
<1>2. CRLF \in Seq(Byte) /\ Len(CRLF) = 2 /\ CRLF[1] = CR /\ CRLF[2] = LF
  BY ByteTypes
<1>3. z \in [1..p -> Byte] /\ \A i \in 1..p : z[i] = Hex(0)
  BY <1>1
<1>4. z \in Seq(Byte) /\ Len(z) = p
  <2> HIDE DEF z, p
  <2> QED BY <1>1, <1>3
<1>5. <<Hex(n)>> \in Seq(Byte) /\ Len(<<Hex(n)>>) = 1 /\ <<Hex(n)>>[1] = Hex(n)
  BY <1>1
<1>6. SizeLine(r, n) = zn \o CRLF
  BY DEF SizeLine
<1> HIDE DEF z, p
<1>7. zn \in Seq(Byte) /\ IsConcat(zn, z, <<Hex(n)>>)
  BY <1>4, <1>5, ConcatIs
<1> HIDE DEF zn
<1>8. Len(zn) = p + 1 /\ zn[p + 1] = Hex(n) /\ \A i \in 1..p : zn[i] = Hex(0)
  <2>1. 1 \in 1..Len(<<Hex(n)>>)
    BY <1>5
  <2> QED BY <1>3, <1>4, <1>5, <1>7, <2>1 DEF IsConcat
<1>9. zn \o CRLF \in Seq(Byte) /\ IsConcat(zn \o CRLF, zn, CRLF)
  BY <1>2, <1>7, ConcatIs
<1> DEFINE s == zn \o CRLF
<1>10. s \in Seq(Byte) /\ IsConcat(s, zn, CRLF)
  BY <1>9
<1> HIDE DEF s
<1>11. Len(s) = p + 3 /\ s[p + 2] = CR /\ s[p + 3] = LF
  <2>1. 1 \in 1..Len(CRLF) /\ 2 \in 1..Len(CRLF) /\ (p + 1) + 1 = p + 2 /\ (p + 1) + 2 = p + 3
    BY <1>1, <1>2
  <2> QED BY <1>2, <1>8, <1>10, <2>1 DEF IsConcat
<1>12. ASSUME NEW i \in 1..p+1 PROVE s[i] = zn[i]
  BY <1>8, <1>10 DEF IsConcat
<1>13. \A i \in 1..p : i \in 1..p+1 /\ p + 1 \in 1..p+1
  BY <1>1
<1>14. p + 1 \in 1..p+1
  BY <1>1
<1> QED BY <1>6, <1>8, <1>10, <1>11, <1>12, <1>13, <1>14 DEF s, p

\* A chunk.
LEMMA ChunkIs ==
  ASSUME NEW r, r.pad \in Nat, NEW part \in Seq(Nat)
  PROVE  LET c == Chunk(r, part)
             p == r.pad + 3
             n == Len(part) IN
         /\ c \in Seq(Byte) /\ Len(c) = p + n + 2
         /\ \A i \in 1..p : c[i] = SizeLine(r, n)[i]
         /\ \A j \in 1..n : c[p + j] = Data(part)[j]
         /\ c[p + n + 1] = CR /\ c[p + n + 2] = LF
<1> DEFINE n == Len(part)
           p == r.pad + 3
           l == SizeLine(r, n)
           d == Data(part)
           ld == l \o d
           c == ld \o CRLF
<1>1. n \in Nat /\ p \in Nat /\ l \in Seq(Byte) /\ Len(l) = p
  BY LenProperties, SizeLineIs
<1>2. d \in Seq(Byte) /\ Len(d) = n
  BY DataType
<1>3. CRLF \in Seq(Byte) /\ Len(CRLF) = 2 /\ CRLF[1] = CR /\ CRLF[2] = LF
  BY ByteTypes
<1>4. Chunk(r, part) = c
  BY DEF Chunk
<1> HIDE DEF n, p, l, d
<1>5. ld \in Seq(Byte) /\ IsConcat(ld, l, d)
  BY <1>1, <1>2, ConcatIs
<1> HIDE DEF ld
<1>6. c \in Seq(Byte) /\ IsConcat(c, ld, CRLF)
  BY <1>3, <1>5, ConcatIs
<1> HIDE DEF c
<1>7. Len(ld) = p + n /\ Len(c) = p + n + 2
  BY <1>1, <1>2, <1>3, <1>5, <1>6 DEF IsConcat
<1>8. ASSUME NEW i \in 1..p PROVE c[i] = l[i]
  <2>1. i \in 1..Len(l) /\ i \in 1..Len(ld)
    BY <1>1, <1>7
  <2> QED BY <1>5, <1>6, <2>1 DEF IsConcat
<1>9. ASSUME NEW j \in 1..n PROVE c[p + j] = d[j]
  <2>1. j \in 1..Len(d) /\ p + j \in 1..Len(ld)
    BY <1>1, <1>2, <1>7
  <2> QED BY <1>1, <1>5, <1>6, <2>1 DEF IsConcat
<1>10. c[p + n + 1] = CR /\ c[p + n + 2] = LF
  <2>1. 1 \in 1..Len(CRLF) /\ 2 \in 1..Len(CRLF)
    BY <1>3
  <2> QED BY <1>3, <1>6, <1>7, <2>1 DEF IsConcat
<1> QED BY <1>4, <1>6, <1>7, <1>8, <1>9, <1>10 DEF n, p, l, d

\* The chunks of an answer.
LEMMA ChunksType ==
  ASSUME NEW r \in Responses
  PROVE  /\ r.parts \in Seq(Seq(Nat)) /\ r.pad \in Nat /\ r.code \in Nat /\ r.kind \in Kinds
         /\ r # None
         /\ Len(r.parts) \in Nat /\ DOMAIN r.parts = 1..Len(r.parts)
         /\ \A k \in 1..Len(r.parts) : r.parts[k] \in Seq(Nat) /\ Len(r.parts[k]) \in Nat
         /\ Chunks(r) \in Seq(Seq(Byte)) /\ Len(Chunks(r)) = Len(r.parts)
         /\ \A k \in 1..Len(r.parts) : Chunks(r)[k] = Chunk(r, r.parts[k])
         /\ r.kind = "chunked" => \A k \in 1..Len(r.parts) : Len(r.parts[k]) > 0
<1>0. r \in [code : Nat \ {0}, kind : Kinds, parts : Seq(Seq(Nat)), pad : Nat]
  BY ConstantsAssumption
<1>1. r.parts \in Seq(Seq(Nat)) /\ r.pad \in Nat /\ r.code \in Nat \ {0} /\ r.kind \in Kinds
  BY <1>0
<1>2. r # None
  BY <1>1 DEF None
<1> DEFINE n == Len(r.parts)
<1>3. n \in Nat /\ DOMAIN r.parts = 1..n
  BY <1>1, LenProperties
<1>4. \A k \in 1..n : r.parts[k] \in Seq(Nat)
  BY <1>1, ElementOfSeq
<1>5. \A k \in 1..n : Len(r.parts[k]) \in Nat
  BY <1>4, LenProperties
<1>6. \A k \in 1..n : Chunk(r, r.parts[k]) \in Seq(Byte)
  BY <1>1, <1>4, ChunkIs
<1>7. Chunks(r) = [k \in 1..n |-> Chunk(r, r.parts[k])]
  BY <1>3 DEF Chunks
<1>8. Chunks(r) \in [1..n -> Seq(Byte)]
  BY <1>6, <1>7
<1>9. \A k \in 1..n : Chunks(r)[k] = Chunk(r, r.parts[k])
  BY <1>7
<1>10. Chunks(r) \in Seq(Seq(Byte)) /\ Len(Chunks(r)) = n
  <2> HIDE DEF n
  <2> QED BY <1>3, <1>8
<1>11. ASSUME r.kind = "chunked", NEW k \in 1..n PROVE Len(r.parts[k]) > 0
  <2>1. <<>> \notin ToSet(r.parts)
    BY <1>11, ConstantsAssumption
  <2>2. r.parts[k] # <<>>
    BY <1>3, <2>1 DEF ToSet
  <2>3. Len(r.parts[k]) # 0
    BY <1>4, <2>2, EmptySeq
  <2> QED BY <1>5, <2>3
<1> QED BY <1>1, <1>2, <1>3, <1>4, <1>5, <1>9, <1>10, <1>11

\* Offsets are in order.
LEMMA OffsetsGrow ==
  ASSUME NEW S, NEW ss \in Seq(Seq(S))
  PROVE  \A j \in 0..Len(ss) : \A i \in 0..j : Offsets(ss)[i] <= Offsets(ss)[j]
<1> DEFINE n == Len(ss)
           P == Offsets(ss)
<1>1. P \in [0..n -> Nat] /\ \A i \in 1..n : P[i] = P[i-1] + Len(ss[i])
  BY OffsetsAre
<1>2. n \in Nat /\ \A i \in 1..n : Len(ss[i]) \in Nat
  BY LenProperties, ElementOfSeq
<1> HIDE DEF n, P
<1>3. ASSUME NEW i \in 1..n PROVE P[i-1] <= P[i]
  <2>1. i-1 \in 0..n
    BY <1>2
  <2>2. P[i-1] \in Nat /\ P[i] = P[i-1] + Len(ss[i]) /\ Len(ss[i]) \in Nat
    BY <1>1, <1>2, <2>1, Zenon
  <2> QED BY <2>2
<1> QED BY <1>1, <1>2, <1>3, Monotone DEF n, P

\* The body of an answer: part k begins at BodyAt(r, k-1).
LEMMA BodyIs ==
  ASSUME NEW r \in Responses
  PROVE  LET n == Len(r.parts) IN
         /\ Body(r) \in Seq(Byte) /\ Len(Body(r)) = BodyAt(r, n)
         /\ BodyAt(r, 0) = 0
         /\ \A k \in 0..n : BodyAt(r, k) \in Nat /\ BodyAt(r, k) <= Len(Body(r))
         /\ \A k \in 1..n :
              /\ BodyAt(r, k) = BodyAt(r, k-1) + Len(r.parts[k])
              /\ \A j \in 1..Len(r.parts[k]) :
                   Body(r)[BodyAt(r, k-1) + j] = Data(r.parts[k])[j]
<1> DEFINE n == Len(r.parts)
           P == Offsets(r.parts)
           F == FlattenSeq(r.parts)
<1>1. /\ r.parts \in Seq(Seq(Nat)) /\ n \in Nat
      /\ \A k \in 1..n : r.parts[k] \in Seq(Nat) /\ Len(r.parts[k]) \in Nat
  BY ChunksType
<1>2. P \in [0..n -> Nat] /\ P[0] = 0 /\ \A k \in 1..n : P[k] = P[k-1] + Len(r.parts[k])
  BY <1>1, OffsetsAre
<1>3. \A j \in 0..n : \A i \in 0..j : P[i] <= P[j]
  BY <1>1, OffsetsGrow
<1>4. /\ F \in Seq(Nat) /\ Len(F) = P[n]
      /\ \A k \in 1..n : \A j \in 1..Len(r.parts[k]) : F[P[k-1]+j] = r.parts[k][j]
  BY ZenonT(30), <1>1, <1>2, FlattenAt
<1>5. /\ Body(r) \in Seq(Byte) /\ Len(Body(r)) = Len(F)
      /\ \A i \in 1..Len(F) : Body(r)[i] = <<"data", F[i]>>
  BY <1>4, DataType DEF Body
<1>6. \A k \in 0..n : BodyAt(r, k) = P[k]
  BY DEF BodyAt
<1> HIDE DEF n, P, F
<1>7. \A k \in 0..n : P[k] \in Nat /\ P[k] <= P[n]
  <2>1. n \in 0..n /\ \A k \in 0..n : k \in 0..n
    BY <1>1
  <2> QED BY <1>2, <1>3, <2>1
<1>8. ASSUME NEW k \in 1..n, NEW j \in 1..Len(r.parts[k])
      PROVE  Body(r)[P[k-1] + j] = Data(r.parts[k])[j]
  <2>1. k \in 0..n /\ k-1 \in 0..n
    BY <1>1
  <2> DEFINE a == P[k-1]
             b == P[k]
             c == P[n]
             l == Len(r.parts[k])
  <2>2. a + j \in 1..Len(F)
    <3>1. a \in Nat /\ b = a + l /\ l \in Nat /\ j \in 1..l /\ b <= c /\ c \in Nat /\ Len(F) = c
      BY <1>1, <1>2, <1>4, <1>7, <2>1
    <3> HIDE DEF a, b, c, l
    <3> QED BY <3>1
  <2>3. Body(r)[a + j] = <<"data", F[a + j]>>
    BY <1>5, <2>2
  <2>4. F[a + j] = r.parts[k][j]
    BY <1>4
  <2>5. Data(r.parts[k])[j] = <<"data", r.parts[k][j]>>
    BY <1>1, DataType
  <2> QED BY <2>3, <2>4, <2>5
<1>9. \A k \in 1..n : k-1 \in 0..n /\ k \in 0..n /\ n \in 0..n /\ 0 \in 0..n
  BY <1>1
<1>10. n \in 0..n /\ 0 \in 0..n
  BY <1>1
<1> QED BY ZenonT(30), <1>2, <1>4, <1>5, <1>6, <1>7, <1>8, <1>9, <1>10 DEF n

\* The header line of an answer.
HeaderByte(r) ==
  CASE r.kind \in {"length", "unspaced"}
                           -> <<r.kind, Len(Body(r))>>
    [] r.kind = "close"    -> <<"other", 0>>
    [] r.kind = "redirect" -> <<"location", 0>>
    [] r.kind = "chunked"  -> <<"chunked", 0>>

\* The status line, the header line, and the end of the header.
HeadOf(r) == <<<<"status", r.code>>>> \o CRLF \o (<<HeaderByte(r)>> \o CRLF) \o CRLF

\* The header is of eight bytes.
LEMMA HeadIs ==
  ASSUME NEW r \in Responses
  PROVE  LET h == HeadOf(r) IN
         /\ h \in Seq(Byte) /\ Len(h) = 8
         /\ h[1] = <<"status", r.code>> /\ h[2] = CR /\ h[3] = LF
         /\ h[4] = HeaderByte(r) /\ h[5] = CR /\ h[6] = LF
         /\ h[7] = CR /\ h[8] = LF
<1> DEFINE s == <<"status", r.code>>
           b == HeaderByte(r)
           x == <<s>> \o CRLF
           y == <<b>> \o CRLF
           xy == x \o y
           h == xy \o CRLF
<1>1. s \in Byte /\ b \in Byte
  <2>1. {"status", "length", "unspaced", "other", "location", "chunked"} \subseteq Names
    BY DEF Names
  <2>2. r.code \in Int /\ Len(Body(r)) \in Int /\ 0 \in Int /\ r.kind \in Kinds
    <3>1. r.code \in Nat /\ r.kind \in Kinds /\ Body(r) \in Seq(Byte)
      BY ChunksType, BodyIs
    <3> QED BY <3>1, LenProperties
  <2>3. s \in Byte
    BY <2>1, <2>2, Pairs
  <2>4. /\ <<"length", Len(Body(r))>> \in Byte /\ <<"unspaced", Len(Body(r))>> \in Byte
        /\ <<"other", 0>> \in Byte
        /\ <<"location", 0>> \in Byte /\ <<"chunked", 0>> \in Byte
    BY <2>1, <2>2, Pairs
  <2>5. b \in Byte
    BY <2>2, <2>4 DEF HeaderByte, Kinds
  <2> QED BY <2>3, <2>5
<1>2. HeadOf(r) = h
  BY DEF HeadOf
<1> HIDE DEF s, b
<1>3. /\ x \in Seq(Byte) /\ Len(x) = 3 /\ x[1] = s /\ x[2] = CR /\ x[3] = LF
      /\ y \in Seq(Byte) /\ Len(y) = 3 /\ y[1] = b /\ y[2] = CR /\ y[3] = LF
  BY <1>1, ThreeBytes
<1>4. CRLF \in Seq(Byte) /\ Len(CRLF) = 2 /\ CRLF[1] = CR /\ CRLF[2] = LF
  BY ByteTypes
<1> HIDE DEF x, y
<1>5. xy \in Seq(Byte) /\ IsConcat(xy, x, y)
  BY <1>3, ConcatIs
<1> HIDE DEF xy
<1>6. h \in Seq(Byte) /\ IsConcat(h, xy, CRLF)
  BY <1>4, <1>5, ConcatIs
<1> HIDE DEF h
<1>7. /\ Len(xy) = 6 /\ xy[1] = s /\ xy[2] = CR /\ xy[3] = LF
      /\ xy[4] = b /\ xy[5] = CR /\ xy[6] = LF
  <2>1. /\ 1 \in 1..Len(x) /\ 2 \in 1..Len(x) /\ 3 \in 1..Len(x)
        /\ 1 \in 1..Len(y) /\ 2 \in 1..Len(y) /\ 3 \in 1..Len(y)
    BY <1>3
  <2>2. xy[3+1] = b /\ xy[3+2] = CR /\ xy[3+3] = LF /\ Len(xy) = 3+3
    BY <1>3, <1>5, <2>1 DEF IsConcat
  <2>3. xy[1] = s /\ xy[2] = CR /\ xy[3] = LF
    BY <1>3, <1>5, <2>1 DEF IsConcat
  <2> QED BY <2>2, <2>3
<1>8. Len(h) = 8 /\ h[7] = CR /\ h[8] = LF /\ \A i \in 1..6 : h[i] = xy[i]
  <2>1. 1 \in 1..Len(CRLF) /\ 2 \in 1..Len(CRLF)
    BY <1>4
  <2>2. h[6+1] = CR /\ h[6+2] = LF /\ Len(h) = 6+2
    BY <1>4, <1>6, <1>7, <2>1 DEF IsConcat
  <2>3. \A i \in 1..6 : h[i] = xy[i]
    BY <1>6, <1>7 DEF IsConcat
  <2> QED BY <2>2, <2>3
<1> QED BY <1>2, <1>6, <1>7, <1>8 DEF s, b

\* What is sent when it is not chunked: the header and the body.
LEMMA WirePlain ==
  ASSUME NEW r \in Responses, r.kind # "chunked"
  PROVE  /\ Wire(r) = IF r.kind = "redirect" THEN HeadOf(r) ELSE HeadOf(r) \o Body(r)
BY ChunksType DEF Wire, HeadOf, HeaderByte, Kinds

\* What is sent when it is chunked.
LEMMA WireOfChunks ==
  ASSUME NEW r \in Responses, r.kind = "chunked"
  PROVE  Wire(r) = HeadOf(r) \o FlattenSeq(Chunks(r)) \o SizeLine(r, 0) \o CRLF
<1>1. Chunks(r) = [i \in DOMAIN r.parts |-> SizeLine(r, Len(r.parts[i])) \o Data(r.parts[i]) \o CRLF]
  BY DEF Chunks, Chunk
<1> QED BY <1>1 DEF Wire, HeadOf, HeaderByte

\* The first eight bytes of every answer.
WireHead(r) ==
  /\ Wire(r) \in Seq(Byte) /\ Len(Wire(r)) >= 8
  /\ Wire(r)[1] = <<"status", r.code>> /\ Wire(r)[2] = CR /\ Wire(r)[3] = LF
  /\ Wire(r)[4] = HeaderByte(r) /\ Wire(r)[5] = CR /\ Wire(r)[6] = LF
  /\ Wire(r)[7] = CR /\ Wire(r)[8] = LF

\* A prefix of eight bytes.
LEMMA HeadFirst ==
  ASSUME NEW r \in Responses, NEW t \in Seq(Byte), NEW w, w = HeadOf(r) \o t
  PROVE  /\ w \in Seq(Byte) /\ Len(w) = 8 + Len(t)
         /\ \A i \in 1..8 : w[i] = HeadOf(r)[i]
         /\ \A i \in 1..Len(t) : w[8 + i] = t[i]
<1>1. HeadOf(r) \in Seq(Byte) /\ Len(HeadOf(r)) = 8
  BY HeadIs
<1>2. w \in Seq(Byte) /\ IsConcat(w, HeadOf(r), t)
  BY <1>1, ConcatIs
<1> QED BY <1>1, <1>2 DEF IsConcat

\* The bytes of an answer that is not chunked.
LEMMA WireIs ==
  ASSUME NEW r \in Responses, r.kind # "chunked"
  PROVE  /\ WireHead(r)
         /\ r.kind # "redirect" =>
              /\ Len(Wire(r)) = 8 + Len(Body(r))
              /\ \A i \in 1..Len(Body(r)) : Wire(r)[8 + i] = Body(r)[i]
<1> DEFINE h == HeadOf(r)
<1>1. /\ h \in Seq(Byte) /\ Len(h) = 8
      /\ h[1] = <<"status", r.code>> /\ h[2] = CR /\ h[3] = LF
      /\ h[4] = HeaderByte(r) /\ h[5] = CR /\ h[6] = LF
      /\ h[7] = CR /\ h[8] = LF
  BY HeadIs
<1>2. CASE r.kind = "redirect"
  <2>1. Wire(r) = h
    BY <1>2, WirePlain
  <2> HIDE DEF h
  <2>2. Len(Wire(r)) = 8 /\ 8 >= 8
    BY <1>1, <2>1
  <2>3. WireHead(r)
    BY <1>1, <2>1, <2>2 DEF WireHead
  <2> QED BY <1>2, <2>3
<1>3. CASE r.kind # "redirect"
  <2>1. Wire(r) = h \o Body(r)
    BY <1>3, WirePlain
  <2>2. Body(r) \in Seq(Byte) /\ Len(Body(r)) \in Nat
    BY BodyIs, LenProperties
  <2>3. /\ Wire(r) \in Seq(Byte) /\ Len(Wire(r)) = 8 + Len(Body(r))
        /\ \A i \in 1..8 : Wire(r)[i] = h[i]
        /\ \A i \in 1..Len(Body(r)) : Wire(r)[8 + i] = Body(r)[i]
    BY <2>1, <2>2, HeadFirst
  <2> HIDE DEF h
  <2> QED BY <1>1, <2>2, <2>3 DEF WireHead
<1> QED BY <1>2, <1>3

\* A size line of n at position p of the answer r.
SizeAt(r, p, n) ==
  /\ \A i \in 1..r.pad : Wire(r)[p + i] = Hex(0)
  /\ Wire(r)[p + r.pad + 1] = Hex(n)
  /\ Wire(r)[p + r.pad + 2] = CR
  /\ Wire(r)[p + r.pad + 3] = LF

\* The chunks of an answer joined: what each has, and where.
LEMMA ChunksJoined ==
  ASSUME NEW r \in Responses
  PROVE  LET n == Len(r.parts)
             P == Offsets(Chunks(r))
             F == FlattenSeq(Chunks(r)) IN
         /\ P \in [0..n -> Nat] /\ P[0] = 0
         /\ \A k \in 1..n : P[k] = P[k-1] + r.pad + Len(r.parts[k]) + 5
         /\ \A k \in 0..n : P[k] <= P[n]
         /\ F \in Seq(Byte) /\ Len(F) = P[n]
         /\ \A k \in 1..n : \A j \in 1..r.pad + Len(r.parts[k]) + 5 :
              P[k-1] + j \in 1..Len(F) /\ F[P[k-1] + j] = Chunk(r, r.parts[k])[j]
<1> DEFINE n == Len(r.parts)
           C == Chunks(r)
           P == Offsets(C)
           F == FlattenSeq(C)
<1>1. /\ n \in Nat /\ r.pad \in Nat /\ C \in Seq(Seq(Byte)) /\ Len(C) = n
      /\ \A k \in 1..n : /\ r.parts[k] \in Seq(Nat) /\ Len(r.parts[k]) \in Nat
                         /\ C[k] = Chunk(r, r.parts[k])
  BY ChunksType
<1>2. \A k \in 1..n : Len(C[k]) = r.pad + Len(r.parts[k]) + 5
  <2>1. ASSUME NEW k \in 1..n PROVE Len(C[k]) = r.pad + Len(r.parts[k]) + 5
    <3>1. C[k] = Chunk(r, r.parts[k]) /\ r.parts[k] \in Seq(Nat) /\ Len(r.parts[k]) \in Nat
      BY <1>1
    <3>2. Len(Chunk(r, r.parts[k])) = (r.pad + 3) + Len(r.parts[k]) + 2
      BY <1>1, <3>1, ChunkIs
    <3> DEFINE p == r.pad
               l == Len(r.parts[k])
    <3>3. p \in Nat /\ l \in Nat /\ Len(C[k]) = (p + 3) + l + 2
      BY <1>1, <3>1, <3>2
    <3> HIDE DEF n, C, p, l
    <3>4. Len(C[k]) = p + l + 5
      BY <3>3
    <3> QED BY <3>4 DEF p, l
  <2> QED BY <2>1
<1> HIDE DEF n, C
<1>3. P \in [0..n -> Nat] /\ P[0] = 0 /\ \A k \in 1..n : P[k] = P[k-1] + Len(C[k])
  BY <1>1, OffsetsAre
<1>4. \A j \in 0..n : \A i \in 0..j : P[i] <= P[j]
  BY <1>1, OffsetsGrow
<1>5. /\ F \in Seq(Byte) /\ Len(F) = P[n]
      /\ \A k \in 1..n : \A j \in 1..Len(C[k]) : F[P[k-1]+j] = C[k][j]
  <2>1. P \in [0..Len(C) -> Nat] /\ P[0] = 0 /\ \A k \in 1..Len(C) : P[k] = P[k-1] + Len(C[k])
    BY <1>1, OffsetsAre
  <2>2. /\ F \in Seq(Byte) /\ Len(F) = P[Len(C)]
        /\ \A k \in 1..Len(C) : \A j \in 1..Len(C[k]) : F[P[k-1]+j] = C[k][j]
    <3>1. C \in Seq(Seq(Byte))
      BY <1>1
    <3> HIDE DEF P
    <3> QED BY ZenonT(30), <2>1, <3>1, FlattenAt
  <2> QED BY <1>1, <2>2
<1> HIDE DEF P, F
<1>6. \A k \in 0..n : P[k] \in Nat /\ P[k] <= P[n]
  <2>1. n \in 0..n
    BY <1>1
  <2> QED BY <1>3, <1>4, <2>1
<1>7. ASSUME NEW k \in 1..n PROVE P[k] = P[k-1] + r.pad + Len(r.parts[k]) + 5
  <2>1. k-1 \in 0..n
    BY <1>1
  <2> DEFINE a == P[k-1]
             l == Len(r.parts[k])
             p == r.pad
  <2>2. P[k] = a + (p + l + 5) /\ a \in Nat /\ l \in Nat /\ p \in Nat
    BY <1>1, <1>2, <1>3, <1>6, <2>1
  <2> HIDE DEF a, l, p
  <2>3. P[k] = a + p + l + 5
    BY <2>2
  <2> QED BY <2>3 DEF a, l, p
<1>8. ASSUME NEW k \in 1..n, NEW j \in 1..r.pad + Len(r.parts[k]) + 5
      PROVE  P[k-1] + j \in 1..Len(F) /\ F[P[k-1] + j] = Chunk(r, r.parts[k])[j]
  <2>1. k-1 \in 0..n /\ k \in 0..n
    BY <1>1
  <2>2. j \in 1..Len(C[k])
    BY <1>2
  <2>3. F[P[k-1] + j] = Chunk(r, r.parts[k])[j]
    BY <1>1, <1>5, <2>2
  <2> DEFINE a == P[k-1]
             b == P[k]
             c == P[n]
             l == Len(C[k])
             f == Len(F)
  <2>4. a + j \in 1..f
    <3>1. a \in Nat /\ b = a + l /\ b \in Nat /\ b <= c /\ f = c /\ c \in Nat /\ j \in 1..l
      BY <1>3, <1>5, <1>6, <2>1, <2>2
    <3>2. l \in Int
      BY <1>1, <1>2
    <3> HIDE DEF a, b, c, l, f
    <3> QED BY <3>1, <3>2
  <2> QED BY <2>3, <2>4
<1> QED BY <1>3, <1>5, <1>6, <1>7, <1>8 DEF n, P, C, F

\* The bytes of a chunked answer: where each chunk has its size line, its bytes
\* of the body and its CRLF, and the size line of 0 that ends the body.
LEMMA WireChunked ==
  ASSUME NEW r \in Responses, r.kind = "chunked"
  PROVE  LET n == Len(r.parts) IN
         /\ WireHead(r)
         /\ ChunkAt(r, 0) = 8 /\ n \in Nat
         /\ \A k \in 0..n : ChunkAt(r, k) \in Nat /\ ChunkAt(r, k) >= 8
         /\ \A k \in 0..n : ChunkAt(r, k) + r.pad + 5 <= Len(Wire(r))
         /\ \A k \in 1..n :
              /\ ChunkAt(r, k) = ChunkAt(r, k-1) + r.pad + Len(r.parts[k]) + 5
              /\ SizeAt(r, ChunkAt(r, k-1), Len(r.parts[k]))
              /\ \A j \in 1..Len(r.parts[k]) :
                   Wire(r)[ChunkAt(r, k-1) + r.pad + 3 + j] = Body(r)[BodyAt(r, k-1) + j]
              /\ Wire(r)[ChunkAt(r, k) - 1] = CR /\ Wire(r)[ChunkAt(r, k)] = LF
         /\ SizeAt(r, ChunkAt(r, n), 0)
         /\ Len(Wire(r)) = ChunkAt(r, n) + r.pad + 5
         /\ Wire(r)[Len(Wire(r)) - 1] = CR /\ Wire(r)[Len(Wire(r))] = LF
<1> DEFINE n == Len(r.parts)
           h == HeadOf(r)
           P == Offsets(Chunks(r))
           F == FlattenSeq(Chunks(r))
           z == SizeLine(r, 0)
           x == h \o F
           y == x \o z
           w == Wire(r)
           pad == r.pad
<1>1. /\ n \in Nat /\ pad \in Nat
      /\ \A k \in 1..n : r.parts[k] \in Seq(Nat) /\ Len(r.parts[k]) \in Nat
  BY ChunksType
<1>2. /\ P \in [0..n -> Nat] /\ P[0] = 0
      /\ \A k \in 1..n : P[k] = P[k-1] + pad + Len(r.parts[k]) + 5
      /\ \A k \in 0..n : P[k] <= P[n]
      /\ F \in Seq(Byte) /\ Len(F) = P[n]
      /\ \A k \in 1..n : \A j \in 1..pad + Len(r.parts[k]) + 5 :
           P[k-1] + j \in 1..Len(F) /\ F[P[k-1] + j] = Chunk(r, r.parts[k])[j]
  BY ChunksJoined
<1>3. /\ z \in Seq(Byte) /\ Len(z) = pad + 3
      /\ \A i \in 1..pad : z[i] = Hex(0)
      /\ z[pad + 1] = Hex(0) /\ z[pad + 2] = CR /\ z[pad + 3] = LF
  BY <1>1, SizeLineIs
<1>4. CRLF \in Seq(Byte) /\ Len(CRLF) = 2 /\ CRLF[1] = CR /\ CRLF[2] = LF
  BY ByteTypes
<1>5. w = y \o CRLF
  BY WireOfChunks
<1>6. /\ x \in Seq(Byte) /\ Len(x) = 8 + Len(F)
      /\ \A i \in 1..8 : x[i] = h[i]
      /\ \A i \in 1..Len(F) : x[8 + i] = F[i]
  <2>1. F \in Seq(Byte)
    BY <1>2
  <2> HIDE DEF F
  <2> QED BY <2>1, HeadFirst
<1>7. /\ h[1] = <<"status", r.code>> /\ h[2] = CR /\ h[3] = LF
      /\ h[4] = HeaderByte(r) /\ h[5] = CR /\ h[6] = LF
      /\ h[7] = CR /\ h[8] = LF
  BY HeadIs
<1>8. \A k \in 0..n : ChunkAt(r, k) = 8 + P[k]
  BY DEF ChunkAt
<1> DEFINE m == 8 + P[n]
<1>9. P[n] \in Nat /\ n \in 0..n /\ 0 \in 0..n /\ m \in Nat /\ m >= 8
  <2>1. n \in 0..n /\ 0 \in 0..n
    BY <1>1
  <2>2. P[n] \in Nat
    BY <1>2, <2>1
  <2> QED BY <2>1, <2>2
<1> HIDE DEF n, h, P, F, z, x, pad
<1>10. y \in Seq(Byte) /\ IsConcat(y, x, z)
  BY <1>3, <1>6, ConcatIs
<1> HIDE DEF y, w
<1>11. w \in Seq(Byte) /\ IsConcat(w, y, CRLF)
  BY <1>4, <1>5, <1>10, ConcatIs
<1>12. Len(x) = m /\ Len(y) = m + pad + 3 /\ Len(w) = m + pad + 5
  <2>1. Len(x) = m
    BY <1>2, <1>6
  <2>2. Len(y) = m + (pad + 3) /\ Len(w) = Len(y) + 2
    BY <1>3, <1>4, <1>10, <1>11, <2>1 DEF IsConcat
  <2> HIDE DEF m
  <2> QED BY <1>1, <1>9, <2>1, <2>2
<1> HIDE DEF m
<1>13. ASSUME NEW i \in 1..m PROVE w[i] = x[i]
  <2>1. i \in 1..Len(x) /\ i \in 1..Len(y)
    BY <1>1, <1>9, <1>12
  <2> QED BY <1>10, <1>11, <2>1 DEF IsConcat
<1>14. ASSUME NEW i \in 1..pad+3 PROVE w[m + i] = z[i]
  <2>1. i \in 1..Len(z) /\ m + i \in 1..Len(y)
    BY <1>1, <1>3, <1>9, <1>12
  <2> QED BY <1>10, <1>11, <1>12, <2>1 DEF IsConcat
<1>15. w[m + pad + 4] = CR /\ w[m + pad + 5] = LF
  <2>1. 1 \in 1..Len(CRLF) /\ 2 \in 1..Len(CRLF)
    BY <1>4
  <2>2. w[(m + pad + 3) + 1] = CR /\ w[(m + pad + 3) + 2] = LF
    BY <1>4, <1>11, <1>12, <2>1 DEF IsConcat
  <2>3. (m + pad + 3) + 1 = m + pad + 4 /\ (m + pad + 3) + 2 = m + pad + 5
    BY <1>1, <1>9
  <2> QED BY <2>2, <2>3
<1>16. WireHead(r)
  <2>1. \A i \in 1..8 : w[i] = h[i]
    BY <1>6, <1>9, <1>13
  <2>2. Len(w) >= 8
    BY <1>1, <1>9, <1>12
  <2> QED BY <1>7, <1>11, <2>1, <2>2 DEF WireHead, w
<1>17. SizeAt(r, m, 0)
  <2>1. \A i \in 1..pad : i \in 1..pad+3
    BY <1>1
  <2>2. pad + 1 \in 1..pad+3 /\ pad + 2 \in 1..pad+3 /\ pad + 3 \in 1..pad+3
    BY <1>1
  <2>3. \A i \in 1..pad : w[m + i] = Hex(0)
    BY <1>3, <1>14, <2>1
  <2>4. w[m + (pad + 1)] = Hex(0) /\ w[m + (pad + 2)] = CR /\ w[m + (pad + 3)] = LF
    BY <1>3, <1>14, <2>2
  <2>5. m + (pad + 1) = m + pad + 1 /\ m + (pad + 2) = m + pad + 2 /\ m + (pad + 3) = m + pad + 3
    BY <1>1, <1>9
  <2> QED BY <2>3, <2>4, <2>5 DEF SizeAt, w, pad
<1>18. ASSUME NEW k \in 1..n, NEW j \in 1..pad + Len(r.parts[k]) + 5
       PROVE  w[8 + P[k-1] + j] = Chunk(r, r.parts[k])[j]
  <2>1. k-1 \in 0..n
    BY <1>1
  <2> DEFINE a == P[k-1]
  <2>2. a + j \in 1..Len(F) /\ F[a + j] = Chunk(r, r.parts[k])[j]
    BY <1>2
  <2>3. a \in Nat /\ j \in Int /\ Len(F) \in Nat /\ Len(F) = P[n]
    <3>1. a \in Nat
      BY <1>2, <2>1
    <3>2. j \in Int /\ Len(F) = P[n]
      BY <1>1, <1>2
    <3> QED BY <1>9, <3>1, <3>2
  <2> HIDE DEF a
  <2>4. 8 + (a + j) \in 1..m /\ 8 + (a + j) = 8 + a + j
    BY <2>2, <2>3 DEF m
  <2>5. w[8 + (a + j)] = x[8 + (a + j)] /\ x[8 + (a + j)] = F[a + j]
    BY <1>6, <1>13, <2>2, <2>4
  <2>6. w[8 + a + j] = Chunk(r, r.parts[k])[j]
    BY <2>2, <2>4, <2>5
  <2> QED BY <2>6 DEF a
<1>19. ASSUME NEW k \in 1..n
       PROVE  /\ ChunkAt(r, k) = ChunkAt(r, k-1) + r.pad + Len(r.parts[k]) + 5
              /\ SizeAt(r, ChunkAt(r, k-1), Len(r.parts[k]))
              /\ \A j \in 1..Len(r.parts[k]) :
                   Wire(r)[ChunkAt(r, k-1) + r.pad + 3 + j] = Body(r)[BodyAt(r, k-1) + j]
              /\ Wire(r)[ChunkAt(r, k) - 1] = CR /\ Wire(r)[ChunkAt(r, k)] = LF
  <2> DEFINE a == 8 + P[k-1]
             l == Len(r.parts[k])
             c == Chunk(r, r.parts[k])
             s == SizeLine(r, l)
             d == Data(r.parts[k])
  <2>1. k-1 \in 0..n /\ k \in 0..n
    BY <1>1
  <2>2. /\ P[k-1] \in Nat /\ a \in Nat /\ l \in Nat
        /\ ChunkAt(r, k-1) = a /\ ChunkAt(r, k) = 8 + P[k] /\ P[k] = P[k-1] + pad + l + 5
    <3>1. P[k-1] \in Nat
      BY <1>2, <2>1
    <3>2. ChunkAt(r, k-1) = a /\ ChunkAt(r, k) = 8 + P[k]
      BY <1>8, <2>1
    <3>3. P[k] = P[k-1] + pad + l + 5
      BY <1>2, Zenon
    <3>4. a \in Nat /\ l \in Nat
      BY <1>1, <3>1
    <3> QED BY <3>1, <3>2, <3>3, <3>4
  <2>3. ChunkAt(r, k) = a + pad + l + 5
    <3> DEFINE q == P[k-1]
    <3>1. q \in Nat /\ ChunkAt(r, k) = 8 + (q + pad + l + 5) /\ a = 8 + q
      BY <2>2
    <3> HIDE DEF q, a, l
    <3> QED BY <1>1, <2>2, <3>1
  <2>4. \A j \in 1..pad + l + 5 : w[a + j] = c[j]
    BY <1>18
  <2>5. /\ \A i \in 1..pad+3 : c[i] = s[i]
        /\ \A j \in 1..l : c[pad + 3 + j] = d[j]
        /\ c[pad + 3 + l + 1] = CR /\ c[pad + 3 + l + 2] = LF
    <3>1. r.pad \in Nat /\ r.parts[k] \in Seq(Nat)
      BY <1>1 DEF pad
    <3> QED BY ZenonT(30), <3>1, ChunkIs DEF pad
  <2>6. /\ \A i \in 1..pad : s[i] = Hex(0)
        /\ s[pad + 1] = Hex(l) /\ s[pad + 2] = CR /\ s[pad + 3] = LF
    BY <1>1, <2>2, SizeLineIs DEF pad
  <2>7. \A j \in 1..l : Body(r)[BodyAt(r, k-1) + j] = d[j]
    BY BodyIs DEF n
  <2> HIDE DEF a, l, c, s, d
  <2>8. SizeAt(r, a, l)
    <3>1. \A i \in 1..pad : i \in 1..pad+3 /\ i \in 1..pad + l + 5
      BY <1>1, <2>2
    <3>2. /\ pad + 1 \in 1..pad+3 /\ pad + 2 \in 1..pad+3 /\ pad + 3 \in 1..pad+3
          /\ pad + 1 \in 1..pad+l+5 /\ pad + 2 \in 1..pad+l+5 /\ pad + 3 \in 1..pad+l+5
      BY <1>1, <2>2
    <3>3. \A i \in 1..pad : w[a + i] = Hex(0)
      BY <2>4, <2>5, <2>6, <3>1
    <3>4. w[a + (pad + 1)] = Hex(l) /\ w[a + (pad + 2)] = CR /\ w[a + (pad + 3)] = LF
      BY <2>4, <2>5, <2>6, <3>2
    <3>5. a + (pad + 1) = a + pad + 1 /\ a + (pad + 2) = a + pad + 2 /\ a + (pad + 3) = a + pad + 3
      BY SMTT(30), <1>1, <2>2
    <3> QED BY <3>3, <3>4, <3>5 DEF SizeAt, w, pad
  <2>9. ASSUME NEW j \in 1..l
        PROVE  w[a + pad + 3 + j] = Body(r)[BodyAt(r, k-1) + j]
    <3>1. pad + 3 + j \in 1..pad+l+5 /\ a + (pad + 3 + j) = a + pad + 3 + j
      BY <1>1, <2>2
    <3>2. w[a + (pad + 3 + j)] = d[j]
      BY <2>4, <2>5, <3>1
    <3> QED BY <2>7, <3>1, <3>2
  <2>10. w[(a + pad + l + 5) - 1] = CR /\ w[a + pad + l + 5] = LF
    <3>1. /\ pad + 3 + l + 1 \in 1..pad+l+5 /\ pad + 3 + l + 2 \in 1..pad+l+5
          /\ a + (pad + 3 + l + 1) = (a + pad + l + 5) - 1
          /\ a + (pad + 3 + l + 2) = a + pad + l + 5
      BY <1>1, <2>2
    <3>2. w[a + (pad + 3 + l + 1)] = CR /\ w[a + (pad + 3 + l + 2)] = LF
      BY <2>4, <2>5, <3>1
    <3> QED BY <3>1, <3>2
  <2>11. \A j \in 1..l : w[a + pad + 3 + j] = Body(r)[BodyAt(r, k-1) + j]
    BY <2>9
  <2> QED BY <2>2, <2>3, <2>8, <2>10, <2>11 DEF l, w, pad
<1>20. ChunkAt(r, 0) = 8 /\ ChunkAt(r, n) = m
  BY <1>2, <1>8, <1>9 DEF m
<1>21. ASSUME NEW k \in 0..n
       PROVE  ChunkAt(r, k) \in Nat /\ ChunkAt(r, k) >= 8 /\ ChunkAt(r, k) + pad + 5 <= Len(w)
  <2> DEFINE q == P[k]
             e == P[n]
  <2>1. q \in Nat /\ q <= e /\ e \in Nat /\ ChunkAt(r, k) = 8 + q
    BY <1>2, <1>8, <1>9
  <2>2. Len(w) = 8 + e + pad + 5
    BY <1>12 DEF m
  <2> HIDE DEF q, e
  <2> QED BY <1>1, <2>1, <2>2
<1>22. (m + pad + 5) - 1 = m + pad + 4
  BY <1>1, <1>9
<1> QED BY <1>1, <1>12, <1>15, <1>16, <1>17, <1>19, <1>20, <1>21, <1>22 DEF n, w, pad

\* The size that zeros and one more digit make.
LEMMA ChunkSizeIs ==
  ASSUME NEW line \in Seq(Byte), NEW p \in Nat, NEW n \in Nat, Len(line) = p + 1,
         \A i \in 1..p : line[i] = Hex(0), line[p+1] = Hex(n)
  PROVE  ChunkSize(line) = n
<1> DEFINE l == Len(line)
           value[i \in 0..l] ==
             IF i = 0 THEN 0
             ELSE IF line[i][1] = "hex" THEN 16 * value[i-1] + line[i][2] ELSE value[i-1]
           g == [i \in 1..l |-> [x \in Nat |->
                  IF line[i][1] = "hex" THEN 16 * x + line[i][2] ELSE x]]
           Step(v, i) == v[i] = IF line[i][1] = "hex" THEN 16 * v[i-1] + line[i][2] ELSE v[i-1]
<1>1. l \in Nat /\ l = p + 1 /\ 1 \in 1..l /\ p + 1 \in 1..l
  BY LenProperties
<1>2. ASSUME NEW i \in 1..l
      PROVE  line[i][1] = "hex" /\ line[i][2] \in Nat /\ (i <= p => line[i][2] = 0)
  <2>1. \A k \in Nat : Hex(k)[1] = "hex" /\ Hex(k)[2] = k
    BY ByteTypes
  <2>2. i \in 1..p \/ i = p + 1
    BY <1>1
  <2>3. CASE i \in 1..p
    <3>1. line[i] = Hex(0)
      BY <2>3
    <3> QED BY <2>1, <2>3, <3>1
  <2>4. CASE i = p + 1
    <3>1. line[i] = Hex(n) /\ ~(i <= p)
      BY <2>4
    <3> QED BY <2>1, <2>4, <3>1
  <2> QED BY <2>2, <2>3, <2>4
<1>3. line[1][1] = "hex" /\ line # <<>> /\ line[p+1][2] = n
  <2>1. line[1][1] = "hex"
    BY <1>1, <1>2
  <2>2. line[p+1][2] = n
    BY ByteTypes
  <2>3. line # <<>>
    BY <1>1, EmptySeq
  <2> QED BY <2>1, <2>2, <2>3
<1>4. ChunkSize(line) = value[l]
  BY <1>3 DEF ChunkSize
<1> HIDE DEF l
<1>5. value = [i \in 0..l |-> IF i = 0 THEN 0
                ELSE IF line[i][1] = "hex" THEN 16 * value[i-1] + line[i][2] ELSE value[i-1]]
  <2>1. g \in [1..l -> [Nat -> Nat]] /\ 0 \in Nat
    <3>1. ASSUME NEW i \in 1..l, NEW x \in Nat
          PROVE  (IF line[i][1] = "hex" THEN 16 * x + line[i][2] ELSE x) \in Nat
      BY <1>2
    <3> QED BY <3>1
  <2>2. PICK f : Iterates(f, Nat, 0, l, g)
    <3> HIDE DEF g
    <3> QED BY <1>1, <2>1, RecursionExists
  <2>3. f \in [0..l -> Nat] /\ f[0] = 0 /\ \A i \in 1..l : f[i] = g[i][f[i-1]]
    <3> HIDE DEF g
    <3> QED BY <2>2 DEF Iterates
  <2>4. ASSUME NEW i \in 0..l, i # 0 PROVE Step(f, i)
    <3>1. i \in 1..l /\ i-1 \in 0..l
      BY <1>1, <2>4
    <3>2. f[i] = g[i][f[i-1]] /\ f[i-1] \in Nat
      <4> HIDE DEF g
      <4> QED BY <2>3, <3>1
    <3> QED BY <3>1, <3>2
  <2>5. f = [i \in 0..l |-> IF i = 0 THEN 0
              ELSE IF line[i][1] = "hex" THEN 16 * f[i-1] + line[i][2] ELSE f[i-1]]
    <3> HIDE DEF g
    <3> QED BY <2>3, <2>4
  <2> HIDE DEF g
  <2> QED BY <2>5
<1> HIDE DEF value
<1>6. value[0] = 0 /\ \A i \in 1..l : value[i] = 16 * value[i-1] + line[i][2]
  <2>1. 0 \in 0..l /\ \A i \in 1..l : i \in 0..l /\ i # 0
    BY <1>1
  <2> QED BY <1>2, <1>5, <2>1
<1> DEFINE T == {i \in 0..p : value[i] # 0}
<1>7. T = {}
  <2>1. SUFFICES ASSUME T # {} PROVE FALSE
    OBVIOUS
  <2>2. PICK m \in T : \A y \in T : m <= y
    <3>1. T \subseteq Nat
      OBVIOUS
    <3> HIDE DEF T
    <3> QED BY <2>1, <3>1, LeastNat
  <2>3. m \in 0..p /\ value[m] # 0
    OBVIOUS
  <2>4. m # 0 /\ m-1 \in 0..p /\ ~(m <= m-1) /\ m \in 1..l /\ m <= p
    BY <1>1, <1>6, <2>3
  <2>5. value[m-1] = 0
    <3>1. m-1 \in T \/ value[m-1] = 0
      BY <2>4
    <3> HIDE DEF T
    <3> QED BY <2>2, <2>4, <3>1
  <2>6. value[m] = 16 * value[m-1] + line[m][2] /\ line[m][2] = 0
    BY <1>2, <1>6, <2>4
  <2> QED BY <2>3, <2>5, <2>6
<1>8. value[p] = 0 /\ (p + 1) - 1 = p
  BY <1>7
<1>9. value[p+1] = 16 * value[(p+1)-1] + line[p+1][2]
  BY <1>1, <1>6
<1>10. value[p+1] = n
  BY <1>3, <1>8, <1>9
<1> QED BY <1>1, <1>4, <1>10

-----------------------------------------------------------------------------
(* What is left of the answer when bytes are received and consumed         *)

\* What is received is put behind what is in the buffer.
LEMMA ContinuesMore ==
  ASSUME NEW r, NEW e, NEW u \in Seq(Byte), NEW w \in Seq(Byte), NEW p \in Int,
         Continues(r, e, u, w, p), NEW n \in 0..Len(w)
  PROVE  Continues(r, e, u \o Take(w, n), Drop(w, n), p)
<1> DEFINE t == Take(w, n)
           d == Drop(w, n)
           ut == u \o t
           W == Wire(r)
           q == p + Len(u)
<1>1. /\ t \in Seq(Byte) /\ Len(t) = n /\ \A i \in 1..n : t[i] = w[i]
      /\ d \in Seq(Byte) /\ Len(d) = Len(w) - n /\ \A i \in 1..Len(w)-n : d[i] = w[n+i]
  BY TakeDrop
<1>2. Len(u) \in Nat /\ Len(w) \in Nat /\ n \in Nat /\ n <= Len(w) /\ q \in Int
  BY LenProperties
<1>3. /\ \A i \in 1..Len(u) : u[i] = W[p+i]
      /\ q + Len(w) <= Len(W) /\ \A i \in 1..Len(w) : w[i] = W[q+i]
      /\ q + Len(w) = Len(W) \/ "died" \in e
  BY DEF Continues, Shows, Reads
<1> HIDE DEF t, d, W
<1>4. IsConcat(ut, u, t)
  BY <1>1, ConcatIs
<1> HIDE DEF ut
<1>5. Len(ut) = Len(u) + n
  BY <1>1, <1>4 DEF IsConcat
<1>6. ASSUME NEW i \in 1..Len(ut) PROVE ut[i] = W[p+i]
  <2>1. CASE i <= Len(u)
    BY <1>2, <1>3, <1>4, <1>5, <2>1 DEF IsConcat
  <2>2. CASE ~(i <= Len(u))
    <3> DEFINE j == i - Len(u)
    <3>1. j \in 1..n /\ j \in 1..Len(w) /\ Len(u) + j = i /\ q + j = p + i
      BY <1>2, <1>5, <2>2
    <3> HIDE DEF j, q
    <3>2. ut[Len(u) + j] = t[j]
      BY <1>1, <1>4, <3>1 DEF IsConcat
    <3>3. t[j] = w[j] /\ w[j] = W[q+j]
      BY <1>1, <1>3, <3>1
    <3> QED BY <3>1, <3>2, <3>3
  <2> QED BY <2>1, <2>2
<1>7. p + Len(ut) = q + n
  BY <1>2, <1>5
<1>8. q + n + Len(d) = q + Len(w)
  BY <1>1, <1>2
<1>9. ASSUME NEW i \in 1..Len(d) PROVE d[i] = W[q+n+i]
  <2>1. i \in 1..Len(w)-n /\ n+i \in 1..Len(w) /\ q+(n+i) = q+n+i
    BY <1>1, <1>2
  <2> HIDE DEF q
  <2>2. d[i] = w[n+i] /\ w[n+i] = W[q+(n+i)]
    BY <1>1, <1>3, <2>1
  <2> QED BY <2>1, <2>2
<1> HIDE DEF q
<1>10. Shows(r, ut, p)
  BY <1>6 DEF Shows, W
<1>11. Reads(r, e, d, q + n)
  BY <1>3, <1>8, <1>9 DEF Reads, Shows, W
<1> QED BY <1>7, <1>10, <1>11 DEF Continues, t, d, ut

\* The first n bytes of the buffer are consumed.
LEMMA ContinuesDrop ==
  ASSUME NEW r, NEW e, NEW u \in Seq(Byte), NEW w, NEW p \in Int,
         Continues(r, e, u, w, p), NEW n \in 0..Len(u)
  PROVE  Continues(r, e, Drop(u, n), w, p + n)
<1> DEFINE d == Drop(u, n)
<1>1. d \in Seq(Byte) /\ Len(d) = Len(u) - n /\ \A i \in 1..Len(u)-n : d[i] = u[n+i]
  BY TakeDrop
<1>2. Len(u) \in Nat /\ n \in Nat /\ n <= Len(u)
  BY LenProperties
<1>3. (\A i \in 1..Len(u) : u[i] = Wire(r)[p+i]) /\ Reads(r, e, w, p + Len(u))
  BY DEF Continues, Shows
<1> HIDE DEF d
<1>4. ASSUME NEW i \in 1..Len(d) PROVE d[i] = Wire(r)[(p+n)+i]
  <2>1. i \in 1..Len(u)-n /\ n+i \in 1..Len(u) /\ p+(n+i) = (p+n)+i
    BY <1>1, <1>2
  <2> QED BY <1>1, <1>3, <2>1
<1>5. (p + n) + Len(d) = p + Len(u)
  BY <1>1, <1>2
<1> QED BY <1>3, <1>4, <1>5 DEF Continues, Shows, d

\* An empty buffer.
LEMMA ContinuesEmpty ==
  ASSUME NEW r, NEW e, NEW w, NEW p \in Int
  PROVE  Continues(r, e, <<>>, w, p) <=> Reads(r, e, w, p)
<1>1. Len(<<>>) = 0 /\ p + 0 = p
  OBVIOUS
<1>2. Shows(r, <<>>, p)
  BY <1>1 DEF Shows
<1> QED BY <1>1, <1>2 DEF Continues

\* All of the buffer is consumed.
LEMMA ContinuesAll ==
  ASSUME NEW r, NEW e, NEW u \in Seq(Byte), NEW w, NEW p \in Int, Continues(r, e, u, w, p)
  PROVE  Continues(r, e, <<>>, w, p + Len(u))
<1>1. p + Len(u) \in Int
  BY LenProperties
<1> QED BY <1>1, ContinuesEmpty DEF Continues

\* A buffer is consumed and what is received takes its place.
LEMMA ContinuesNew ==
  ASSUME NEW r, NEW e, NEW u \in Seq(Byte), NEW w \in Seq(Byte), NEW p \in Int,
         Continues(r, e, u, w, p), NEW n \in 0..Len(w)
  PROVE  Continues(r, e, Take(w, n), Drop(w, n), p + Len(u))
<1>1. p + Len(u) \in Int /\ <<>> \in Seq(Byte) /\ Take(w, n) \in Seq(Byte)
  BY LenProperties, TakeDrop
<1>2. Continues(r, e, <<>>, w, p + Len(u))
  BY ContinuesAll
<1>3. Continues(r, e, <<>> \o Take(w, n), Drop(w, n), p + Len(u))
  BY <1>1, <1>2, ContinuesMore
<1>4. <<>> \o Take(w, n) = Take(w, n)
  BY <1>1
<1> QED BY <1>3, <1>4

\* The server dies: some of what is on the connection is lost.
LEMMA ContinuesCut ==
  ASSUME NEW r, NEW e, NEW u, NEW w \in Seq(Byte), NEW p \in Int, p + Len(u) \in Int,
         Continues(r, e, u, w, p), Len(Wire(r)) \in Int,
         NEW n \in 0..Len(w), NEW f, "died" \in f
  PROVE  Continues(r, f, u, Take(w, n), p)
<1>1. Len(Take(w, n)) = n /\ \A i \in 1..n : Take(w, n)[i] = w[i]
  BY TakeDrop
<1>2. Len(w) \in Nat /\ n \in Nat /\ n <= Len(w)
  BY LenProperties
<1> DEFINE q == p + Len(u)
<1>3. /\ Shows(r, u, p) /\ q + Len(w) <= Len(Wire(r))
      /\ \A i \in 1..Len(w) : w[i] = Wire(r)[q+i]
  BY DEF Continues, Reads, Shows
<1>4. q \in Int
  OBVIOUS
<1> HIDE DEF q
<1>5. q + n <= Len(Wire(r))
  BY <1>2, <1>3, <1>4
<1>6. \A i \in 1..n : i \in 1..Len(w)
  BY <1>2
<1>7. Shows(r, Take(w, n), q)
  BY <1>1, <1>3, <1>6 DEF Shows
<1> QED BY <1>1, <1>3, <1>5, <1>7 DEF Continues, Reads, q

\* More has happened that explains an error.
LEMMA ContinuesExcused ==
  ASSUME NEW r, NEW e, NEW u, NEW w, NEW p, Continues(r, e, u, w, p), NEW f, e \subseteq f
  PROVE  Continues(r, f, u, w, p)
BY DEF Continues, Reads

-----------------------------------------------------------------------------
(* What is given to the application                                        *)

\* Bytes of the body and the bytes behind them.
LEMMA InBodyMore ==
  ASSUME NEW r, NEW u \in Seq(Byte), NEW v \in Seq(Byte), NEW D \in Nat,
         InBody(r, u, D), InBody(r, v, D + Len(u))
  PROVE  InBody(r, u \o v, D)
<1> DEFINE uv == u \o v
           B == Body(r)
           m == Len(u)
           n == Len(v)
<1>1. IsConcat(uv, u, v)
  BY ConcatIs
<1>2. m \in Nat /\ n \in Nat
  BY LenProperties
<1>3. /\ \A i \in 1..m : u[i] = B[D+i]
      /\ (D + m) + n <= Len(B) /\ \A i \in 1..n : v[i] = B[(D+m)+i]
  BY DEF InBody
<1> HIDE DEF uv, B
<1>4. Len(uv) = m + n
  BY <1>1 DEF IsConcat
<1>5. ASSUME NEW i \in 1..Len(uv) PROVE uv[i] = B[D+i]
  <2>1. CASE i <= m
    <3>1. i \in 1..m
      BY <1>2, <1>4, <2>1
    <3> QED BY <1>1, <1>3, <3>1 DEF IsConcat
  <2>2. CASE ~(i <= m)
    <3> DEFINE j == i - m
    <3>1. j \in 1..n /\ m + j = i /\ (D + m) + j = D + i
      BY <1>2, <1>4, <2>2
    <3> HIDE DEF j
    <3>2. uv[m + j] = v[j]
      BY <1>1, <3>1 DEF IsConcat
    <3> QED BY <1>3, <3>1, <3>2
  <2> QED BY <2>1, <2>2
<1>6. D + (m + n) = (D + m) + n
  BY <1>2
<1> QED BY <1>3, <1>4, <1>5, <1>6 DEF InBody, uv, B

\* Nothing, behind any of the bytes.
LEMMA InBodyEmpty ==
  ASSUME NEW r, NEW D \in Nat, D <= Len(Body(r))
  PROVE  InBody(r, <<>>, D)
<1>1. Len(<<>>) = 0 /\ D + 0 = D
  OBVIOUS
<1> QED BY <1>1 DEF InBody

\* All of the body.
LEMMA InBodyWhole ==
  ASSUME NEW r \in Responses, NEW u \in Seq(Byte), InBody(r, u, 0), Len(u) = Len(Body(r))
  PROVE  u = Body(r)
<1>1. Body(r) \in Seq(Byte)
  BY BodyIs
<1>2. \A i \in 1..Len(u) : u[i] = Body(r)[0+i]
  BY DEF InBody
<1>3. \A i \in 1..Len(u) : 0+i = i
  OBVIOUS
<1> QED BY <1>1, <1>2, <1>3, SeqEqual

\* The first bytes of the body are a prefix of it.
LEMMA InBodyPrefix ==
  ASSUME NEW r, Body(r) \in Seq(Byte), NEW u \in Seq(Byte), InBody(r, u, 0)
  PROVE  IsPrefix(u, Body(r))
<1> DEFINE n == Len(u)
           B == Body(r)
<1>1. n \in Nat /\ Len(B) \in Nat
  BY LenProperties
<1>2. n <= Len(B) /\ \A i \in 1..n : u[i] = B[i]
  <2>1. 0 + n <= Len(B) /\ \A i \in 1..n : u[i] = B[0+i]
    BY DEF InBody
  <2>2. 0 + n = n /\ \A i \in 1..n : 0+i = i
    BY <1>1
  <2> QED BY <2>1, <2>2
<1>3. n \in 0..Len(u) /\ n \in 0..Len(B)
  BY <1>1, <1>2
<1> HIDE DEF B
<1>4. B \in Seq(Byte)
  BY DEF B
<1>5. /\ Take(u, n) \in Seq(Byte) /\ Len(Take(u, n)) = n /\ \A i \in 1..n : Take(u, n)[i] = u[i]
      /\ Take(B, n) \in Seq(Byte) /\ Len(Take(B, n)) = n /\ \A i \in 1..n : Take(B, n)[i] = B[i]
  <2> HIDE DEF n
  <2> QED BY <1>3, <1>4, TakeDrop
<1>6. Take(u, n) = Take(B, n)
  <2>1. \A i \in 1..n : Take(u, n)[i] = Take(B, n)[i]
    BY <1>2, <1>5
  <2> HIDE DEF n
  <2> QED BY <1>5, <2>1, SeqEqual
<1>7. Take(u, n) = SubSeq(u, 1, n) /\ Take(B, n) = SubSeq(B, 1, n)
  BY <1>1, <1>2 DEF Take, Least
<1> QED BY <1>2, <1>6, <1>7 DEF IsPrefix, B

\* The bytes in the buffer are of a body that is not chunked.
LEMMA PlainBytes ==
  ASSUME NEW r \in Responses, r.kind \in {"length", "close", "unspaced"}, NEW e,
         NEW u \in Seq(Byte), NEW w \in Seq(Byte), NEW D \in Nat,
         Continues(r, e, u, w, 8 + D), NEW n \in 0..Len(u)
  PROVE  InBody(r, Take(u, n), D)
<1> DEFINE W == Wire(r)
           B == Body(r)
<1>1. /\ Len(W) = 8 + Len(B) /\ Len(B) \in Nat
      /\ \A i \in 1..Len(B) : W[8 + i] = B[i]
  <2>1. B \in Seq(Byte)
    BY BodyIs
  <2> QED BY <2>1, WireIs, LenProperties
<1>2. /\ \A i \in 1..Len(u) : u[i] = W[(8+D)+i]
      /\ ((8 + D) + Len(u)) + Len(w) <= Len(W)
  BY DEF Continues, Shows, Reads
<1>3. Len(u) \in Nat /\ Len(w) \in Nat /\ n \in Nat /\ n <= Len(u)
  BY LenProperties
<1>4. Len(Take(u, n)) = n /\ \A i \in 1..n : Take(u, n)[i] = u[i]
  BY TakeDrop
<1> HIDE DEF W, B
<1>5. D + n <= Len(B)
  BY <1>1, <1>2, <1>3
<1>6. ASSUME NEW i \in 1..n PROVE Take(u, n)[i] = B[D+i]
  <2>1. i \in 1..Len(u) /\ D+i \in 1..Len(B) /\ (8+D)+i = 8+(D+i)
    BY <1>1, <1>3, <1>5
  <2>2. Take(u, n)[i] = u[i] /\ u[i] = W[(8+D)+i]
    BY <1>2, <1>4, <2>1
  <2> QED BY <1>1, <2>1, <2>2
<1> QED BY <1>4, <1>5, <1>6 DEF InBody, B

\* The bytes in the buffer are of chunk k, of which left bytes are missing.
LEMMA ChunkBytes ==
  ASSUME NEW r \in Responses, r.kind = "chunked", NEW e,
         NEW u \in Seq(Byte), NEW w \in Seq(Byte), NEW D \in Nat, NEW left \in Nat,
         NEW k \in 1..Len(r.parts), BodyAt(r, k-1) <= D, D + left = BodyAt(r, k),
         Continues(r, e, u, w, ChunkAt(r, k) - 2 - left), NEW n \in 0..Len(u), n <= left
  PROVE  InBody(r, Take(u, n), D)
<1> DEFINE W == Wire(r)
           B == Body(r)
           a == ChunkAt(r, k-1)
           b == BodyAt(r, k-1)
           s == Len(r.parts[k])
           pad == r.pad
           c == ChunkAt(r, k)
           bk == BodyAt(r, k)
           m == Len(r.parts)
<1>1. m \in Nat /\ pad \in Nat /\ s \in Nat
  BY ChunksType
<1>2. k-1 \in 0..m /\ k \in 0..m
  BY <1>1
<1>3. /\ a \in Nat /\ c \in Nat /\ c = a + pad + s + 5
      /\ \A j \in 1..s : W[a + pad + 3 + j] = B[b + j]
  BY <1>2, WireChunked
<1>4. b \in Nat /\ bk \in Nat /\ bk <= Len(B) /\ bk = b + s
  BY <1>2, BodyIs
<1>5. \A i \in 1..Len(u) : u[i] = W[(c - 2 - left)+i]
  BY DEF Continues, Shows
<1>6. Len(u) \in Nat /\ Len(B) \in Nat /\ n \in Nat /\ n <= Len(u)
  <2>1. B \in Seq(Byte)
    BY BodyIs
  <2> QED BY <2>1, LenProperties
<1>7. Len(Take(u, n)) = n /\ \A i \in 1..n : Take(u, n)[i] = u[i]
  BY TakeDrop
<1>8. b <= D /\ D + left = bk
  OBVIOUS
<1> HIDE DEF W, B, a, b, s, pad, c, bk
<1>9. D + n <= Len(B)
  BY <1>4, <1>6, <1>8
<1>10. ASSUME NEW i \in 1..n PROVE Take(u, n)[i] = B[D+i]
  <2> DEFINE j == i + (s - left)
  <2>1. /\ i \in 1..Len(u) /\ j \in 1..s
        /\ a + pad + 3 + j = (c - 2 - left)+i /\ b + j = D + i
    BY <1>1, <1>3, <1>4, <1>6, <1>8
  <2> HIDE DEF j
  <2>2. Take(u, n)[i] = u[i] /\ u[i] = W[(c - 2 - left)+i]
    BY <1>5, <1>7, <2>1
  <2>3. W[a + pad + 3 + j] = B[b + j]
    BY <1>3, <2>1
  <2> QED BY <2>1, <2>2, <2>3
<1> QED BY <1>7, <1>9, <1>10 DEF InBody, B

-----------------------------------------------------------------------------
(* The steps before an answer                                              *)

\* No answer has no body.
LEMMA BodyOfNone ==
  /\ Body(None) \in Seq(Byte) /\ InBody(None, <<>>, 0)
  /\ \A r \in Responses : Body(r) \in Seq(Byte) /\ InBody(r, <<>>, 0)
<1>1. FlattenSeq(<<>>) = <<>>
  BY DEF FlattenSeq
<1>2. Body(None) = Data(<<>>) /\ <<>> \in Seq(Nat)
  BY <1>1 DEF Body, None
<1>3. Body(None) \in Seq(Byte)
  BY <1>2, DataType
<1>4. \A r \in Responses : Body(r) \in Seq(Byte)
  BY BodyIs
<1>5. ASSUME NEW r \in Responses \cup {None} PROVE InBody(r, <<>>, 0)
  <2>1. Body(r) \in Seq(Byte)
    BY <1>3, <1>4
  <2>2. 0 <= Len(Body(r))
    BY <2>1, LenProperties
  <2> QED BY <2>2, InBodyEmpty
<1> QED BY <1>3, <1>4, <1>5

\* A client that has not begun.
LEMMA InitInv == Init => IInv
<1> SUFFICES ASSUME Init PROVE IInv
  OBVIOUS
<1>1. /\ pc = "idle" /\ stage = "closed" /\ socket = "none" /\ response = None /\ delivered = <<>>
      /\ wire = <<>> /\ pending = <<>> /\ headerBuf = <<>> /\ responseBuf = <<>>
      /\ isMore = FALSE /\ isChunked = FALSE /\ peerClosed = FALSE
      /\ retrieveLen = 0 /\ contentLen = 0 /\ result = "OK"
  BY DEF Init
<1>2. <<>> \in Seq(Byte) /\ 0 \in Int /\ InBody(None, <<>>, 0)
  BY BodyOfNone
<1>3. TypeInv
  BY <1>1, <1>2 DEF TypeInv, Pcs
<1>4. GivenInv
  BY InitSending
<1>5. CommonInv
  BY <1>1, <1>2 DEF CommonInv
<1>6. ClosedInv
  BY <1>1 DEF ClosedInv
<1>7. FreshInv /\ ReadyInv /\ HeaderInv
  BY <1>1 DEF FreshInv, Fresh, ReadyInv, HeaderInv
<1>8. ContentInv /\ RoomInv
  BY <1>1 DEF ContentInv, Contents, Mid, RoomInv
<1> QED BY <1>3, <1>4, <1>5, <1>6, <1>7, <1>8 DEF IInv

\* A call that fails leaves nothing to account for but what it has delivered
\* and why it failed.
LEMMA FailKeeps ==
  ASSUME IInv, NEW r, Fail(r), TypeInv', UNCHANGED <<given, response, peerClosed>>,
         excuses \subseteq excuses', r \in {"ERROR_PRTCL", "ERROR"} => excuses' # {}
  PROVE  IInv'
<1>1. /\ pc' \in {"close", "idle"} /\ stage' = "failed" /\ result' = r /\ delivered' = delivered
  BY DEF Fail, Return
<1>2. GivenInv'
  BY DEF IInv, GivenInv, given
<1>3. CommonInv'
  BY <1>1 DEF IInv, CommonInv
<1>4. ClosedInv' /\ FreshInv' /\ ReadyInv' /\ HeaderInv'
  BY <1>1 DEF ClosedInv, FreshInv, Fresh, ReadyInv, HeaderInv
<1>5. ContentInv' /\ RoomInv'
  BY <1>1 DEF ContentInv, Contents, Mid, RoomInv
<1> QED BY <1>1, <1>2, <1>3, <1>4, <1>5 DEF IInv

\* The application begins with a connection.
LEMMA BeginInv == ASSUME IInv, NEW all \in BOOLEAN, NEW m, Begin(all, m) PROVE IInv'
<1>1. /\ pc = "idle" /\ stage = "closed" /\ pc' = "connect" /\ socket' = socket
      /\ response' = None /\ delivered' = <<>> /\ excuses' = {} /\ result' = "OK"
      /\ isMore' = FALSE /\ isChunked' = FALSE /\ retrieveLen' = 0 /\ contentLen' = 0
      /\ responseBuf' = <<>> /\ headerBuf' = <<>> /\ pending' = <<>>
      /\ UNCHANGED <<given, wire, peerClosed, stage>>
  BY DEF Begin, client, net
<1>2. <<>> \in Seq(Byte) /\ 0 \in Int /\ InBody(None, <<>>, 0)
  BY BodyOfNone
<1>3. TypeInv'
  BY <1>1, <1>2 DEF IInv, TypeInv, Pcs
<1>4. GivenInv'
  BY <1>1 DEF IInv, GivenInv, given
<1>5. CommonInv'
  BY <1>1, <1>2 DEF CommonInv
<1>6. ClosedInv'
  BY <1>1 DEF IInv, ClosedInv
<1>7. FreshInv' /\ ReadyInv' /\ HeaderInv'
  BY <1>1 DEF FreshInv, Fresh, ReadyInv, HeaderInv
<1>8. ContentInv' /\ RoomInv'
  BY <1>1 DEF ContentInv, Contents, Mid, RoomInv
<1> QED BY <1>3, <1>4, <1>5, <1>6, <1>7, <1>8 DEF IInv

\* The connection is there, or it is not.
LEMMA ConnectInv == IInv /\ httpclient_connect => IInv'
<1> SUFFICES ASSUME IInv, httpclient_connect PROVE IInv'
  OBVIOUS
<1>1. /\ pc = "connect" /\ wire' = <<>> /\ peerClosed' = FALSE /\ got' = <<>>
      /\ UNCHANGED <<data, given, pending, response, excuses>>
  BY DEF httpclient_connect, history
<1>2. response = None /\ isMore = FALSE /\ delivered = <<>>
  BY <1>1 DEF IInv, ClosedInv, CommonInv, TypeInv
<1>3. \/ pc' = "send" /\ delivered' = delivered /\ result' = result
      \/ pc' \in {"idle", "close"} /\ stage' = "ready" /\ delivered' = delivered /\ result' = "OK"
      \/ pc' \in {"idle", "close"} /\ stage' = "failed" /\ delivered' = delivered /\ result' = "ERROR_CONN"
  BY DEF httpclient_connect, Go, Return, Fail
<1>4. <<>> \in Seq(Byte)
  OBVIOUS
<1>5. TypeInv'
  <2>1. delivered' = delivered /\ pc' \in Pcs
    BY <1>3 DEF Pcs
  <2> QED BY <1>1, <1>4, <2>1 DEF IInv, TypeInv, data
<1>6. GivenInv'
  BY <1>1 DEF IInv, GivenInv, given
<1>7. CommonInv'
  BY <1>1, <1>3 DEF IInv, CommonInv
<1>8. ClosedInv' /\ HeaderInv'
  BY <1>3 DEF ClosedInv, HeaderInv
<1>9. FreshInv' /\ ReadyInv'
  BY <1>1, <1>2, <1>3 DEF FreshInv, Fresh, ReadyInv, data
<1>10. ContentInv' /\ RoomInv'
  BY <1>1, <1>2, <1>3 DEF ContentInv, Contents, Mid, RoomInv, data
<1> QED BY <1>5, <1>6, <1>7, <1>8, <1>9, <1>10 DEF IInv

\* The connection is closed.
LEMMA CloseInv == IInv /\ httpclient_close => IInv'
<1> SUFFICES ASSUME IInv, httpclient_close PROVE IInv'
  OBVIOUS
<1>1. /\ pc' = "idle" /\ stage' = "closed" /\ socket' = "none" /\ wire' = <<>> /\ peerClosed' = FALSE
      /\ pc \in {"idle", "close"}
      /\ UNCHANGED <<data, given, pending, response, excuses, result, delivered>>
  BY DEF httpclient_close, history
<1>2. <<>> \in Seq(Byte)
  OBVIOUS
<1>3. TypeInv'
  BY <1>1, <1>2 DEF IInv, TypeInv, data, Pcs
<1>4. GivenInv'
  BY <1>1 DEF IInv, GivenInv, given
<1>5. CommonInv'
  BY <1>1 DEF IInv, CommonInv
<1>6. ClosedInv' /\ FreshInv' /\ ReadyInv' /\ HeaderInv'
  BY <1>1 DEF ClosedInv, FreshInv, Fresh, ReadyInv, HeaderInv
<1>7. ContentInv' /\ RoomInv'
  BY <1>1 DEF ContentInv, Contents, Mid, RoomInv
<1> QED BY <1>3, <1>4, <1>5, <1>6, <1>7 DEF IInv

\* A step on the way of the request, which reads nothing.
LEMMA OnTheWay ==
  ASSUME IInv, Fresh, UNCHANGED <<data, given, pending, wire, peerClosed, history, delivered, result>>,
         pc' \in {"userdata", "sent", "recv"}
  PROVE  IInv'
<1>1. UNCHANGED <<isMore, isChunked, retrieveLen, contentLen, responseBuf, headerBuf, bufLen, hasPost,
                  header, pending, wire, peerClosed, response, excuses, delivered, result>>
  BY DEF data, given, history
<1>2. ~isMore
  BY DEF IInv, FreshInv
<1>3. TypeInv' /\ GivenInv'
  BY <1>1 DEF IInv, TypeInv, GivenInv, Pcs
<1>4. CommonInv'
  <2>1. result \notin {"ERROR_PRTCL", "ERROR"}
    <3>1. ~(pc = "close" \/ (pc = "idle" /\ stage \in {"failed", "closed"}))
      BY DEF Fresh
    <3> QED BY <3>1 DEF IInv, CommonInv
  <2> QED BY <1>1, <2>1 DEF IInv, CommonInv
<1>5. FreshInv'
  BY <1>1 DEF IInv, FreshInv, Stale
<1>6. ClosedInv' /\ ReadyInv' /\ HeaderInv'
  BY DEF ClosedInv, ReadyInv, HeaderInv
<1>7. ContentInv' /\ RoomInv'
  BY <1>1, <1>2 DEF ContentInv, Contents, Mid, RoomInv
<1> QED BY <1>3, <1>4, <1>5, <1>6, <1>7 DEF IInv

\* A failure before an answer: of the connection, which needs no reason.
LEMMA ConnFails ==
  ASSUME IInv, Fail("ERROR_CONN"), UNCHANGED <<data, given, pending, wire, peerClosed, history>>
  PROVE  IInv'
<1>1. pc' \in Pcs /\ UNCHANGED delivered
  BY DEF Fail, Return, Pcs
<1>2. TypeInv'
  BY <1>1 DEF IInv, TypeInv, data, history
<1> QED BY <1>2, FailKeeps DEF history

\* The header of the request, and its data.
LEMMA SendInv == IInv /\ (httpclient_send_header \/ httpclient_send_userdata) => IInv'
<1> SUFFICES ASSUME IInv, httpclient_send_header \/ httpclient_send_userdata PROVE IInv'
  OBVIOUS
<1>1. Fresh /\ UNCHANGED <<data, given, pending, wire, peerClosed, history>>
  BY DEF httpclient_send_header, httpclient_send_userdata, Fresh
<1>2. Fail("ERROR_CONN") \/ Go("userdata") \/ Go("sent")
  <2>1. CASE httpclient_send_header
    <3>1. CASE First.ok
      <4>1. PICK r \in httpclient_tcp_send_all(Filled.buf) :
              IF r[2] = "OK" THEN Go(IF method = "POST" THEN "userdata" ELSE "sent") ELSE Fail(r[2])
        BY <2>1, <3>1 DEF httpclient_send_header
      <4>2. r[2] = "OK" \/ r[2] = "ERROR_CONN"
        BY DEF httpclient_tcp_send_all
      <4> QED BY <4>1, <4>2
    <3>2. CASE ~First.ok
      BY <2>1, <3>2 DEF httpclient_send_header
    <3> QED BY <3>1, <3>2
  <2>2. CASE httpclient_send_userdata
    <3>1. CASE hasPost
      <4>1. PICK r \in httpclient_tcp_send_all(<<<<"post", 1>>>>) :
              IF r[2] = "OK" THEN Go("sent") ELSE Fail(r[2])
        BY <2>2, <3>1 DEF httpclient_send_userdata
      <4>2. r[2] = "OK" \/ r[2] = "ERROR_CONN"
        BY DEF httpclient_tcp_send_all
      <4> QED BY <4>1, <4>2
    <3>2. CASE ~hasPost
      BY <2>2, <3>2 DEF httpclient_send_userdata
    <3> QED BY <3>1, <3>2
  <2> QED BY <2>1, <2>2
<1>3. CASE Fail("ERROR_CONN")
  BY <1>1, <1>3, ConnFails
<1>4. CASE Go("userdata") \/ Go("sent")
  <2>1. pc' \in {"userdata", "sent"} /\ UNCHANGED <<delivered, result>>
    BY <1>4 DEF Go
  <2> QED BY <1>1, <2>1, OnTheWay
<1> QED BY <1>2, <1>3, <1>4

\* The request is sent.
LEMMA SentInv == IInv /\ httpclient_send_request => IInv'
<1> SUFFICES ASSUME IInv, httpclient_send_request PROVE IInv'
  OBVIOUS
<1>1. /\ pc = "sent" /\ Fresh /\ UNCHANGED <<data, given, pending, wire, peerClosed, history, delivered>>
      /\ \/ pc' = "recv" /\ result' = result
         \/ pc' \in {"idle", "close"} /\ stage' = "asked" /\ result' = "OK"
  BY DEF httpclient_send_request, Fresh, Go, Return, net
<1>2. CASE pc' = "recv" /\ result' = result
  BY <1>1, <1>2, OnTheWay
<1>3. CASE pc' \in {"idle", "close"} /\ stage' = "asked" /\ result' = "OK"
  <2>1. UNCHANGED <<isMore, isChunked, retrieveLen, contentLen, responseBuf, headerBuf, bufLen, hasPost,
                    header, pending, wire, peerClosed, response, excuses, delivered>>
    BY <1>1 DEF data, given, history
  <2>2. ~isMore
    BY <1>1 DEF IInv, FreshInv
  <2>3. TypeInv' /\ GivenInv'
    BY <1>3, <2>1 DEF IInv, TypeInv, GivenInv, Pcs
  <2>4. CommonInv'
    BY <1>3, <2>1 DEF IInv, CommonInv
  <2>5. FreshInv'
    BY <1>1, <2>1 DEF IInv, FreshInv, Stale
  <2>6. ClosedInv' /\ ReadyInv' /\ HeaderInv'
    BY <1>3 DEF ClosedInv, ReadyInv, HeaderInv
  <2>7. ContentInv' /\ RoomInv'
    BY <1>3, <2>1, <2>2 DEF ContentInv, Contents, Mid, RoomInv
  <2> QED BY <2>3, <2>4, <2>5, <2>6, <2>7 DEF IInv
<1> QED BY <1>1, <1>2, <1>3

\* The application asks for another request: what the last answer has left on
\* the connection stays there.
LEMMA AskInv == ASSUME IInv, NEW m, Ask(m) PROVE IInv'
<1>1. /\ pc = "idle" /\ stage = "ready" /\ pc' = "send" /\ delivered' = <<>> /\ response' = None
      /\ UNCHANGED <<data, given, pending, wire, peerClosed, excuses, result>>
  BY DEF Ask
<1>2. UNCHANGED <<isMore, isChunked, retrieveLen, contentLen, responseBuf, headerBuf, bufLen, hasPost,
                  header>>
  BY <1>1 DEF data, given
<1>3. ~isMore /\ (wire = <<>> \/ Stale)
  BY <1>1 DEF IInv, ReadyInv
<1>4. <<>> \in Seq(Byte) /\ InBody(None, <<>>, 0)
  BY BodyOfNone
<1>5. TypeInv' /\ GivenInv'
  BY <1>1, <1>2, <1>4 DEF IInv, TypeInv, GivenInv, Pcs
<1>6. CommonInv'
  <2>1. result \notin {"ERROR_PRTCL", "ERROR"}
    BY <1>1 DEF IInv, CommonInv
  <2> QED BY <1>1, <1>4, <2>1 DEF CommonInv
<1>7. FreshInv'
  BY <1>1, <1>2, <1>3 DEF FreshInv, Stale
<1>8. ClosedInv' /\ ReadyInv' /\ HeaderInv'
  BY <1>1 DEF ClosedInv, ReadyInv, HeaderInv
<1>9. ContentInv' /\ RoomInv'
  BY <1>1 DEF ContentInv, Contents, Mid, RoomInv
<1> QED BY <1>5, <1>6, <1>7, <1>8, <1>9 DEF IInv

\* The predicates of the content depend on nothing but what has been read.
LEMMA SameContent ==
  ASSUME UNCHANGED <<response, excuses, wire, isChunked, retrieveLen, contentLen>>,
         NEW u, NEW D
  PROVE  /\ Closing(u, D)' <=> Closing(u, D)
         /\ Plain(u, D)' <=> Plain(u, D)
         /\ Inside(u, D)' <=> Inside(u, D)
         /\ Line(u, D)' <=> Line(u, D)
         /\ Late(u, D)' <=> Late(u, D)
BY DEF Closing, Plain, Inside, Line, Late, End

\* The application asks for the answer, or for more of it.
LEMMA ReceiveInv == IInv /\ Receive => IInv'
<1> SUFFICES ASSUME IInv, Receive PROVE IInv'
  OBVIOUS
<1>1. /\ pc = "idle" /\ stage = "asked" /\ pc' = "recv"
      /\ UNCHANGED <<data, given, pending, net, history, delivered, result>>
  BY DEF Receive, Go
<1>2. UNCHANGED <<isMore, isChunked, retrieveLen, contentLen, responseBuf, headerBuf, bufLen, hasPost,
                  header, pending, wire, peerClosed, response, excuses, delivered, result>>
  BY <1>1 DEF data, given, history, net
<1>3. CASE ~isMore
  <2>1. Fresh
    BY <1>1, <1>3 DEF Fresh
  <2> QED BY <1>1, <2>1, OnTheWay DEF net
<1>4. CASE isMore
  <2>1. Mid /\ Mid'
    BY <1>1, <1>2, <1>4 DEF Mid
  <2>2. TypeInv' /\ GivenInv'
    BY <1>1, <1>2 DEF IInv, TypeInv, GivenInv, Pcs
  <2>3. CommonInv'
    <3>1. result \notin {"ERROR_PRTCL", "ERROR"}
      BY <1>1 DEF IInv, CommonInv
    <3> QED BY <1>2, <3>1 DEF IInv, CommonInv
  <2>4. ClosedInv' /\ ReadyInv' /\ HeaderInv' /\ RoomInv'
    BY <1>1 DEF ClosedInv, ReadyInv, HeaderInv, RoomInv
  <2>5. FreshInv'
    BY <1>1, <1>2, <1>4 DEF FreshInv, Fresh
  <2>6. ContentInv'
    <3> DEFINE D == Len(delivered)
    <3>1. /\ response # None
          /\ Closing(<<>>, D) \/ Plain(<<>>, D) \/ Inside(<<>>, D) \/ Line(<<>>, D) \/ Late(<<>>, D)
      BY <2>1 DEF IInv, ContentInv
    <3>2. Len(delivered)' = D
      BY <1>2
    <3>3. \A d : d = Len(delivered)' =>
            Closing(<<>>, d)' \/ Plain(<<>>, d)' \/ Inside(<<>>, d)' \/ Line(<<>>, d)' \/ Late(<<>>, d)'
      BY <1>2, <3>1, <3>2, SameContent
    <3> QED BY <1>1, <1>2, <2>1, <3>1, <3>3 DEF ContentInv, Contents
  <2> QED BY <2>2, <2>3, <2>4, <2>5, <2>6 DEF IInv
<1>5. isMore \in BOOLEAN
  BY DEF IInv, TypeInv
<1> QED BY <1>3, <1>4, <1>5

-----------------------------------------------------------------------------
(* Steps that read the content                                             *)

\* The types of what a step that reads the content uses.
LEMMA InContent ==
  ASSUME IInv, pc \in Contents
  PROVE  /\ response \in Responses /\ response # None /\ Body(response) \in Seq(Byte)
         /\ wire \in Seq(Byte) /\ pending \in Seq(Byte) /\ responseBuf \in Seq(Byte)
         /\ delivered \in Seq(Byte) /\ isMore = TRUE /\ isChunked \in BOOLEAN
         /\ retrieveLen \in Int /\ contentLen \in Int
         /\ Len(wire) \in Nat /\ Len(pending) \in Nat /\ Len(responseBuf) \in Nat
         /\ Len(delivered) \in Nat /\ Len(Body(response)) \in Nat
         /\ bufLen \in Nat /\ Room \in Int /\ Room = bufLen - 1 - Len(responseBuf)
         /\ InBody(response, delivered, 0) /\ InBody(response, responseBuf, Len(delivered))
         /\ result \notin {"ERROR_PRTCL", "ERROR"}
<1>1. /\ response \in Responses /\ response # None
      /\ wire \in Seq(Byte) /\ pending \in Seq(Byte) /\ responseBuf \in Seq(Byte)
      /\ delivered \in Seq(Byte) /\ isMore = TRUE /\ isChunked \in BOOLEAN
      /\ retrieveLen \in Int /\ contentLen \in Int
      /\ InBody(response, responseBuf, Len(delivered))
  BY DEF IInv, TypeInv, ContentInv
<1>2. Body(response) \in Seq(Byte)
  BY <1>1, BodyOfNone
<1>3. /\ Len(wire) \in Nat /\ Len(pending) \in Nat /\ Len(responseBuf) \in Nat
      /\ Len(delivered) \in Nat /\ Len(Body(response)) \in Nat
  BY <1>1, <1>2, LenProperties
<1>4. bufLen \in Nat
  BY DEF IInv, GivenInv
<1>5. Room = bufLen - 1 - Len(responseBuf)
  BY DEF Room, Count
<1>6. Room \in Int
  BY <1>3, <1>4, <1>5
<1>7. InBody(response, delivered, 0)
  BY DEF IInv, CommonInv
<1>8. result \notin {"ERROR_PRTCL", "ERROR"}
  <2>1. pc # "close" /\ pc # "idle"
    BY DEF Contents
  <2> QED BY <2>1 DEF IInv, CommonInv
<1> QED BY <1>1, <1>2, <1>3, <1>4, <1>5, <1>6, <1>7, <1>8

\* Bytes of the body that come behind what the buffer holds.
LEMMA Gathered ==
  ASSUME NEW r, NEW d \in Seq(Byte), NEW b \in Seq(Byte), NEW v \in Seq(Byte),
         InBody(r, d, 0), InBody(r, b, Len(d)), InBody(r, v, Len(d) + Len(b))
  PROVE  /\ b \o v \in Seq(Byte) /\ Len(b \o v) = Len(b) + Len(v)
         /\ InBody(r, b \o v, Len(d))
         /\ d \o (b \o v) \in Seq(Byte) /\ Len(d \o (b \o v)) = Len(d) + Len(b) + Len(v)
         /\ InBody(r, d \o (b \o v), 0)
<1>1. Len(d) \in Nat /\ Len(b) \in Nat /\ Len(v) \in Nat
  BY LenProperties
<1>2. b \o v \in Seq(Byte) /\ Len(b \o v) = Len(b) + Len(v)
  BY ConcatProperties
<1> DEFINE c == b \o v
<1>3. InBody(r, c, Len(d))
  BY <1>1, InBodyMore
<1>4. c \in Seq(Byte) /\ Len(c) = Len(b) + Len(v)
  BY <1>2
<1> HIDE DEF c
<1>5. d \o c \in Seq(Byte) /\ Len(d \o c) = Len(d) + Len(c)
  BY <1>4, ConcatProperties
<1>6. InBody(r, d \o c, 0)
  <2>1. 0 \in Nat /\ 0 + Len(d) = Len(d)
    BY <1>1
  <2>2. InBody(r, c, 0 + Len(d))
    BY <1>3, <2>1
  <2> QED BY <1>4, <2>1, <2>2, InBodyMore
<1>7. Len(d \o c) = Len(d) + Len(b) + Len(v)
  BY <1>1, <1>4, <1>5
<1> QED BY <1>2, <1>3, <1>5, <1>6, <1>7 DEF c

\* The call goes on, with bytes of the body in the buffer.
LEMMA GoesOn ==
  ASSUME IInv, pc \in Contents \cup {"recv", "header"}, TypeInv', response # None,
         UNCHANGED <<given, response, peerClosed, delivered, result>>, excuses \subseteq excuses',
         pc' \in Contents, isMore' = TRUE, InBody(response, responseBuf', Len(delivered)),
         RoomInv',
         \A D : D = Len(delivered) + Len(responseBuf') =>
           /\ pc' = "until_close" => Closing(pending, D)'
           /\ pc' = "retrieve" => Plain(pending, D)' \/ Inside(pending, D)'
           /\ pc' = "chunk_line" => Line(pending, D)' \/ Late(pending, D)'
           /\ pc' = "chunk_end" => End(pending, D)'
  PROVE  IInv'
<1>1. pc' \notin {"idle", "connect", "send", "userdata", "sent", "recv", "header", "close"}
  BY DEF Contents
<1>2. result' \notin {"ERROR_PRTCL", "ERROR"}
  <2>1. pc # "close" /\ pc # "idle"
    BY DEF Contents
  <2> QED BY <2>1 DEF IInv, CommonInv
<1>3. GivenInv'
  BY DEF IInv, GivenInv, given
<1>4. CommonInv'
  BY <1>2 DEF IInv, CommonInv
<1>5. ClosedInv' /\ FreshInv' /\ ReadyInv' /\ HeaderInv'
  BY <1>1 DEF ClosedInv, FreshInv, Fresh, ReadyInv, HeaderInv
<1>6. ContentInv'
  <2>1. ~Mid'
    BY <1>1 DEF Mid
  <2> QED BY <2>1 DEF ContentInv
<1> QED BY <1>3, <1>4, <1>5, <1>6 DEF IInv

\* The call returns with a part of the body, and there is more.
LEMMA MoreGiven ==
  ASSUME IInv, pc \in Contents, NEW block, Give("MORE", "asked", block), TypeInv',
         UNCHANGED <<given, response, peerClosed>>, excuses \subseteq excuses',
         isMore' = TRUE, InBody(response, delivered', 0),
         \A D : D = Len(delivered') =>
           Closing(<<>>, D)' \/ Plain(<<>>, D)' \/ Inside(<<>>, D)' \/ Line(<<>>, D)' \/ Late(<<>>, D)'
  PROVE  IInv'
<1>1. pc' \in {"close", "idle"} /\ stage' = "asked" /\ result' = "MORE"
  BY DEF Give, Return
<1>2. GivenInv'
  BY DEF IInv, GivenInv, given
<1>3. response # None
  BY InContent
<1>4. CommonInv'
  BY <1>1, <1>3 DEF IInv, CommonInv
<1>5. ClosedInv' /\ FreshInv' /\ ReadyInv' /\ HeaderInv' /\ RoomInv'
  BY <1>1 DEF ClosedInv, FreshInv, Fresh, ReadyInv, HeaderInv, RoomInv
<1>6. ContentInv'
  BY <1>1, <1>3 DEF ContentInv, Contents
<1> QED BY <1>2, <1>4, <1>5, <1>6 DEF IInv

\* The call returns with the last of the body.
LEMMA AllGiven ==
  ASSUME IInv, pc \in Contents, NEW block, Give("OK", "ready", block), TypeInv',
         UNCHANGED <<given, response, peerClosed>>, excuses \subseteq excuses',
         isMore' = FALSE, InBody(response, delivered', 0),
         delivered' = Body(response) \/ (response.kind \in {"close", "unspaced"} /\ "died" \in excuses'),
         wire' = <<>> \/ Stale'
  PROVE  IInv'
<1>1. pc' \in {"close", "idle"} /\ stage' = "ready" /\ result' = "OK"
  BY DEF Give, Return
<1>2. GivenInv'
  BY DEF IInv, GivenInv, given
<1>3. response # None
  BY InContent
<1>4. CommonInv'
  BY <1>1, <1>3 DEF IInv, CommonInv
<1>5. ClosedInv' /\ FreshInv' /\ HeaderInv' /\ RoomInv'
  BY <1>1 DEF ClosedInv, FreshInv, Fresh, HeaderInv, RoomInv
<1>6. ReadyInv'
  BY <1>3 DEF ReadyInv
<1>7. ContentInv'
  BY <1>1 DEF ContentInv, Contents, Mid
<1> QED BY <1>2, <1>4, <1>5, <1>6, <1>7 DEF IInv

\* A body that ends with the connection.
LEMMA UntilCloseInv == IInv /\ UntilClose => IInv'
<1> SUFFICES ASSUME IInv, UntilClose PROVE IInv'
  OBVIOUS
<1> DEFINE D == Len(delivered) + Len(responseBuf)
<1>1. pc = "until_close" /\ pc \in Contents
  BY DEF UntilClose, Contents
<1>2. /\ UNCHANGED <<isChunked, retrieveLen, contentLen, headerBuf, bufLen, hasPost, header, response, excuses>>
      /\ UNCHANGED <<given>>
  BY DEF UntilClose, given, history
<1>3. /\ response \in Responses /\ response # None /\ Body(response) \in Seq(Byte)
      /\ wire \in Seq(Byte) /\ pending \in Seq(Byte) /\ responseBuf \in Seq(Byte)
      /\ delivered \in Seq(Byte) /\ isMore = TRUE
      /\ Len(wire) \in Nat /\ Len(pending) \in Nat /\ Len(responseBuf) \in Nat
      /\ Len(delivered) \in Nat /\ Len(Body(response)) \in Nat
      /\ bufLen \in Nat /\ Room \in Int /\ Room = bufLen - 1 - Len(responseBuf)
      /\ InBody(response, delivered, 0) /\ InBody(response, responseBuf, Len(delivered))
  BY <1>1, InContent
<1>4. Closing(pending, D)
  BY <1>1 DEF IInv, ContentInv, Contents
<1>5. Len(pending) <= Room
  BY <1>1 DEF IInv, RoomInv
<1>6. D \in Nat /\ 8 + D \in Int
  BY <1>3
<1>7. /\ response.kind \in {"close", "unspaced"} /\ ~isChunked /\ contentLen = -1
      /\ Continues(response, excuses, pending, wire, 8 + D)
  BY <1>4 DEF Closing
<1>11. D = Len(delivered) + Len(responseBuf)
  OBVIOUS
<1> HIDE DEF D
<1>8. Take(pending, Len(pending)) = pending
  BY <1>3, TakeAll
<1>9. InBody(response, pending, D)
  <2>1. InBody(response, Take(pending, Len(pending)), D)
    <3>1. Len(pending) \in 0..Len(pending) /\ response.kind \in {"length", "close", "unspaced"}
      BY <1>3, <1>7
    <3> QED BY <1>3, <1>6, <1>7, <3>1, PlainBytes
  <2> QED BY <1>8, <2>1
<1> DEFINE b == responseBuf \o pending
<1>10. /\ b \in Seq(Byte) /\ Len(b) = Len(responseBuf) + Len(pending)
       /\ InBody(response, b, Len(delivered))
       /\ delivered \o b \in Seq(Byte) /\ Len(delivered \o b) = D + Len(pending)
       /\ InBody(response, delivered \o b, 0)
  <2>1. InBody(response, pending, Len(delivered) + Len(responseBuf))
    BY <1>9, <1>11
  <2> QED BY <1>3, <1>11, <2>1, Gathered
<1> HIDE DEF b
<1>12. ASSUME Len(pending) < Room, responseBuf' = b,
              NEW r \in httpclient_recv(1, Room - Len(pending)), Received(r[1]),
              pending' = Take(wire, r[1]), isMore' = (r[2] = "ERROR_CONN" \/ r[1] > 0),
              \/ r[2] = "ERROR_CONN" /\ Fail(r[2])
              \/ r[2] # "ERROR_CONN" /\ r[1] = 0 /\ Give("OK", "ready", b)
              \/ r[2] # "ERROR_CONN" /\ r[1] > 0 /\ Go(pc)
       PROVE  IInv'
  <2>1. /\ r[1] \in 0..Len(wire) /\ r[1] <= Room - Len(pending)
        /\ r[2] \in {"OK", "ERROR_CONN", "CLOSED"}
        /\ r[2] = "OK" => r[1] >= Least(1, Room - Len(pending))
        /\ r[2] = "CLOSED" => r[1] = Len(wire)
    BY <1>3, <1>12, RecvResult
  <2>2. Least(1, Room - Len(pending)) = 1
    BY <1>3, <1>12 DEF Least
  <2>3. /\ pending' \in Seq(Byte) /\ Len(pending') = r[1]
        /\ wire' \in Seq(Byte) /\ wire' = Drop(wire, r[1]) /\ Len(wire') = Len(wire) - r[1]
        /\ peerClosed' = peerClosed
    <3>1. wire' = Drop(wire, r[1]) /\ peerClosed' = peerClosed
      BY <1>12 DEF Received
    <3>2. /\ Take(wire, r[1]) \in Seq(Byte) /\ Len(Take(wire, r[1])) = r[1]
          /\ Drop(wire, r[1]) \in Seq(Byte) /\ Len(Drop(wire, r[1])) = Len(wire) - r[1]
      BY <1>3, <2>1, TakeDrop
    <3> QED BY <1>12, <3>1, <3>2
  <2>4. CASE r[2] = "ERROR_CONN" /\ Fail(r[2])
    <3>1. pc' \in Pcs /\ delivered' = delivered
      BY <2>4 DEF Fail, Return, Pcs
    <3>2. TypeInv'
      BY <1>2, <1>3, <1>10, <1>12, <2>3, <3>1 DEF IInv, TypeInv
    <3> QED BY <1>2, <2>3, <2>4, <3>2, FailKeeps
  <2>5. CASE r[2] # "ERROR_CONN" /\ r[1] = 0 /\ Give("OK", "ready", b)
    <3>1. pc' \in Pcs /\ delivered' = delivered \o b
      BY <2>5 DEF Give, Return, Pcs
    <3>2. TypeInv'
      BY <1>2, <1>3, <1>10, <1>12, <2>3, <3>1 DEF IInv, TypeInv
    <3>3. Len(wire) = 0 /\ Len(wire') = 0
      BY <2>1, <2>2, <2>3, <2>5
    <3>4. wire' = <<>>
      BY <2>3, <3>3, EmptySeq
    <3>5. delivered' = Body(response) \/ "died" \in excuses
      <4>1. Reads(response, excuses, wire, 8 + D + Len(pending))
        BY <1>7 DEF Continues
      <4>2. \/ 8 + D + Len(pending) + Len(wire) = Len(Wire(response)) \/ "died" \in excuses
        BY <4>1 DEF Reads
      <4>3. Len(Wire(response)) = 8 + Len(Body(response))
        BY <1>3, <1>7, WireIs
      <4>4. CASE 8 + D + Len(pending) + Len(wire) = Len(Wire(response))
        <5>1. Len(delivered') = Len(Body(response))
          BY <1>3, <1>6, <1>10, <3>1, <3>3, <4>3, <4>4
        <5> QED BY <1>3, <1>10, <3>1, <5>1, InBodyWhole
      <4> QED BY <4>2, <4>4
    <3>6. isMore' = FALSE
      <4>1. ~(r[2] = "ERROR_CONN" \/ r[1] > 0)
        BY <2>5
      <4>2. ~isMore' /\ isMore' \in BOOLEAN
        BY <1>12, <4>1
      <4> QED BY <4>2
    <3>7. InBody(response, delivered', 0)
      BY <1>10, <3>1
    <3> QED BY <1>1, <1>2, <1>7, <2>3, <2>5, <3>2, <3>4, <3>5, <3>6, <3>7, AllGiven
  <2>6. CASE r[2] # "ERROR_CONN" /\ r[1] > 0 /\ Go(pc)
    <3>1. pc' = "until_close" /\ UNCHANGED <<delivered, result>>
      BY <1>1, <2>6 DEF Go
    <3>2. pc' \in Contents /\ pc' \in Pcs
      BY <3>1 DEF Contents, Pcs
    <3>3. TypeInv'
      BY <1>2, <1>3, <1>10, <1>12, <2>3, <3>1, <3>2 DEF IInv, TypeInv
    <3>4. RoomInv'
      <4>1. Len(pending') <= bufLen' - 1 - Len(responseBuf')
        BY SMTT(30), <1>2, <1>3, <1>10, <1>12, <2>1, <2>3
      <4> QED BY <3>1, <4>1 DEF RoomInv, Room, Count
    <3>5. \A d : d = Len(delivered) + Len(responseBuf') => Closing(pending, d)'
      <4> SUFFICES ASSUME NEW d, d = Len(delivered) + Len(responseBuf')
                   PROVE Closing(pending, d)'
        OBVIOUS
      <4>1. Continues(response, excuses, pending', wire', 8 + D + Len(pending))
        BY <1>3, <1>6, <1>7, <1>12, <2>1, <2>3, ContinuesNew
      <4>2. 8 + d = 8 + D + Len(pending)
        <5>1. Len(responseBuf') = Len(responseBuf) + Len(pending)
          BY <1>10, <1>12
        <5>2. d = D + Len(pending)
          BY <1>3, <1>11, <5>1
        <5> QED BY <1>3, <1>6, <5>2
      <4>3. Continues(response, excuses, pending', wire', 8 + d)
        BY <4>1, <4>2
      <4> QED BY <1>2, <1>7, <4>3 DEF Closing
    <3>6. isMore' = TRUE /\ InBody(response, responseBuf', Len(delivered))
      BY <1>10, <1>12, <2>6
    <3> QED BY <1>1, <1>2, <1>3, <2>3, <3>1, <3>2, <3>3, <3>4, <3>5, <3>6, GoesOn
  <2> QED BY <1>12, <2>4, <2>5, <2>6
<1>13. ASSUME Len(pending) >= Room, responseBuf' = b, pending' = <<>>,
              Give("MORE", "asked", b), UNCHANGED <<isMore, net>>
       PROVE  IInv'
  <2>1. UNCHANGED <<wire, peerClosed>> /\ isMore' = TRUE
    BY <1>3, <1>13 DEF net
  <2>2. pc' \in Pcs /\ delivered' = delivered \o b
    BY <1>13 DEF Give, Return, Pcs
  <2>3. TypeInv'
    <3>1. <<>> \in Seq(Byte)
      OBVIOUS
    <3> QED BY <1>2, <1>3, <1>10, <1>13, <2>1, <2>2, <3>1 DEF IInv, TypeInv
  <2>4. \A d : d = Len(delivered') => Closing(<<>>, d)'
    <3> SUFFICES ASSUME NEW d, d = Len(delivered') PROVE Closing(<<>>, d)'
      OBVIOUS
    <3>1. Continues(response, excuses, <<>>, wire, 8 + D + Len(pending))
      BY <1>3, <1>6, <1>7, ContinuesAll
    <3>2. 8 + d = 8 + D + Len(pending)
      <4>1. d = D + Len(pending)
        BY <1>10, <2>2
      <4> QED BY <1>3, <1>6, <4>1
    <3>3. Continues(response, excuses, <<>>, wire, 8 + d)
      BY <3>1, <3>2
    <3> QED BY <1>2, <1>7, <2>1, <3>3 DEF Closing
  <2>5. InBody(response, delivered', 0)
    BY <1>10, <2>2
  <2> QED BY <1>1, <1>2, <1>13, <2>1, <2>3, <2>4, <2>5, MoreGiven
<1>14. Len(pending) >= Room => Take(pending, Room) = pending
  <2>1. Len(pending) >= Room => Len(pending) = Room
    BY <1>3, <1>5
  <2> QED BY <1>8, <2>1
<1>15. \/ /\ Len(pending) < Room
          /\ responseBuf' = b
          /\ \E r \in httpclient_recv(1, Room - Len(pending)) :
               /\ Received(r[1])
               /\ pending' = Take(wire, r[1])
               /\ isMore' = (r[2] = "ERROR_CONN" \/ r[1] > 0)
               /\ \/ r[2] = "ERROR_CONN" /\ Fail(r[2])
                  \/ r[2] # "ERROR_CONN" /\ r[1] = 0 /\ Give("OK", "ready", b)
                  \/ r[2] # "ERROR_CONN" /\ r[1] > 0 /\ Go(pc)
       \/ /\ Len(pending) >= Room /\ responseBuf' = b /\ pending' = <<>>
          /\ Give("MORE", "asked", b) /\ UNCHANGED <<isMore, net>>
  BY <1>14 DEF UntilClose, b
<1> QED BY <1>12, <1>13, <1>15

\* What a receive leaves on the connection.
LEMMA ReceivedBytes ==
  ASSUME wire \in Seq(Byte), NEW n \in 0..Len(wire), Received(n)
  PROVE  /\ Take(wire, n) \in Seq(Byte) /\ Len(Take(wire, n)) = n
         /\ wire' \in Seq(Byte) /\ wire' = Drop(wire, n) /\ Len(wire') = Len(wire) - n
         /\ peerClosed' = peerClosed
<1>1. wire' = Drop(wire, n) /\ peerClosed' = peerClosed
  BY DEF Received
<1>2. /\ Take(wire, n) \in Seq(Byte) /\ Len(Take(wire, n)) = n
      /\ Drop(wire, n) \in Seq(Byte) /\ Len(Drop(wire, n)) = Len(wire) - n
  BY TakeDrop
<1> QED BY <1>1, <1>2

\* Bytes of a chunk, or of a body of known length, behind what the buffer holds.
LEMMA Retrieved ==
  ASSUME IInv, pc = "retrieve", NEW n \in 0..Len(pending), n <= retrieveLen,
         NEW D, D = Len(delivered) + Len(responseBuf), NEW b, b = responseBuf \o Take(pending, n)
  PROVE  /\ Plain(pending, D) \/ Inside(pending, D)
         /\ b \in Seq(Byte) /\ Len(b) = Len(responseBuf) + n
         /\ InBody(response, b, Len(delivered))
         /\ delivered \o b \in Seq(Byte) /\ Len(delivered \o b) = D + n
         /\ InBody(response, delivered \o b, 0)
<1>1. pc \in Contents
  BY DEF Contents
<1>2. /\ response \in Responses /\ wire \in Seq(Byte) /\ pending \in Seq(Byte)
      /\ responseBuf \in Seq(Byte) /\ delivered \in Seq(Byte) /\ retrieveLen \in Int
      /\ Len(responseBuf) \in Nat /\ Len(delivered) \in Nat
      /\ InBody(response, delivered, 0) /\ InBody(response, responseBuf, Len(delivered))
  BY <1>1, InContent
<1>3. Plain(pending, D) \/ Inside(pending, D)
  BY <1>1 DEF IInv, ContentInv
<1>4. D \in Nat
  BY <1>2
<1>5. InBody(response, Take(pending, n), D)
  <2>1. CASE Plain(pending, D)
    <3>1. response.kind \in {"length", "close", "unspaced"} /\ Continues(response, excuses, pending, wire, 8 + D)
      BY <2>1 DEF Plain
    <3> QED BY <1>2, <1>4, <3>1, PlainBytes
  <2>2. CASE Inside(pending, D)
    <3>1. PICK k \in 1..Len(response.parts) :
            /\ BodyAt(response, k-1) <= D /\ D + retrieveLen = BodyAt(response, k)
            /\ Continues(response, excuses, pending, wire, ChunkAt(response, k) - 2 - retrieveLen)
      BY <2>2 DEF Inside
    <3>2. response.kind = "chunked" /\ retrieveLen \in Nat
      BY <1>2, <2>2 DEF Inside
    <3> QED BY <1>2, <1>4, <3>1, <3>2, ChunkBytes
  <2> QED BY <1>3, <2>1, <2>2
<1> DEFINE v == Take(pending, n)
<1>6. v \in Seq(Byte) /\ Len(v) = n
  BY <1>2, TakeDrop
<1>7. InBody(response, v, Len(delivered) + Len(responseBuf))
  BY <1>5
<1> HIDE DEF v
<1>8. /\ responseBuf \o v \in Seq(Byte) /\ Len(responseBuf \o v) = Len(responseBuf) + Len(v)
      /\ InBody(response, responseBuf \o v, Len(delivered))
      /\ delivered \o (responseBuf \o v) \in Seq(Byte)
      /\ Len(delivered \o (responseBuf \o v)) = Len(delivered) + Len(responseBuf) + Len(v)
      /\ InBody(response, delivered \o (responseBuf \o v), 0)
  <2>1. /\ delivered \in Seq(Byte) /\ responseBuf \in Seq(Byte) /\ v \in Seq(Byte)
        /\ InBody(response, delivered, 0) /\ InBody(response, responseBuf, Len(delivered))
        /\ InBody(response, v, Len(delivered) + Len(responseBuf))
    BY <1>2, <1>6, <1>7
  <2> QED BY <2>1, Gathered
<1>9. b = responseBuf \o v
  BY DEF v
<1> QED BY <1>3, <1>6, <1>8, <1>9

\* Where the chunks are.
LEMMA Positions ==
  ASSUME NEW r \in Responses, r.kind = "chunked"
  PROVE  \A k \in 0..Len(r.parts) : ChunkAt(r, k) \in Nat /\ BodyAt(r, k) \in Nat
BY WireChunked, BodyIs

\* The buffer gets full.
LEMMA RetrieveFullInv == IInv /\ RetrieveFull => IInv'
<1> SUFFICES ASSUME IInv, RetrieveFull PROVE IInv'
  OBVIOUS
<1> DEFINE D == Len(delivered) + Len(responseBuf)
           b == responseBuf \o Take(pending, Room)
<1>1. pc = "retrieve" /\ pc \in Contents
  BY DEF RetrieveFull, Contents
<1>2. /\ UNCHANGED <<isMore, isChunked, contentLen, headerBuf, bufLen, hasPost, header, pending, response, wire,
                     peerClosed>>
      /\ UNCHANGED given
      /\ responseBuf' = b /\ Give("MORE", "asked", b)
  BY DEF RetrieveFull, given, net
<1>12. retrieveLen' = retrieveLen - Room /\ Least(Len(pending), retrieveLen) >= Room
  BY DEF RetrieveFull
<1>13. excuses' = excuses \cup (IF isChunked /\ retrieveLen = Room THEN {"full_at_end_of_chunk"} ELSE {})
  BY DEF RetrieveFull
<1>3. /\ response \in Responses /\ wire \in Seq(Byte) /\ pending \in Seq(Byte)
      /\ responseBuf \in Seq(Byte) /\ delivered \in Seq(Byte) /\ isMore = TRUE
      /\ isChunked \in BOOLEAN /\ retrieveLen \in Int /\ contentLen \in Int
      /\ Len(pending) \in Nat /\ Len(responseBuf) \in Nat /\ Len(delivered) \in Nat /\ Room \in Int
  BY <1>1, InContent
<1>4. Len(pending) <= Room
  BY <1>1 DEF IInv, RoomInv
<1>5. Len(pending) = Room /\ Room <= retrieveLen /\ Room \in 0..Len(pending)
  BY <1>3, <1>4, <1>12 DEF Least
<1>6. /\ Plain(pending, D) \/ Inside(pending, D)
      /\ b \in Seq(Byte) /\ Len(b) = Len(responseBuf) + Room
      /\ delivered \o b \in Seq(Byte) /\ Len(delivered \o b) = D + Room
      /\ InBody(response, delivered \o b, 0)
  BY <1>1, <1>5, Retrieved
<1>7. D \in Nat
  BY <1>3
<1> HIDE DEF D, b
<1>8. pc' \in Pcs /\ delivered' = delivered \o b
  BY <1>2 DEF Give, Return, Pcs
<1>9. TypeInv'
  <2>1. retrieveLen' \in Int
    BY <1>3, <1>12
  <2> QED BY <1>2, <1>3, <1>6, <1>8, <2>1 DEF IInv, TypeInv
<1>10. \A d : d = Len(delivered') =>
         Closing(<<>>, d)' \/ Plain(<<>>, d)' \/ Inside(<<>>, d)' \/ Line(<<>>, d)' \/ Late(<<>>, d)'
  <2> SUFFICES ASSUME NEW d, d = Len(delivered')
               PROVE Plain(<<>>, d)' \/ Inside(<<>>, d)' \/ Late(<<>>, d)'
    OBVIOUS
  <2>1. d = D + Room /\ d \in Nat
    <3>1. d = D + Room
      BY <1>6, <1>8
    <3> QED BY <1>3, <1>5, <1>7, <3>1
  <2>2. ASSUME NEW p \in Int, Continues(response, excuses, pending, wire, p),
               NEW q, q = p + Room
        PROVE  Continues(response, excuses', <<>>, wire, q)
    <3>1. Continues(response, excuses, <<>>, wire, p + Len(pending))
      BY <1>3, <2>2, ContinuesAll
    <3>2. Continues(response, excuses, <<>>, wire, q)
      BY <1>5, <2>2, <3>1
    <3>3. excuses \subseteq excuses'
      BY <1>13
    <3> QED BY <3>2, <3>3, ContinuesExcused
  <2>3. CASE Plain(pending, D)
    <3>1. /\ response.kind = "length" /\ ~isChunked /\ contentLen \in Nat
          /\ retrieveLen \in Nat /\ D + retrieveLen = Len(Body(response))
          /\ Continues(response, excuses, pending, wire, 8 + D)
      BY <2>3 DEF Plain
    <3>2. 8 + D \in Int /\ 8 + d = 8 + D + Room
      BY <1>3, <1>7, <2>1
    <3>3. Continues(response, excuses', <<>>, wire, 8 + d)
      BY <2>2, <3>1, <3>2
    <3>4. retrieveLen' \in Nat /\ d + retrieveLen' = Len(Body(response))
      <4>1. retrieveLen' \in Int /\ retrieveLen' >= 0 /\ d + retrieveLen' = D + retrieveLen
        BY <1>3, <1>5, <1>7, <1>12, <2>1
      <4> QED BY <3>1, <4>1
    <3> QED BY <1>2, <3>1, <3>3, <3>4 DEF Plain
  <2>4. CASE Inside(pending, D)
    <3>1. response.kind = "chunked" /\ isChunked /\ retrieveLen > 0
      BY <2>4 DEF Inside
    <3>2. PICK k \in 1..Len(response.parts) :
            /\ BodyAt(response, k-1) <= D /\ D + retrieveLen = BodyAt(response, k)
            /\ Continues(response, excuses, pending, wire, ChunkAt(response, k) - 2 - retrieveLen)
      BY <2>4 DEF Inside
    <3>3. /\ ChunkAt(response, k) \in Nat /\ BodyAt(response, k-1) \in Nat /\ BodyAt(response, k) \in Nat
      <4>1. k \in 0..Len(response.parts) /\ k-1 \in 0..Len(response.parts)
        BY <1>3, ChunksType
      <4> QED BY <1>3, <3>1, <4>1, Positions
    <3> DEFINE c == ChunkAt(response, k)
    <3>4. c - 2 - retrieveLen \in Int /\ c - 2 - retrieveLen' = c - 2 - retrieveLen + Room
      BY SMTT(30), <1>3, <1>12, <3>3
    <3>5. Continues(response, excuses', <<>>, wire, c - 2 - retrieveLen')
      BY <2>2, <3>2, <3>4
    <3>6. BodyAt(response, k-1) <= d /\ d + retrieveLen' = BodyAt(response, k)
      BY <1>3, <1>5, <1>7, <1>12, <2>1, <3>2, <3>3
    <3>7. retrieveLen' \in Int /\ retrieveLen' >= 0
      BY <1>3, <1>5, <1>12
    <3>8. CASE retrieveLen' > 0
      BY <1>2, <3>1, <3>5, <3>6, <3>8 DEF Inside
    <3>9. CASE retrieveLen' = 0
      <4>1. retrieveLen = Room
        BY <1>3, <1>12, <3>9
      <4>2. "full_at_end_of_chunk" \in excuses'
        BY <1>13, <3>1, <4>1
      <4>3. c - 2 - retrieveLen' = c - 2 /\ d = BodyAt(response, k)
        BY <2>1, <3>3, <3>6, <3>9
      <4>4. Continues(response, excuses', <<>>, wire, c - 2)
        BY <3>5, <4>3
      <4> QED BY <1>2, <3>1, <3>9, <4>2, <4>3, <4>4 DEF Late, End
    <3> QED BY <3>7, <3>8, <3>9
  <2> QED BY <1>6, <2>3, <2>4
<1>11. excuses \subseteq excuses' /\ isMore' = TRUE /\ InBody(response, delivered', 0)
  BY <1>2, <1>3, <1>6, <1>8, <1>13
<1> QED BY <1>1, <1>2, <1>9, <1>10, <1>11, MoreGiven

\* All of a chunk, or of the body, is there.
LEMMA RetrieveEndInv == IInv /\ RetrieveEnd => IInv'
<1> SUFFICES ASSUME IInv, RetrieveEnd PROVE IInv'
  OBVIOUS
<1> DEFINE D == Len(delivered) + Len(responseBuf)
           b == responseBuf \o Take(pending, retrieveLen)
<1>1. pc = "retrieve" /\ pc \in Contents
  BY DEF RetrieveEnd, Contents
<1>2. /\ UNCHANGED <<isChunked, contentLen, headerBuf, bufLen, hasPost, header, response, wire,
                     peerClosed, excuses>>
      /\ UNCHANGED given
      /\ responseBuf' = b /\ pending' = Drop(pending, retrieveLen)
  BY DEF RetrieveEnd, given, net, history
<1>3. retrieveLen' = 0 /\ retrieveLen < Room /\ Len(pending) >= retrieveLen
  BY DEF RetrieveEnd
<1>4. \/ isChunked /\ Go("chunk_end") /\ isMore' = isMore
      \/ ~isChunked /\ Give("OK", "ready", b) /\ isMore' = FALSE
  BY DEF RetrieveEnd
<1>5. /\ response \in Responses /\ response # None /\ wire \in Seq(Byte) /\ pending \in Seq(Byte)
      /\ responseBuf \in Seq(Byte) /\ delivered \in Seq(Byte) /\ isMore = TRUE
      /\ isChunked \in BOOLEAN /\ retrieveLen \in Int /\ contentLen \in Int
      /\ Len(pending) \in Nat /\ Len(responseBuf) \in Nat /\ Len(delivered) \in Nat /\ Room \in Int
      /\ Len(wire) \in Nat /\ Len(Body(response)) \in Nat
      /\ Room = bufLen - 1 - Len(responseBuf) /\ bufLen \in Nat
  BY <1>1, InContent
<1>6. Len(pending) <= Room
  BY <1>1 DEF IInv, RoomInv
<1>7. D \in Nat
  BY <1>5
<1>8. Plain(pending, D) \/ Inside(pending, D)
  BY <1>1 DEF IInv, ContentInv, Contents
<1>9. retrieveLen \in 0..Len(pending)
  <2>1. retrieveLen >= 0
    BY <1>5, <1>8 DEF Plain, Inside
  <2> QED BY <1>3, <1>5, <2>1
<1>10. /\ b \in Seq(Byte) /\ Len(b) = Len(responseBuf) + retrieveLen
       /\ InBody(response, b, Len(delivered))
       /\ delivered \o b \in Seq(Byte) /\ Len(delivered \o b) = D + retrieveLen
       /\ InBody(response, delivered \o b, 0)
  <2>1. retrieveLen <= retrieveLen
    BY <1>5
  <2> QED BY <1>1, <1>9, <2>1, Retrieved
<1>11. Drop(pending, retrieveLen) \in Seq(Byte)
       /\ Len(Drop(pending, retrieveLen)) = Len(pending) - retrieveLen
  BY <1>5, <1>9, TakeDrop
<1>12. D = Len(delivered) + Len(responseBuf)
  OBVIOUS
<1> HIDE DEF D, b
<1>13. 0 \in Int
  OBVIOUS
<1>14. ASSUME isChunked, Go("chunk_end"), isMore' = isMore PROVE IInv'
  <2>1. pc' = "chunk_end" /\ UNCHANGED <<delivered, result>>
    BY <1>14 DEF Go
  <2>2. pc' \in Contents /\ pc' \in Pcs
    BY <2>1 DEF Contents, Pcs
  <2>3. TypeInv'
    BY <1>2, <1>3, <1>5, <1>10, <1>11, <1>13, <1>14, <2>1, <2>2 DEF IInv, TypeInv
  <2>4. RoomInv'
    <3>1. Len(pending') <= bufLen' - 1 - Len(responseBuf')
      <4>1. Len(pending') = Len(pending) - retrieveLen
        BY <1>2, <1>11
      <4>2. Len(responseBuf') = Len(responseBuf) + retrieveLen
        BY <1>2, <1>10
      <4> QED BY <1>2, <1>5, <1>6, <4>1, <4>2
    <3> QED BY <2>1, <3>1 DEF RoomInv, Room, Count
  <2>5. \A d : d = Len(delivered) + Len(responseBuf') => End(pending, d)'
    <3> SUFFICES ASSUME NEW d, d = Len(delivered) + Len(responseBuf') PROVE End(pending, d)'
      OBVIOUS
    <3>1. d = D + retrieveLen
      <4>1. Len(responseBuf') = Len(responseBuf) + retrieveLen
        BY <1>2, <1>10
      <4> QED BY <1>5, <1>12, <4>1
    <3>2. Inside(pending, D)
      BY <1>8, <1>14 DEF Plain
    <3>3. response.kind = "chunked"
      BY <3>2 DEF Inside
    <3>4. PICK k \in 1..Len(response.parts) :
            /\ D + retrieveLen = BodyAt(response, k)
            /\ Continues(response, excuses, pending, wire, ChunkAt(response, k) - 2 - retrieveLen)
      BY <3>2 DEF Inside
    <3>5. ChunkAt(response, k) \in Nat
      <4>1. k \in 0..Len(response.parts)
        BY <1>5, ChunksType
      <4> QED BY <1>5, <3>3, <4>1, Positions
    <3> DEFINE p == ChunkAt(response, k) - 2 - retrieveLen
    <3>6. p \in Int /\ p + retrieveLen = ChunkAt(response, k) - 2
      BY <1>5, <3>5
    <3>7. Continues(response, excuses, pending, wire, p)
      BY <3>4
    <3> HIDE DEF p
    <3>8. Continues(response, excuses, Drop(pending, retrieveLen), wire, p + retrieveLen)
      BY <1>5, <1>9, <3>6, <3>7, ContinuesDrop
    <3>9. Continues(response, excuses, pending', wire', ChunkAt(response, k) - 2)
      BY <1>2, <3>6, <3>8
    <3>10. d = BodyAt(response, k)
      BY <3>1, <3>4
    <3> QED BY <1>2, <1>3, <1>14, <3>3, <3>9, <3>10 DEF End
  <2>6. InBody(response, responseBuf', Len(delivered)) /\ isMore' = TRUE /\ excuses \subseteq excuses'
    BY <1>2, <1>5, <1>10, <1>14
  <2> QED BY <1>1, <1>2, <1>5, <2>1, <2>2, <2>3, <2>4, <2>5, <2>6, GoesOn
<1>15. ASSUME ~isChunked, Give("OK", "ready", b), isMore' = FALSE PROVE IInv'
  <2>1. pc' \in Pcs /\ delivered' = delivered \o b
    BY <1>15 DEF Give, Return, Pcs
  <2>2. TypeInv'
    BY <1>2, <1>3, <1>5, <1>10, <1>11, <1>13, <1>15, <2>1 DEF IInv, TypeInv
  <2>3. Plain(pending, D)
    BY <1>8, <1>15 DEF Inside
  <2>4. /\ response.kind = "length" /\ D + retrieveLen = Len(Body(response))
        /\ Continues(response, excuses, pending, wire, 8 + D)
    BY <2>3 DEF Plain
  <2>5. delivered' = Body(response)
    BY <1>5, <1>10, <2>1, <2>4, InBodyWhole
  <2>6. wire = <<>>
    <3>1. 8 + D + Len(pending) + Len(wire) <= Len(Wire(response))
      BY <2>4 DEF Continues, Reads
    <3>2. Len(Wire(response)) = 8 + Len(Body(response))
      BY <1>5, <2>4, WireIs
    <3>3. Len(wire) = 0
      <4>1. 8 + D + Len(pending) + Len(wire) <= 8 + D + retrieveLen
        BY <2>4, <3>1, <3>2, <1>5, <1>7
      <4> QED BY <1>3, <1>5, <1>7, <4>1
    <3> QED BY <1>5, <3>3, EmptySeq
  <2>7. wire' = <<>> /\ InBody(response, delivered', 0) /\ excuses \subseteq excuses'
    BY <1>2, <1>10, <2>1, <2>6
  <2> QED BY <1>1, <1>2, <1>15, <2>2, <2>5, <2>7, AllGiven
<1> QED BY <1>4, <1>14, <1>15

\* More of a chunk, or of the body, is received.
LEMMA RetrieveMoreInv == IInv /\ RetrieveMore => IInv'
<1> SUFFICES ASSUME IInv, RetrieveMore PROVE IInv'
  OBVIOUS
<1> DEFINE D == Len(delivered) + Len(responseBuf)
           b == responseBuf \o pending
<1>1. pc = "retrieve" /\ pc \in Contents
  BY DEF RetrieveMore, Contents
<1>2. /\ UNCHANGED <<isMore, isChunked, contentLen, headerBuf, bufLen, hasPost, header, response, excuses>>
      /\ UNCHANGED given /\ responseBuf' = b
  BY DEF RetrieveMore, given, history
<1>3. retrieveLen' = retrieveLen - Len(pending) /\ Len(pending) < Room /\ Len(pending) < retrieveLen
  BY DEF RetrieveMore
<1>4. /\ response \in Responses /\ response # None /\ wire \in Seq(Byte) /\ pending \in Seq(Byte)
      /\ responseBuf \in Seq(Byte) /\ delivered \in Seq(Byte) /\ isMore = TRUE
      /\ isChunked \in BOOLEAN /\ retrieveLen \in Int /\ contentLen \in Int
      /\ Len(pending) \in Nat /\ Len(responseBuf) \in Nat /\ Len(delivered) \in Nat /\ Room \in Int
      /\ Room = bufLen - 1 - Len(responseBuf) /\ bufLen \in Nat
  BY <1>1, InContent
<1> DEFINE max == Least(Room, retrieveLen) - Len(pending)
<1>5. max \in Int /\ max <= Room - Len(pending)
  BY <1>4 DEF Least
<1>6. PICK r \in httpclient_recv(1, max) :
        /\ Received(r[1]) /\ pending' = Take(wire, r[1])
        /\ IF GivesUp(r[1], r[2]) THEN Fail(r[2]) ELSE Go(pc)
  BY DEF RetrieveMore
<1> HIDE DEF max
<1>7. /\ r[1] \in 0..Len(wire) /\ r[1] <= max /\ r[2] \in {"OK", "ERROR_CONN", "CLOSED"}
  BY <1>4, <1>5, RecvResult
<1>8. /\ pending' \in Seq(Byte) /\ Len(pending') = r[1]
      /\ wire' \in Seq(Byte) /\ wire' = Drop(wire, r[1]) /\ peerClosed' = peerClosed
  BY <1>4, <1>6, <1>7, ReceivedBytes
<1>9. D \in Nat
  BY <1>4
<1>10. /\ Plain(pending, D) \/ Inside(pending, D)
       /\ b \in Seq(Byte) /\ Len(b) = Len(responseBuf) + Len(pending)
       /\ InBody(response, b, Len(delivered))
  <2>1. Take(pending, Len(pending)) = pending
    BY <1>4, TakeAll
  <2>2. Len(pending) \in 0..Len(pending) /\ Len(pending) <= retrieveLen
    BY <1>3, <1>4
  <2>3. b = responseBuf \o Take(pending, Len(pending))
    BY <2>1
  <2> HIDE DEF b
  <2> QED BY <1>1, <2>2, <2>3, Retrieved
<1>11. D = Len(delivered) + Len(responseBuf)
  OBVIOUS
<1> HIDE DEF D, b
<1>12. retrieveLen' \in Int /\ retrieveLen' > 0
  BY <1>3, <1>4
<1>13. ASSUME Fail(r[2]) PROVE IInv'
  <2>1. pc' \in Pcs /\ delivered' = delivered
    BY <1>13 DEF Fail, Return, Pcs
  <2>2. TypeInv'
    BY <1>2, <1>4, <1>8, <1>10, <1>12, <2>1 DEF IInv, TypeInv
  <2>3. r[2] \notin {"ERROR_PRTCL", "ERROR"} /\ excuses \subseteq excuses'
    BY <1>2, <1>7
  <2> QED BY <1>2, <1>8, <1>13, <2>2, <2>3, FailKeeps
<1>14. ASSUME Go(pc) PROVE IInv'
  <2>1. pc' = "retrieve" /\ UNCHANGED <<delivered, result>>
    BY <1>1, <1>14 DEF Go
  <2>2. pc' \in Contents /\ pc' \in Pcs
    BY <2>1 DEF Contents, Pcs
  <2>3. TypeInv'
    BY <1>2, <1>4, <1>8, <1>10, <1>12, <2>1, <2>2 DEF IInv, TypeInv
  <2>4. RoomInv'
    <3>1. Len(pending') <= bufLen' - 1 - Len(responseBuf')
      <4>1. Len(responseBuf') = Len(responseBuf) + Len(pending)
        BY <1>2, <1>10
      <4> QED BY <1>2, <1>4, <1>5, <1>7, <1>8, <4>1
    <3> QED BY <2>1, <3>1 DEF RoomInv, Room, Count
  <2>5. \A d : d = Len(delivered) + Len(responseBuf') => Plain(pending, d)' \/ Inside(pending, d)'
    <3> SUFFICES ASSUME NEW d, d = Len(delivered) + Len(responseBuf')
                 PROVE Plain(pending, d)' \/ Inside(pending, d)'
      OBVIOUS
    <3>1. d = D + Len(pending) /\ d \in Nat
      <4>1. Len(responseBuf') = Len(responseBuf) + Len(pending)
        BY <1>2, <1>10
      <4> QED BY <1>4, <1>9, <1>11, <4>1
    <3>2. d + retrieveLen' = D + retrieveLen
      <4>1. Len(pending) \in Nat /\ retrieveLen \in Int /\ retrieveLen' = retrieveLen - Len(pending)
        BY <1>3, <1>4
      <4>2. D + Len(pending) + (retrieveLen - Len(pending)) = D + retrieveLen
        BY <1>9, <4>1
      <4> QED BY <3>1, <4>1, <4>2
    <3>3. ASSUME NEW p \in Int, Continues(response, excuses, pending, wire, p),
                 NEW q, q = p + Len(pending)
          PROVE  Continues(response, excuses', pending', wire', q)
      <4>1. Continues(response, excuses, Take(wire, r[1]), Drop(wire, r[1]), p + Len(pending))
        BY <1>4, <1>7, <3>3, ContinuesNew
      <4> QED BY <1>2, <1>6, <1>8, <3>3, <4>1
    <3>4. CASE Plain(pending, D)
      <4>1. /\ response.kind = "length" /\ ~isChunked /\ contentLen \in Nat
            /\ D + retrieveLen = Len(Body(response))
            /\ Continues(response, excuses, pending, wire, 8 + D)
        BY <3>4 DEF Plain
      <4>2. 8 + D \in Int /\ 8 + d = 8 + D + Len(pending)
        BY <1>4, <1>9, <3>1
      <4>3. Continues(response, excuses', pending', wire', 8 + d)
        BY <3>3, <4>1, <4>2
      <4>4. retrieveLen' \in Nat /\ d + retrieveLen' = Len(Body(response))
        BY <1>12, <3>2, <4>1
      <4> QED BY <1>2, <4>1, <4>3, <4>4 DEF Plain
    <3>5. CASE Inside(pending, D)
      <4>1. response.kind = "chunked" /\ isChunked
        BY <3>5 DEF Inside
      <4>2. PICK k \in 1..Len(response.parts) :
              /\ BodyAt(response, k-1) <= D /\ D + retrieveLen = BodyAt(response, k)
              /\ Continues(response, excuses, pending, wire, ChunkAt(response, k) - 2 - retrieveLen)
        BY <3>5 DEF Inside
      <4>3. ChunkAt(response, k) \in Nat /\ BodyAt(response, k-1) \in Nat
        <5>1. k \in 0..Len(response.parts) /\ k-1 \in 0..Len(response.parts)
          BY <1>4, ChunksType
        <5> QED BY <1>4, <4>1, <5>1, Positions
      <4> DEFINE c == ChunkAt(response, k)
      <4>4. c - 2 - retrieveLen \in Int /\ c - 2 - retrieveLen' = c - 2 - retrieveLen + Len(pending)
        BY SMTT(30), <1>3, <1>4, <4>3
      <4>5. Continues(response, excuses', pending', wire', c - 2 - retrieveLen')
        BY <3>3, <4>2, <4>4
      <4>6. BodyAt(response, k-1) <= d
        BY SMTT(30), <1>4, <1>9, <3>1, <4>2, <4>3
      <4>7. d + retrieveLen' = BodyAt(response, k)
        BY <3>2, <4>2
      <4> QED BY <1>2, <1>12, <4>1, <4>5, <4>6, <4>7 DEF Inside
    <3> QED BY <1>10, <3>4, <3>5
  <2>6. InBody(response, responseBuf', Len(delivered)) /\ isMore' = TRUE /\ excuses \subseteq excuses'
    BY <1>2, <1>4, <1>10
  <2> QED BY <1>1, <1>2, <1>4, <1>8, <2>1, <2>2, <2>3, <2>4, <2>5, <2>6, GoesOn
<1> QED BY <1>6, <1>13, <1>14

\* What is given to the application when no more is put into the buffer.
LEMMA GivenSoFar ==
  ASSUME IInv, pc \in Contents
  PROVE  /\ delivered \o responseBuf \in Seq(Byte)
         /\ Len(delivered \o responseBuf) = Len(delivered) + Len(responseBuf)
         /\ InBody(response, delivered \o responseBuf, 0)
<1>1. /\ responseBuf \in Seq(Byte) /\ delivered \in Seq(Byte) /\ Len(delivered) \in Nat
      /\ InBody(response, delivered, 0) /\ InBody(response, responseBuf, Len(delivered))
  BY InContent
<1>2. 0 \in Nat /\ 0 + Len(delivered) = Len(delivered)
  BY <1>1
<1>3. InBody(response, responseBuf, 0 + Len(delivered))
  BY <1>1, <1>2
<1>4. InBody(response, delivered \o responseBuf, 0)
  BY <1>1, <1>2, <1>3, InBodyMore
<1> QED BY <1>1, <1>4, ConcatProperties

\* CRLF at the beginning.
LEMMA TakeCrlf ==
  ASSUME NEW s \in Seq(Byte)
  PROVE  Take(s, 2) = CRLF <=> Len(s) >= 2 /\ s[1] = CR /\ s[2] = LF
<1>1. Len(s) \in Nat /\ CRLF \in Seq(Byte) /\ Len(CRLF) = 2 /\ CRLF[1] = CR /\ CRLF[2] = LF
  BY LenProperties, ByteTypes
<1>2. CASE Len(s) < 2
  <2>1. Take(s, 2) = Take(s, Len(s))
    BY <1>1, <1>2 DEF Take, Least
  <2>2. Take(s, 2) = s
    BY <2>1, TakeAll
  <2> QED BY <1>1, <1>2, <2>2
<1>3. CASE Len(s) >= 2
  <2>1. 2 \in 0..Len(s) /\ 1 \in 1..2 /\ 2 \in 1..2
    BY <1>1, <1>3
  <2>2. /\ Take(s, 2) \in Seq(Byte) /\ Len(Take(s, 2)) = 2
        /\ \A i \in 1..2 : Take(s, 2)[i] = s[i]
    BY <2>1, TakeDrop
  <2>3. Take(s, 2)[1] = s[1] /\ Take(s, 2)[2] = s[2]
    BY <2>1, <2>2
  <2> DEFINE t == Take(s, 2)
  <2>4. t \in Seq(Byte) /\ Len(t) = 2 /\ t[1] = s[1] /\ t[2] = s[2]
    BY <2>2, <2>3
  <2> HIDE DEF t
  <2>5. ASSUME s[1] = CR, s[2] = LF PROVE t = CRLF
    <3>1. \A i \in 1..Len(t) : t[i] = CRLF[i]
      <4>1. \A i \in 1..2 : i = 1 \/ i = 2
        OBVIOUS
      <4> QED BY <1>1, <2>4, <2>5, <4>1
    <3> QED BY <1>1, <2>4, <3>1, SeqEqual
  <2>6. ASSUME t = CRLF PROVE s[1] = CR /\ s[2] = LF
    BY <1>1, <2>4, <2>6
  <2> QED BY <1>3, <2>5, <2>6 DEF t
<1> QED BY <1>1, <1>2, <1>3

\* The CRLF behind a chunk.
LEMMA ChunkEndInv == IInv /\ ChunkEnd => IInv'
<1> SUFFICES ASSUME IInv, ChunkEnd PROVE IInv'
  OBVIOUS
<1> DEFINE D == Len(delivered) + Len(responseBuf)
           len == Len(pending)
           missing == 2 - len
           room == Room - len + 2
           max == IF room + len < 2 + ChunkSizeStrLen THEN missing ELSE room
<1>1. pc = "chunk_end" /\ pc \in Contents
  BY DEF ChunkEnd, Contents
<1>2. /\ UNCHANGED <<isMore, isChunked, retrieveLen, contentLen, responseBuf, headerBuf, bufLen, hasPost,
                     header, response, excuses>>
      /\ UNCHANGED given
  BY DEF ChunkEnd, data, given, history
<1>3. /\ response \in Responses /\ response # None /\ wire \in Seq(Byte) /\ pending \in Seq(Byte)
      /\ responseBuf \in Seq(Byte) /\ delivered \in Seq(Byte) /\ isMore = TRUE
      /\ Len(wire) \in Nat /\ Len(pending) \in Nat /\ Room \in Int
      /\ Room = bufLen - 1 - Len(responseBuf)
      /\ InBody(response, responseBuf, Len(delivered))
  BY <1>1, InContent
<1>4. len \in Nat /\ len <= Room
  BY <1>1, <1>3 DEF IInv, RoomInv
<1>5. End(pending, D)
  BY <1>1 DEF IInv, ContentInv, Contents
<1>6. response.kind = "chunked" /\ isChunked /\ retrieveLen = 0
  BY <1>5 DEF End
<1>7. PICK k \in 1..Len(response.parts) :
        D = BodyAt(response, k) /\ Continues(response, excuses, pending, wire, ChunkAt(response, k) - 2)
  BY <1>5 DEF End
<1> HIDE DEF D
<1>8. k \in 0..Len(response.parts)
  BY <1>3, ChunksType
<1>9. ChunkAt(response, k) \in Nat
  BY <1>3, <1>6, <1>8, Positions
<1>10. Wire(response)[ChunkAt(response, k) - 1] = CR /\ Wire(response)[ChunkAt(response, k)] = LF
  BY <1>3, <1>6, WireChunked
<1>11. PICK r \in IF len < 2 THEN httpclient_recv(missing, max) ELSE {<<0, "OK">>} :
         LET bytes == pending \o Take(wire, r[1]) IN
         /\ Received(r[1])
         /\ \/ len < 2 /\ GivesUp(r[1], r[2]) /\ Fail(r[2]) /\ UNCHANGED pending
            \/ ~(len < 2 /\ GivesUp(r[1], r[2])) /\ Take(bytes, 2) = CRLF
               /\ pending' = Drop(bytes, 2) /\ Go("chunk_line")
            \/ ~(len < 2 /\ GivesUp(r[1], r[2])) /\ Take(bytes, 2) # CRLF
               /\ pending' = bytes /\ Fail("ERROR_PRTCL")
  BY DEF ChunkEnd
<1>12. missing \in Int /\ max \in Int /\ max >= missing /\ (max = missing \/ (Room >= 6 /\ max = room))
  <2>1. room + len = Room + 2 /\ room >= missing /\ missing \in Int /\ room \in Int
    BY <1>3, <1>4
  <2>2. CASE room + len < 2 + ChunkSizeStrLen
    <3>1. max = missing
      BY <2>2
    <3> QED BY <2>1, <3>1
  <2>3. CASE ~(room + len < 2 + ChunkSizeStrLen)
    <3>1. max = room
      BY <2>3
    <3>2. Room >= 6
      BY <1>3, <2>1, <2>3 DEF ChunkSizeStrLen
    <3> QED BY <2>1, <3>1, <3>2
  <2> QED BY <2>2, <2>3
<1> HIDE DEF max
<1>13. /\ r[1] \in 0..Len(wire)
       /\ len >= 2 => r[1] = 0
       /\ len < 2 => /\ r[1] <= max /\ r[2] \in {"OK", "ERROR_CONN", "CLOSED"}
                     /\ r[2] = "OK" => r[1] >= missing
                     /\ r[2] = "CLOSED" => peerClosed
  <2>1. CASE len < 2
    <3>1. r \in httpclient_recv(missing, max)
      BY <1>11, <2>1
    <3>2. Least(missing, max) = missing
      BY <1>12 DEF Least
    <3> HIDE DEF missing
    <3>3. /\ r[1] \in 0..Len(wire) /\ r[1] <= max /\ r[2] \in {"OK", "ERROR_CONN", "CLOSED"}
          /\ r[2] = "OK" => r[1] >= Least(missing, max)
          /\ r[2] = "CLOSED" => peerClosed
      BY <1>3, <1>12, <3>1, RecvResult
    <3> QED BY <1>4, <2>1, <3>2, <3>3
  <2>2. CASE ~(len < 2)
    <3>1. r = <<0, "OK">>
      BY <1>11, <2>2
    <3>2. r[1] = 0
      BY <3>1
    <3> QED BY <1>3, <2>2, <3>2
  <2> QED BY <2>1, <2>2
<1> DEFINE bytes == pending \o Take(wire, r[1])
<1>14. /\ Received(r[1])
       /\ \/ len < 2 /\ GivesUp(r[1], r[2]) /\ Fail(r[2]) /\ UNCHANGED pending
          \/ ~(len < 2 /\ GivesUp(r[1], r[2])) /\ Take(bytes, 2) = CRLF
             /\ pending' = Drop(bytes, 2) /\ Go("chunk_line")
          \/ ~(len < 2 /\ GivesUp(r[1], r[2])) /\ Take(bytes, 2) # CRLF
             /\ pending' = bytes /\ Fail("ERROR_PRTCL")
  BY <1>11
<1>15. /\ wire' \in Seq(Byte) /\ wire' = Drop(wire, r[1]) /\ peerClosed' = peerClosed
       /\ Take(wire, r[1]) \in Seq(Byte) /\ Len(Take(wire, r[1])) = r[1]
  BY <1>3, <1>13, <1>14, ReceivedBytes
<1>16. bytes \in Seq(Byte) /\ Len(bytes) = len + r[1]
  BY <1>3, <1>15, ConcatProperties
<1>17. Continues(response, excuses, bytes, wire', ChunkAt(response, k) - 2)
  <2>1. ChunkAt(response, k) - 2 \in Int
    BY <1>9
  <2> QED BY <1>3, <1>7, <1>13, <1>15, <2>1, ContinuesMore
<1> HIDE DEF bytes
<1>18. Len(bytes) >= 2 => Take(bytes, 2) = CRLF
  <2> SUFFICES ASSUME Len(bytes) >= 2 PROVE bytes[1] = CR /\ bytes[2] = LF
    BY <1>16, TakeCrlf
  <2>1. 1 \in 1..Len(bytes) /\ 2 \in 1..Len(bytes)
    <3>1. Len(bytes) \in Nat
      BY <1>16, LenProperties
    <3> QED BY <3>1
  <2>2. \A i \in 1..Len(bytes) : bytes[i] = Wire(response)[ChunkAt(response, k) - 2 + i]
    BY <1>17 DEF Continues, Shows
  <2>3. ChunkAt(response, k) - 2 + 1 = ChunkAt(response, k) - 1 /\ ChunkAt(response, k) - 2 + 2 = ChunkAt(response, k)
    BY <1>9
  <2> QED BY <1>10, <2>1, <2>2, <2>3
<1>19. ASSUME len < 2, GivesUp(r[1], r[2]), Fail(r[2]), UNCHANGED pending PROVE IInv'
  <2>1. pc' \in Pcs /\ delivered' = delivered
    BY <1>19 DEF Fail, Return, Pcs
  <2>2. TypeInv'
    BY <1>2, <1>15, <1>19, <2>1 DEF IInv, TypeInv
  <2>3. r[2] \notin {"ERROR_PRTCL", "ERROR"} /\ excuses \subseteq excuses'
    BY <1>2, <1>13, <1>19
  <2> QED BY <1>2, <1>15, <1>19, <2>2, <2>3, FailKeeps
<1>20. ASSUME ~(len < 2 /\ GivesUp(r[1], r[2])), Take(bytes, 2) = CRLF, pending' = Drop(bytes, 2),
              Go("chunk_line")
       PROVE  IInv'
  <2>1. pc' = "chunk_line" /\ UNCHANGED <<delivered, result>>
    BY <1>20 DEF Go
  <2>2. pc' \in Contents /\ pc' \in Pcs
    BY <2>1 DEF Contents, Pcs
  <2>3. 2 \in 0..Len(bytes)
    <3>1. Len(bytes) \in Nat /\ Len(bytes) >= 2
      BY <1>16, <1>20, TakeCrlf, LenProperties
    <3> QED BY <3>1
  <2>4. pending' \in Seq(Byte) /\ Len(pending') = len + r[1] - 2
    <3>1. Drop(bytes, 2) \in Seq(Byte) /\ Len(Drop(bytes, 2)) = Len(bytes) - 2
      BY ZenonT(30), <1>16, <2>3, TakeDrop
    <3>2. pending' = Drop(bytes, 2)
      BY <1>20
    <3>3. Len(bytes) - 2 = len + r[1] - 2
      <4>1. r[1] \in Nat
        BY <1>13
      <4> QED BY <1>4, <1>16, <4>1
    <3> QED BY <3>1, <3>2, <3>3
  <2>5. TypeInv'
    BY <1>2, <1>15, <2>1, <2>2, <2>4 DEF IInv, TypeInv
  <2>6. RoomInv'
    <3>1. Room' = Room
      BY <1>2 DEF Room, Count
    <3>2. Room >= 0 /\ Len(pending') <= Room + 3 /\ (pending' # <<>> => Room >= 3)
      <4>1. Len(pending') = 0 => pending' = <<>>
        BY <2>4, EmptySeq
      <4>2. r[1] \in Nat
        BY <1>13
      <4>3. CASE len >= 2
        BY <1>3, <1>4, <1>13, <2>4, <4>1, <4>3
      <4>4. CASE len < 2
        <5>1. r[1] <= max
          BY <1>13, <4>4
        <5>2. CASE max = missing
          <6>1. Len(pending') <= 0
            BY <1>4, <2>4, <4>2, <5>1, <5>2
          <6>2. Len(pending') \in Nat
            BY <2>4, LenProperties
          <6> QED BY <1>3, <1>4, <4>1, <6>1, <6>2
        <5>3. CASE Room >= 6 /\ max = room
          <6>1. r[1] <= Room - len + 2
            BY <5>1, <5>3
          <6>2. len + r[1] - 2 <= Room
            BY <1>3, <1>4, <4>2, <6>1
          <6>3. Room >= 0 /\ Room >= 3 /\ Room + 3 >= Room
            BY SMTT(30), <1>3, <5>3
          <6>4. Len(pending') <= Room
            BY <2>4, <6>2
          <6>5. Len(pending') \in Nat
            BY <2>4, LenProperties
          <6> QED BY <1>3, <6>3, <6>4, <6>5
        <5> QED BY <1>12, <5>2, <5>3
      <4> QED BY <1>4, <4>3, <4>4
    <3> QED BY <2>1, <3>1, <3>2 DEF RoomInv
  <2>7. \A d : d = Len(delivered) + Len(responseBuf') => Line(pending, d)'
    <3> SUFFICES ASSUME NEW d, d = Len(delivered) + Len(responseBuf') PROVE Line(pending, d)'
      OBVIOUS
    <3>1. d = BodyAt(response, k)
      BY <1>2, <1>7 DEF D
    <3>2. ChunkAt(response, k) - 2 \in Int /\ ChunkAt(response, k) - 2 + 2 = ChunkAt(response, k)
      BY <1>9
    <3>3. Continues(response, excuses, Drop(bytes, 2), wire', ChunkAt(response, k) - 2 + 2)
      BY <1>16, <1>17, <2>3, <3>2, ContinuesDrop
    <3>4. Continues(response, excuses, pending', wire', ChunkAt(response, k))
      BY <1>20, <3>2, <3>3
    <3> QED BY <1>2, <1>6, <1>8, <3>1, <3>4 DEF Line
  <2>8. InBody(response, responseBuf', Len(delivered)) /\ isMore' = TRUE /\ excuses \subseteq excuses'
    BY <1>2, <1>3
  <2> QED BY <1>1, <1>2, <1>3, <1>15, <2>1, <2>2, <2>5, <2>6, <2>7, <2>8, GoesOn
<1>21. ASSUME ~(len < 2 /\ GivesUp(r[1], r[2])), Take(bytes, 2) # CRLF, pending' = bytes,
              Fail("ERROR_PRTCL")
       PROVE  IInv'
  <2>1. pc' \in Pcs /\ delivered' = delivered
    BY <1>21 DEF Fail, Return, Pcs
  <2>2. TypeInv'
    BY <1>2, <1>15, <1>16, <1>21, <2>1 DEF IInv, TypeInv
  <2>3. Len(bytes) < 2 /\ len < 2
    <3>1. Len(bytes) \in Nat /\ r[1] \in Nat
      BY <1>13, <1>16, LenProperties
    <3> QED BY <1>4, <1>16, <1>18, <1>21, <3>1
  <2>4. r[2] # "OK" /\ r[2] # "ERROR_CONN"
    <3>1. r[2] # "ERROR_CONN"
      BY <1>21, <2>3 DEF GivesUp
    <3>2. r[2] = "OK" => r[1] >= 2 - len
      BY <1>13, <2>3
    <3>3. r[1] \in Nat
      BY <1>13
    <3> QED BY <1>4, <1>16, <2>3, <3>1, <3>2, <3>3
  <2>5. peerClosed
    BY <1>13, <2>3, <2>4
  <2>6. "died" \in excuses
    BY <1>3, <1>6, <2>5 DEF IInv, CommonInv
  <2>7. excuses \subseteq excuses' /\ excuses' # {}
    BY <1>2, <2>6
  <2> QED BY <1>2, <1>15, <1>21, <2>2, <2>7, FailKeeps
<1> QED BY <1>14, <1>19, <1>20, <1>21

\* A size line at the beginning of the buffer: the first CRLF ends it, and its
\* digits make its size.
LEMMA SizeLineRead ==
  ASSUME NEW r, r.pad \in Nat, NEW n \in Nat, NEW p \in Nat, SizeAt(r, p, n),
         NEW u \in Seq(Byte), Shows(r, u, p),
         NEW crlf, crlf = FindCrlf(u, Len(u) - 2), crlf # -1
  PROVE  /\ crlf = r.pad + 1 /\ Len(u) >= crlf + 3
         /\ ChunkSize(Take(u, crlf)) = n
<1>1. Len(u) \in Nat /\ Len(u) - 2 \in Int
  BY LenProperties
<1>2. crlf \in 0..Len(u)-2-1 /\ CrlfAt(u, crlf) /\ \A q \in 0..crlf-1 : ~CrlfAt(u, q)
  BY <1>1, CrlfFound
<1>3. /\ crlf \in Nat /\ crlf + 3 <= Len(u) /\ u[crlf+1] = CR
  BY <1>1, <1>2 DEF CrlfAt
<1> DEFINE pad == r.pad
<1>4. pad \in Nat
  OBVIOUS
<1>5. /\ \A i \in 1..pad : Wire(r)[p + i] = Hex(0)
      /\ Wire(r)[p + pad + 1] = Hex(n) /\ Wire(r)[p + pad + 2] = CR /\ Wire(r)[p + pad + 3] = LF
  BY DEF SizeAt
<1> HIDE DEF pad
<1>6. \A i \in 1..Len(u) : u[i] = Wire(r)[p+i]
  BY DEF Shows
<1>7. Hex(0) # CR /\ Hex(n) # CR
  <2>1. 0 \in Nat
    OBVIOUS
  <2> QED BY <2>1, ByteTypes
<1>8. \A i \in 1..pad : i <= Len(u) => u[i] = Hex(0)
  <2> SUFFICES ASSUME NEW i \in 1..pad, i <= Len(u) PROVE u[i] = Hex(0)
    OBVIOUS
  <2>1. i \in 1..Len(u)
    BY <1>1, <1>4
  <2> QED BY <1>5, <1>6, <2>1
<1>9. pad + 1 <= Len(u) => u[pad+1] = Hex(n)
  <2> SUFFICES ASSUME pad + 1 <= Len(u) PROVE u[pad+1] = Hex(n)
    OBVIOUS
  <2>1. pad + 1 \in 1..Len(u) /\ p + (pad + 1) = p + pad + 1
    BY <1>1, <1>4
  <2> QED BY <1>5, <1>6, <2>1
<1>10. crlf >= pad + 1
  <2> SUFFICES ASSUME crlf <= pad PROVE FALSE
    BY <1>3, <1>4
  <2>1. CASE crlf + 1 <= pad
    <3>1. crlf + 1 \in 1..pad /\ crlf + 1 <= Len(u)
      BY <1>1, <1>3, <1>4, <2>1
    <3> QED BY <1>3, <1>7, <1>8, <3>1
  <2>2. CASE crlf = pad
    <3>1. pad + 1 <= Len(u)
      BY <1>1, <1>3, <1>4, <2>2
    <3> QED BY <1>3, <1>7, <1>9, <2>2, <3>1
  <2> QED BY <1>3, <1>4, <2>1, <2>2
<1>11. crlf = pad + 1
  <2> SUFFICES ASSUME crlf > pad + 1 PROVE FALSE
    BY <1>3, <1>4, <1>10
  <2>1. /\ pad + 1 \in 0..crlf-1 /\ pad + 2 \in 1..Len(u) /\ pad + 3 \in 1..Len(u)
        /\ p + (pad + 2) = p + pad + 2 /\ p + (pad + 3) = p + pad + 3
        /\ pad + 1 + 1 = pad + 2 /\ pad + 1 + 2 = pad + 3 /\ pad + 3 <= Len(u)
    BY <1>1, <1>3, <1>4
  <2>2. u[pad+2] = CR /\ u[pad+3] = LF
    BY SMTT(30), <1>5, <1>6, <2>1
  <2>3. CrlfAt(u, pad + 1)
    BY <2>1, <2>2 DEF CrlfAt
  <2> QED BY <1>2, <2>1, <2>3
<1> DEFINE line == Take(u, crlf)
<1>12. /\ line \in Seq(Byte) /\ Len(line) = crlf /\ \A i \in 1..crlf : line[i] = u[i]
  <2>1. crlf \in 0..Len(u)
    BY <1>1, <1>3
  <2> QED BY <2>1, TakeDrop
<1> HIDE DEF line
<1>13. ChunkSize(line) = n
  <2>1. Len(line) = pad + 1
    BY <1>11, <1>12
  <2>2. \A i \in 1..pad : line[i] = Hex(0)
    <3> SUFFICES ASSUME NEW i \in 1..pad PROVE line[i] = Hex(0)
      OBVIOUS
    <3>1. i \in 1..crlf /\ i <= Len(u)
      BY <1>1, <1>3, <1>4, <1>11
    <3> QED BY <1>8, <1>12, <3>1
  <2>3. line[pad+1] = Hex(n)
    <3>1. pad + 1 \in 1..crlf /\ pad + 1 <= Len(u)
      BY <1>1, <1>3, <1>4, <1>11
    <3> QED BY <1>9, <1>12, <3>1
  <2> QED BY <1>4, <1>12, <2>1, <2>2, <2>3, ChunkSizeIs
<1>14. Len(u) >= crlf + 3
  BY <1>1, <1>3
<1> QED BY <1>11, <1>13, <1>14 DEF line, pad

\* CRLF taken for a size line: it is of no size.
LEMMA CrlfRead ==
  ASSUME NEW u \in Seq(Byte), NEW crlf, crlf = FindCrlf(u, Len(u) - 2), crlf # -1,
         u[1] = CR, u[2] = LF
  PROVE  ChunkSize(Take(u, crlf)) = -1
<1>1. Len(u) \in Nat /\ Len(u) - 2 \in Int
  BY LenProperties
<1>2. crlf \in 0..Len(u)-2-1 /\ \A q \in 0..crlf-1 : ~CrlfAt(u, q)
  BY <1>1, CrlfFound
<1>3. CrlfAt(u, 0)
  BY <1>1, <1>2 DEF CrlfAt
<1>4. crlf = 0
  <2>1. crlf \in Nat /\ ~(0 \in 0..crlf-1)
    BY <1>1, <1>2, <1>3
  <2> QED BY <2>1
<1>5. Take(u, 0) = <<>>
  <2>1. 0 \in 0..Len(u)
    BY <1>1
  <2>2. Take(u, 0) \in Seq(Byte) /\ Len(Take(u, 0)) = 0
    BY <2>1, TakeDrop
  <2> QED BY <2>2, EmptySeq
<1> QED BY <1>4, <1>5 DEF ChunkSize

\* Where the size line behind k chunks is, and what is behind it.
LEMMA LineAt ==
  ASSUME NEW r \in Responses, r.kind = "chunked", NEW n, n = Len(r.parts), NEW k \in 0..n,
         NEW c, c = ChunkAt(r, k), NEW pad, pad = r.pad
  PROVE  /\ n \in Nat /\ c \in Nat /\ pad \in Nat /\ BodyAt(r, k) \in Nat
         /\ \E s \in Nat :
              /\ s = 0 <=> k = n
              /\ SizeAt(r, c, s)
              /\ k < n => /\ BodyAt(r, k+1) = BodyAt(r, k) + s
                          /\ ChunkAt(r, k+1) = c + pad + s + 5
         /\ k = n => /\ Len(Body(r)) = BodyAt(r, k)
                     /\ Len(Wire(r)) = c + pad + 5 /\ Wire(r)[Len(Wire(r))] = LF
<1>1. n \in Nat /\ pad \in Nat /\ \A j \in 1..n : Len(r.parts[j]) \in Nat /\ Len(r.parts[j]) > 0
  BY ChunksType
<1>2. /\ \A j \in 0..n : ChunkAt(r, j) \in Nat
      /\ \A j \in 1..n : /\ ChunkAt(r, j) = ChunkAt(r, j-1) + pad + Len(r.parts[j]) + 5
                         /\ SizeAt(r, ChunkAt(r, j-1), Len(r.parts[j]))
      /\ SizeAt(r, ChunkAt(r, n), 0)
      /\ Len(Wire(r)) = ChunkAt(r, n) + pad + 5 /\ Wire(r)[Len(Wire(r))] = LF
  BY WireChunked
<1>3. /\ Len(Body(r)) = BodyAt(r, n) /\ \A j \in 0..n : BodyAt(r, j) \in Nat
      /\ \A j \in 1..n : BodyAt(r, j) = BodyAt(r, j-1) + Len(r.parts[j])
  BY BodyIs
<1>4. c \in Nat /\ BodyAt(r, k) \in Nat
  BY <1>2, <1>3
<1>5. CASE k < n
  <2> DEFINE j == k + 1
             s == Len(r.parts[j])
  <2>1. j \in 1..n /\ j - 1 = k /\ s = Len(r.parts[j])
    <3>1. k \in 0..n
      OBVIOUS
    <3> QED BY <1>1, <1>5, <3>1
  <2>2. j = k + 1
    OBVIOUS
  <2> HIDE DEF j, s
  <2>3. s \in Nat /\ s > 0
    BY <1>1, <2>1
  <2>4. /\ ChunkAt(r, j) = ChunkAt(r, j-1) + pad + Len(r.parts[j]) + 5
        /\ SizeAt(r, ChunkAt(r, j-1), Len(r.parts[j]))
    BY <1>2, <2>1
  <2>5. BodyAt(r, j) = BodyAt(r, j-1) + Len(r.parts[j])
    BY <1>3, <2>1
  <2>6. ChunkAt(r, j) = c + pad + s + 5 /\ SizeAt(r, c, s)
    BY <2>1, <2>4
  <2>7. BodyAt(r, j) = BodyAt(r, k) + s
    BY <2>1, <2>5
  <2>8. k # n
    BY <1>1, <1>5
  <2>9. ~(s = 0)
    BY <2>3
  <2> QED BY <1>1, <1>4, <2>2, <2>3, <2>6, <2>7, <2>8, <2>9
<1>6. CASE k = n
  <2>1. ~(k < n) /\ 0 \in Nat
    BY <1>1, <1>6
  <2>2. SizeAt(r, c, 0)
    BY <1>2, <1>6
  <2> QED BY <1>1, <1>2, <1>3, <1>4, <1>6, <2>1, <2>2
<1> QED BY <1>1, <1>5, <1>6

\* How much of the CRLF that ends a body can be left.
LEMMA LastByte ==
  ASSUME NEW c \in Nat, NEW pad \in Nat, NEW l \in Nat, NEW m \in Nat,
         l >= pad + 4, c + l + m <= c + pad + 5
  PROVE  /\ m = 0 \/ m = 1
         /\ m = 1 => l = pad + 4 /\ c + l + 1 = c + pad + 5
OBVIOUS

\* A chunk line.
LEMMA ChunkLineInv == IInv /\ ChunkLine => IInv'
<1> SUFFICES ASSUME IInv, ChunkLine PROVE IInv'
  OBVIOUS
<1> DEFINE D == Len(delivered) + Len(responseBuf)
           crlf == FindCrlf(pending, Len(pending) - 2)
           size == ChunkSize(Take(pending, crlf))
<1>1. pc = "chunk_line" /\ pc \in Contents /\ crlf # -1
  BY DEF ChunkLine, Contents
<1>2. /\ UNCHANGED <<isChunked, responseBuf, headerBuf, bufLen, hasPost, header, response, wire, peerClosed>>
      /\ UNCHANGED given
  BY DEF ChunkLine, given, net
<1>3. /\ pending' = IF size = -1 THEN pending ELSE Drop(pending, crlf + 2)
      /\ retrieveLen' = IF size = -1 THEN 0 ELSE size
      /\ contentLen' = contentLen + retrieveLen'
  BY DEF ChunkLine
<1>4. isMore' = (size # 0)
  BY DEF ChunkLine
<1>5. excuses' = excuses \cup (IF size = 0 /\ Len(pending) < crlf + 4 THEN {"unread_crlf"} ELSE {})
  BY DEF ChunkLine
<1>6. \/ size = -1 /\ Fail("ERROR_PRTCL")
      \/ size = 0 /\ Give("OK", "ready", responseBuf)
      \/ size > 0 /\ Go("retrieve")
  BY DEF ChunkLine
<1>7. /\ response \in Responses /\ response # None /\ wire \in Seq(Byte) /\ pending \in Seq(Byte)
      /\ responseBuf \in Seq(Byte) /\ delivered \in Seq(Byte) /\ contentLen \in Int
      /\ Len(pending) \in Nat /\ Len(responseBuf) \in Nat /\ Len(delivered) \in Nat /\ Room \in Int
      /\ Len(wire) \in Nat /\ Len(Body(response)) \in Nat
      /\ InBody(response, responseBuf, Len(delivered))
  BY <1>1, InContent
<1>8. Len(pending) <= Room + 3
  BY <1>1 DEF IInv, RoomInv
<1>9. Line(pending, D) \/ Late(pending, D)
  BY <1>1 DEF IInv, ContentInv, Contents
<1>10. crlf \in 0..Len(pending)-3
  <2>1. Len(pending) - 2 \in Int
    BY <1>7
  <2>2. crlf \in 0..Len(pending)-2-1
    BY <1>1, <1>7, <2>1, CrlfFound
  <2> QED BY <1>7, <2>2
<1>11. Drop(pending, crlf + 2) \in Seq(Byte) /\ Len(Drop(pending, crlf + 2)) = Len(pending) - (crlf + 2)
  <2>1. crlf + 2 \in 0..Len(pending)
    BY <1>7, <1>10
  <2> QED BY ZenonT(30), <1>7, <2>1, TakeDrop
<1>12. D = Len(delivered) + Len(responseBuf)
  OBVIOUS
<1>13. crlf = FindCrlf(pending, Len(pending) - 2) /\ size = ChunkSize(Take(pending, crlf))
  OBVIOUS
<1>14. excuses \subseteq excuses'
  BY <1>5
<1> HIDE DEF D, crlf, size
<1>17. Len(pending) \in Nat /\ Len(wire) \in Nat /\ Room \in Int
  BY <1>7
<1>15. ASSUME Line(pending, D) PROVE IInv'
  <2>1. response.kind = "chunked" /\ isChunked /\ retrieveLen = 0
    BY <1>15 DEF Line
  <2>2. PICK k :
          /\ k \in 0..Len(response.parts)
          /\ D = BodyAt(response, k) /\ Continues(response, excuses, pending, wire, ChunkAt(response, k))
    BY <1>15 DEF Line
  <2> DEFINE n == Len(response.parts)
             c == ChunkAt(response, k)
             pad == response.pad
  <2>3. n = Len(response.parts) /\ c = ChunkAt(response, k) /\ pad = response.pad /\ k \in 0..n
    BY <2>2
  <2> HIDE DEF n, c, pad
  <2>4. /\ n \in Nat /\ c \in Nat /\ pad \in Nat /\ BodyAt(response, k) \in Nat
        /\ \E s \in Nat :
             /\ s = 0 <=> k = n
             /\ SizeAt(response, c, s)
             /\ k < n => /\ BodyAt(response, k+1) = BodyAt(response, k) + s
                         /\ ChunkAt(response, k+1) = c + pad + s + 5
        /\ k = n => /\ Len(Body(response)) = BodyAt(response, k)
                    /\ Len(Wire(response)) = c + pad + 5
                    /\ Wire(response)[Len(Wire(response))] = LF
    <3>1. response \in Responses /\ response.kind = "chunked"
      BY <1>7, <2>1
    <3> QED BY SMTT(30), <2>3, <3>1, LineAt
  <2>5. PICK s \in Nat :
          /\ s = 0 <=> k = n
          /\ SizeAt(response, c, s)
          /\ k < n => /\ BodyAt(response, k+1) = BodyAt(response, k) + s
                      /\ ChunkAt(response, k+1) = c + pad + s + 5
    BY <2>4
  <2>6. Shows(response, pending, c) /\ Reads(response, excuses, wire, c + Len(pending))
    BY <2>2, <2>3 DEF Continues
  <2>13. n \in Nat /\ c \in Nat /\ s \in Nat /\ pad \in Nat
    BY <2>4
  <2>7. crlf = pad + 1 /\ Len(pending) >= crlf + 3 /\ size = s
    BY SMTT(30), <1>1, <1>7, <1>13, <2>3, <2>5, <2>6, <2>13, SizeLineRead
  <2>8. retrieveLen' = s /\ pending' = Drop(pending, crlf + 2) /\ retrieveLen' \in Nat
    <3>1. size # -1 /\ size = s
      BY <2>7, <2>13
    <3> QED BY <1>3, <2>13, <3>1
  <2>9. contentLen' \in Int
    BY <1>3, <1>7, <2>8
  <2>10. ASSUME s > 0, Go("retrieve") PROVE IInv'
    <3>1. pc' = "retrieve" /\ UNCHANGED <<delivered, result>>
      BY <2>10 DEF Go
    <3>2. pc' \in Contents /\ pc' \in Pcs
      BY <3>1 DEF Contents, Pcs
    <3>3. isMore' = TRUE
      <4>1. size # 0
        BY <2>7, <2>10, <2>13
      <4> QED BY <1>4, <4>1
    <3>4. TypeInv'
      BY <1>2, <1>11, <2>8, <2>9, <3>1, <3>2, <3>3 DEF IInv, TypeInv
    <3>5. RoomInv'
      <4>1. Room' = Room
        BY <1>2 DEF Room, Count
      <4>2. Len(pending') = Len(pending) - (crlf + 2)
        BY <1>11, <2>8
      <4>3. crlf \in Nat /\ crlf >= 1
        BY <2>7, <2>13
      <4>4. Len(pending') <= Room
        BY <1>8, <1>17, <4>2, <4>3
      <4> QED BY <3>1, <4>1, <4>4 DEF RoomInv
    <3>6. \A d : d = Len(delivered) + Len(responseBuf') => Inside(pending, d)'
      <4> SUFFICES ASSUME NEW d, d = Len(delivered) + Len(responseBuf') PROVE Inside(pending, d)'
        OBVIOUS
      <4>1. d = D
        BY <1>2, <1>12
      <4>2. k + 1 \in 1..n /\ (k + 1) - 1 = k /\ k < n
        <5>1. k \in 0..n /\ k # n /\ n \in Nat
          BY <2>3, <2>5, <2>10, <2>13
        <5> QED BY <5>1
      <4>3. BodyAt(response, k + 1) = BodyAt(response, k) + s /\ BodyAt(response, k) \in Nat
        BY <2>4, <2>5, <4>2
      <4>4. ChunkAt(response, k + 1) = c + pad + s + 5
        BY <2>5, <4>2
      <4>5. Continues(response, excuses, Drop(pending, crlf + 2), wire, c + (crlf + 2))
        <5>1. crlf + 2 \in 0..Len(pending)
          <6>1. crlf \in Nat /\ Len(pending) >= crlf + 3
            BY <2>7, <2>13
          <6> QED BY <1>17, <6>1
        <5>2. c \in Int /\ Continues(response, excuses, pending, wire, c)
          BY <2>2, <2>3, <2>13
        <5> QED BY <1>7, <5>1, <5>2, ContinuesDrop
      <4>6. c + (crlf + 2) = ChunkAt(response, k + 1) - 2 - s
        <5>1. crlf = pad + 1
          BY <2>7
        <5> DEFINE q == ChunkAt(response, k + 1)
        <5>3. q = c + pad + s + 5
          BY <4>4
        <5> HIDE DEF q
        <5>4. c + (crlf + 2) = q - 2 - s
          BY <2>13, <5>1, <5>3
        <5> QED BY <5>4 DEF q
      <4>7. Continues(response, excuses, pending', wire', ChunkAt(response, k + 1) - 2 - retrieveLen')
        BY <1>2, <2>8, <4>5, <4>6
      <4>8. Continues(response, excuses', pending', wire', ChunkAt(response, k + 1) - 2 - retrieveLen')
        BY <1>14, <4>7, ContinuesExcused
      <4>9. BodyAt(response, (k + 1) - 1) <= d /\ d + retrieveLen' = BodyAt(response, k + 1)
        BY <2>2, <2>8, <4>1, <4>2, <4>3
      <4>10. retrieveLen' > 0
        BY <2>8, <2>10
      <4>11. k + 1 \in 1..Len(response.parts)
        BY <2>3, <4>2
      <4>12. response'.kind = "chunked" /\ isChunked'
        BY <1>2, <2>1
      <4>13. \E j \in 1..Len(response.parts) :
               /\ BodyAt(response, j-1) <= d /\ d + retrieveLen' = BodyAt(response, j)
               /\ Continues(response, excuses', pending', wire', ChunkAt(response, j) - 2 - retrieveLen')
        <5> DEFINE j == k + 1
        <5>1. j \in 1..Len(response.parts)
          BY <4>11
        <5>2. BodyAt(response, j-1) <= d /\ d + retrieveLen' = BodyAt(response, j)
          BY <4>9
        <5>3. Continues(response, excuses', pending', wire', ChunkAt(response, j) - 2 - retrieveLen')
          BY <4>8
        <5> HIDE DEF j
        <5> QED BY <5>1, <5>2, <5>3
      <4> HIDE DEF n, c, pad
      <4> QED BY <1>2, <4>10, <4>12, <4>13 DEF Inside
    <3> QED BY <1>1, <1>2, <1>7, <1>14, <3>1, <3>2, <3>3, <3>4, <3>5, <3>6, GoesOn
  <2>11. ASSUME s = 0, Give("OK", "ready", responseBuf) PROVE IInv'
    <3>1. pc' \in Pcs /\ delivered' = delivered \o responseBuf
      BY <2>11 DEF Give, Return, Pcs
    <3>2. /\ delivered' \in Seq(Byte) /\ Len(delivered') = D /\ InBody(response, delivered', 0)
      BY <1>1, <1>12, <3>1, GivenSoFar
    <3>3. isMore' = FALSE
      <4>1. size = 0
        BY <2>7, <2>11
      <4> QED BY <1>4, <4>1
    <3>4. TypeInv'
      <4>1. /\ delivered' \in Seq(Byte) /\ pending' \in Seq(Byte) /\ retrieveLen' \in Int
            /\ isMore' \in BOOLEAN
        <5>1. pending' \in Seq(Byte)
          BY <1>11, <2>8
        <5>2. retrieveLen' \in Int
          BY <2>8
        <5> QED BY <3>2, <3>3, <5>1, <5>2
      <4> QED BY <1>2, <2>9, <3>1, <4>1 DEF IInv, TypeInv
    <3>5. k = n
      BY <2>5, <2>11
    <3>6. delivered' = Body(response)
      <4>1. Len(Body(response)) = BodyAt(response, k)
        BY <2>4, <3>5
      <4>2. Len(delivered') = Len(Body(response))
        BY <2>2, <3>2, <4>1
      <4> QED BY <1>7, <3>2, <4>2, InBodyWhole
    <3>7. wire' = <<>> \/ Stale'
      <4>1. /\ Len(Wire(response)) = c + pad + 5 /\ Wire(response)[Len(Wire(response))] = LF
        BY <2>4, <3>5
      <4>2. /\ c + Len(pending) + Len(wire) <= Len(Wire(response))
            /\ Shows(response, wire, c + Len(pending))
        BY <2>6 DEF Reads
      <4>3. /\ Len(wire) = 0 \/ Len(wire) = 1
            /\ Len(wire) = 1 => Len(pending) = pad + 4 /\ c + Len(pending) + 1 = c + pad + 5
        <5>1. Len(pending) >= pad + 4
          <6>1. Len(pending) >= pad + 1 + 3
            BY <2>7
          <6> QED BY <2>13, <6>1
        <5>2. c + Len(pending) + Len(wire) <= c + pad + 5
          BY <4>1, <4>2
        <5>3. /\ c \in Nat /\ pad \in Nat /\ Len(pending) \in Nat /\ Len(wire) \in Nat
              /\ Len(pending) >= pad + 4 /\ c + Len(pending) + Len(wire) <= c + pad + 5
          BY <1>17, <2>13, <5>1, <5>2
        <5> DEFINE l == Len(pending)
                   m == Len(wire)
        <5>4. l \in Nat /\ m \in Nat /\ l >= pad + 4 /\ c + l + m <= c + pad + 5 /\ c \in Nat /\ pad \in Nat
          BY <5>3
        <5> HIDE DEF l, m
        <5>5. (m = 0 \/ m = 1) /\ (m = 1 => l = pad + 4 /\ c + l + 1 = c + pad + 5)
          BY <5>4, LastByte
        <5> QED BY <5>5 DEF l, m
      <4>4. CASE Len(wire) = 0
        <5>1. wire = <<>>
          BY <1>7, <4>4, EmptySeq
        <5> QED BY <1>2, <5>1
      <4>5. CASE Len(wire) = 1
        <5>1. c + Len(pending) + 1 = Len(Wire(response)) /\ 1 \in 1..Len(wire)
          BY <4>1, <4>3, <4>5
        <5>2. wire[1] = Wire(response)[c + Len(pending) + 1]
          BY <4>2, <5>1 DEF Shows
        <5>3. wire[1] = LF
          BY <4>1, <5>1, <5>2
        <5>4. size = 0 /\ Len(pending) < crlf + 4
          <6>1. size = 0 /\ crlf = pad + 1 /\ Len(pending) = pad + 4
            BY <2>7, <2>11, <4>3, <4>5
          <6> QED BY <2>13, <6>1
        <5>5. "unread_crlf" \in excuses'
          BY <1>5, <5>4
        <5>6. wire # <<>>
          BY <4>5
        <5> QED BY <1>2, <5>3, <5>5, <5>6 DEF Stale
      <4> QED BY <4>3, <4>4, <4>5
    <3> QED BY <1>1, <1>2, <1>14, <2>11, <3>2, <3>3, <3>4, <3>6, <3>7, AllGiven
  <2>12. size = s /\ size \in Nat
    BY <2>7, <2>13
  <2> QED BY <1>6, <2>10, <2>11, <2>12
<1>16. ASSUME Late(pending, D) PROVE IInv'
  <2>1. End(pending, D) /\ "full_at_end_of_chunk" \in excuses
    BY <1>16 DEF Late
  <2>2. response.kind = "chunked"
    BY <2>1 DEF End
  <2>3. PICK k \in 1..Len(response.parts) :
          Continues(response, excuses, pending, wire, ChunkAt(response, k) - 2)
    BY <2>1 DEF End
  <2>4. ChunkAt(response, k) \in Nat
    <3>1. k \in 0..Len(response.parts)
      BY <1>7, ChunksType
    <3> QED BY <1>7, <2>2, <3>1, Positions
  <2>5. Wire(response)[ChunkAt(response, k) - 1] = CR /\ Wire(response)[ChunkAt(response, k)] = LF
    BY <1>7, <2>2, WireChunked
  <2>6. pending[1] = CR /\ pending[2] = LF
    <3>1. 1 \in 1..Len(pending) /\ 2 \in 1..Len(pending)
      BY <1>7, <1>10
    <3>2. \A i \in 1..Len(pending) : pending[i] = Wire(response)[ChunkAt(response, k) - 2 + i]
      BY <2>3 DEF Continues, Shows
    <3>3. /\ ChunkAt(response, k) - 2 + 1 = ChunkAt(response, k) - 1
          /\ ChunkAt(response, k) - 2 + 2 = ChunkAt(response, k)
      BY <2>4
    <3> QED BY <2>5, <3>1, <3>2, <3>3
  <2>7. size = -1
    BY <1>1, <1>7, <1>13, <2>6, CrlfRead
  <2>8. Fail("ERROR_PRTCL") /\ pending' = pending /\ retrieveLen' = 0
    BY <1>3, <1>6, <2>7
  <2>9. isMore' = TRUE
    <3>1. size # 0
      BY <2>7
    <3> QED BY <1>4, <3>1
  <2>10. contentLen' \in Int /\ retrieveLen' \in Int
    BY <1>3, <1>7, <2>8
  <2>11. pc' \in Pcs /\ delivered' = delivered
    BY <2>8 DEF Fail, Return, Pcs
  <2>12. TypeInv'
    BY <1>2, <2>8, <2>9, <2>10, <2>11 DEF IInv, TypeInv
  <2>13. excuses' # {}
    BY <1>14, <2>1
  <2> QED BY <1>2, <1>14, <2>8, <2>12, <2>13, FailKeeps
<1> QED BY <1>9, <1>15, <1>16

\* No chunk line yet.
LEMMA ChunkLineMoreInv == IInv /\ ChunkLineMore => IInv'
<1> SUFFICES ASSUME IInv, ChunkLineMore PROVE IInv'
  OBVIOUS
<1> DEFINE D == Len(delivered) + Len(responseBuf)
<1>1. pc = "chunk_line" /\ pc \in Contents
  BY DEF ChunkLineMore, Contents
<1>2. /\ UNCHANGED <<isMore, isChunked, retrieveLen, contentLen, responseBuf, headerBuf, bufLen, hasPost,
                     header, response, excuses>>
      /\ UNCHANGED given
  BY DEF ChunkLineMore, data, given, history
<1>3. /\ response \in Responses /\ response # None /\ wire \in Seq(Byte) /\ pending \in Seq(Byte)
      /\ responseBuf \in Seq(Byte) /\ delivered \in Seq(Byte) /\ isMore = TRUE
      /\ Len(pending) \in Nat /\ Len(responseBuf) \in Nat /\ Len(delivered) \in Nat /\ Room \in Int
      /\ bufLen \in Nat /\ Room = bufLen - 1 - Len(responseBuf)
      /\ InBody(response, responseBuf, Len(delivered))
  BY <1>1, InContent
<1>4. Len(pending) <= Room + 3 /\ (pending # <<>> => Room >= 3)
  BY <1>1 DEF IInv, RoomInv
<1>5. Line(pending, D) \/ Late(pending, D)
  BY <1>1 DEF IInv, ContentInv, Contents
<1>6. LineRoom = Room + 3
  BY <1>3 DEF LineRoom, Count
<1>7. D = Len(delivered) + Len(responseBuf)
  OBVIOUS
<1> HIDE DEF D
<1>8. ASSUME LineRoom < ChunkSizeStrLen, IF pending = <<>> THEN Give("MORE", "asked", responseBuf) ELSE Fail("ERROR"),
             UNCHANGED <<pending, net>>
      PROVE  IInv'
  <2>1. pending = <<>>
    BY <1>3, <1>4, <1>6, <1>8 DEF ChunkSizeStrLen
  <2>2. Give("MORE", "asked", responseBuf)
    BY <1>8, <2>1
  <2>3. UNCHANGED <<wire, peerClosed, pending>>
    BY <1>8 DEF net
  <2>4. pc' \in Pcs /\ delivered' = delivered \o responseBuf
    BY <2>2 DEF Give, Return, Pcs
  <2>5. /\ delivered' \in Seq(Byte) /\ Len(delivered') = D /\ InBody(response, delivered', 0)
    BY <1>1, <1>7, <2>4, GivenSoFar
  <2>6. TypeInv'
    BY <1>2, <2>3, <2>4, <2>5 DEF IInv, TypeInv
  <2>7. \A d : d = Len(delivered') => Line(<<>>, d)' \/ Late(<<>>, d)'
    <3> SUFFICES ASSUME NEW d, d = Len(delivered') PROVE Line(<<>>, d)' \/ Late(<<>>, d)'
      OBVIOUS
    <3>1. d = D
      BY <2>5
    <3>2. Line(<<>>, d) \/ Late(<<>>, d)
      BY <1>5, <2>1, <3>1
    <3> QED BY <1>2, <2>3, <3>2, SameContent
  <2>8. isMore' = TRUE /\ excuses \subseteq excuses'
    BY <1>2, <1>3
  <2> QED BY <1>1, <1>2, <2>2, <2>3, <2>5, <2>6, <2>7, <2>8, MoreGiven
<1>9. ASSUME LineRoom >= ChunkSizeStrLen, NEW r \in httpclient_recv(1, LineRoom - Len(pending)),
             Received(r[1]), pending' = pending \o Take(wire, r[1]),
             IF GivesUp(r[1], r[2]) THEN Fail(r[2]) ELSE Go(pc)
      PROVE  IInv'
  <2>1. /\ r[1] \in 0..Len(wire) /\ r[1] <= LineRoom - Len(pending)
        /\ r[2] \in {"OK", "ERROR_CONN", "CLOSED"}
    <3>1. LineRoom - Len(pending) \in Int
      BY <1>3, <1>6
    <3> QED BY <1>3, <3>1, RecvResult
  <2>2. /\ Take(wire, r[1]) \in Seq(Byte) /\ Len(Take(wire, r[1])) = r[1]
        /\ wire' \in Seq(Byte) /\ wire' = Drop(wire, r[1]) /\ peerClosed' = peerClosed
    BY <1>3, <1>9, <2>1, ReceivedBytes
  <2>3. pending' \in Seq(Byte) /\ Len(pending') = Len(pending) + r[1]
    <3>1. Take(wire, r[1]) \in Seq(Byte) /\ pending \in Seq(Byte)
      BY <1>3, <2>2
    <3>2. /\ pending \o Take(wire, r[1]) \in Seq(Byte)
          /\ Len(pending \o Take(wire, r[1])) = Len(pending) + Len(Take(wire, r[1]))
      BY <3>1, ConcatProperties
    <3> QED BY <1>9, <2>2, <3>2
  <2>4. CASE Fail(r[2])
    <3>1. pc' \in Pcs /\ delivered' = delivered
      BY <2>4 DEF Fail, Return, Pcs
    <3>2. TypeInv'
      BY <1>2, <2>2, <2>3, <3>1 DEF IInv, TypeInv
    <3>3. r[2] \notin {"ERROR_PRTCL", "ERROR"} /\ excuses \subseteq excuses'
      BY <1>2, <2>1
    <3> QED BY <1>2, <2>2, <2>4, <3>2, <3>3, FailKeeps
  <2>5. CASE Go(pc)
    <3>1. pc' = "chunk_line" /\ UNCHANGED <<delivered, result>>
      BY <1>1, <2>5 DEF Go
    <3>2. pc' \in Contents /\ pc' \in Pcs
      BY <3>1 DEF Contents, Pcs
    <3>3. TypeInv'
      BY <1>2, <2>2, <2>3, <3>1, <3>2 DEF IInv, TypeInv
    <3>4. RoomInv'
      <4>1. Room' = Room
        BY <1>2 DEF Room, Count
      <4>2. Room >= 3
        BY <1>3, <1>6, <1>9 DEF ChunkSizeStrLen
      <4>3. r[1] \in Nat
        BY <2>1
      <4>4. Len(pending) + r[1] <= Room + 3
        <5>1. r[1] <= (Room + 3) - Len(pending)
          BY <1>6, <2>1
        <5>2. Room \in Int /\ Len(pending) \in Nat
          BY <1>3
        <5> QED BY <4>3, <5>1, <5>2
      <4>5. Len(pending') <= Room + 3 /\ Room >= 0
        BY <1>3, <2>3, <4>2, <4>4
      <4> QED BY <3>1, <4>1, <4>2, <4>5 DEF RoomInv
    <3>5. \A d : d = Len(delivered) + Len(responseBuf') => Line(pending, d)' \/ Late(pending, d)'
      <4> SUFFICES ASSUME NEW d, d = Len(delivered) + Len(responseBuf')
                   PROVE Line(pending, d)' \/ Late(pending, d)'
        OBVIOUS
      <4>1. d = D
        BY <1>2, <1>7
      <4>2. ASSUME NEW p \in Int, Continues(response, excuses, pending, wire, p)
            PROVE  Continues(response, excuses', pending', wire', p)
        <5>1. Continues(response, excuses, pending \o Take(wire, r[1]), Drop(wire, r[1]), p)
          BY <1>3, <2>1, <4>2, ContinuesMore
        <5> QED BY <1>2, <1>9, <2>2, <5>1
      <4>3. CASE Line(pending, D)
        <5>1. response.kind = "chunked" /\ isChunked /\ retrieveLen = 0
          BY <4>3 DEF Line
        <5>2. PICK k \in 0..Len(response.parts) :
                D = BodyAt(response, k) /\ Continues(response, excuses, pending, wire, ChunkAt(response, k))
          BY <4>3 DEF Line
        <5>3. ChunkAt(response, k) \in Int
          BY <1>3, <5>1, Positions
        <5>4. Continues(response, excuses', pending', wire', ChunkAt(response, k))
          BY <4>2, <5>2, <5>3
        <5> QED BY <1>2, <4>1, <5>1, <5>2, <5>4 DEF Line
      <4>4. CASE Late(pending, D)
        <5>1. End(pending, D) /\ "full_at_end_of_chunk" \in excuses
          BY <4>4 DEF Late
        <5>2. response.kind = "chunked" /\ isChunked /\ retrieveLen = 0
          BY <5>1 DEF End
        <5>3. PICK k \in 1..Len(response.parts) :
                D = BodyAt(response, k) /\ Continues(response, excuses, pending, wire, ChunkAt(response, k) - 2)
          BY <5>1 DEF End
        <5>4. ChunkAt(response, k) - 2 \in Int
          <6>1. k \in 0..Len(response.parts)
            BY <1>3, ChunksType
          <6>2. ChunkAt(response, k) \in Nat
            BY <1>3, <5>2, <6>1, Positions
          <6> QED BY <6>2
        <5>5. Continues(response, excuses', pending', wire', ChunkAt(response, k) - 2)
          BY <4>2, <5>3, <5>4
        <5>6. End(pending, d)'
          BY <1>2, <4>1, <5>2, <5>3, <5>5 DEF End
        <5> QED BY <1>2, <5>1, <5>6 DEF Late
      <4> QED BY <1>5, <4>3, <4>4
    <3>6. InBody(response, responseBuf', Len(delivered)) /\ isMore' = TRUE /\ excuses \subseteq excuses'
      BY <1>2, <1>3
    <3> QED BY <1>1, <1>2, <1>3, <2>2, <3>1, <3>2, <3>3, <3>4, <3>5, <3>6, GoesOn
  <2> QED BY <1>9, <2>4, <2>5
<1> QED BY <1>8, <1>9 DEF ChunkLineMore

-----------------------------------------------------------------------------
(* Steps that read the header                                              *)

\* More of a body is asked for: the call goes on where the last one ended.
LEMMA ReceiveMoreInv == ASSUME IInv, httpclient_recv_response, isMore PROVE IInv'
<1> DEFINE D == Len(delivered)
<1>1. /\ pc = "recv" /\ responseBuf' = <<>> /\ pending' = <<>>
      /\ Go(ContentStart(isChunked, retrieveLen, contentLen))
      /\ UNCHANGED <<isMore, isChunked, retrieveLen, contentLen, headerBuf, bufLen, hasPost, header,
                     wire, peerClosed, response, excuses>>
      /\ UNCHANGED given
  BY DEF httpclient_recv_response, net, given
<1>2. pc' = ContentStart(isChunked, retrieveLen, contentLen) /\ UNCHANGED <<delivered, result>>
  BY <1>1 DEF Go
<1>3. /\ response # None
      /\ Closing(<<>>, D) \/ Plain(<<>>, D) \/ Inside(<<>>, D) \/ Line(<<>>, D) \/ Late(<<>>, D)
  <2>1. Mid
    BY <1>1 DEF Mid
  <2> QED BY <2>1 DEF IInv, ContentInv
<1>4. /\ pc' \in {"until_close", "retrieve", "chunk_line"}
      /\ pc' = "until_close" => Closing(<<>>, D)
      /\ pc' = "retrieve" => Plain(<<>>, D) \/ Inside(<<>>, D)
      /\ pc' = "chunk_line" => Line(<<>>, D) \/ Late(<<>>, D)
  <2>1. CASE Closing(<<>>, D)
    <3>1. pc' = "until_close"
      BY <1>2, <2>1 DEF Closing, ContentStart
    <3> QED BY <2>1, <3>1
  <2>2. CASE Plain(<<>>, D)
    <3>1. contentLen \in Nat /\ ~isChunked
      BY <2>2 DEF Plain
    <3>2. contentLen # -1
      BY <3>1
    <3>3. pc' = "retrieve"
      BY <1>2, <3>1, <3>2 DEF ContentStart
    <3> QED BY <2>2, <3>3
  <2>3. CASE Inside(<<>>, D)
    <3>1. isChunked /\ retrieveLen > 0
      BY <2>3 DEF Inside
    <3>2. ~(retrieveLen <= 0)
      BY <3>1 DEF IInv, TypeInv
    <3>3. pc' = "retrieve"
      BY <1>2, <3>1, <3>2 DEF ContentStart
    <3> QED BY <2>3, <3>3
  <2>4. CASE Line(<<>>, D) \/ Late(<<>>, D)
    <3>1. isChunked /\ retrieveLen = 0
      BY <2>4 DEF Line, Late, End
    <3>2. pc' = "chunk_line"
      BY <1>2, <3>1 DEF ContentStart
    <3> QED BY <2>4, <3>2
  <2> QED BY <1>3, <2>1, <2>2, <2>3, <2>4
<1>5. pc' \in Contents /\ pc' \in Pcs /\ isMore' = TRUE
  BY <1>1, <1>4 DEF Contents, Pcs, IInv, TypeInv
<1>6. <<>> \in Seq(Byte) /\ Len(<<>>) = 0
  OBVIOUS
<1>7. TypeInv'
  BY <1>1, <1>2, <1>5, <1>6 DEF IInv, TypeInv
<1>8. D \in Nat /\ D <= Len(Body(response))
  <2>1. delivered \in Seq(Byte) /\ InBody(response, delivered, 0)
    BY DEF IInv, TypeInv, CommonInv
  <2>2. D \in Nat
    BY <2>1, LenProperties
  <2> QED BY <2>1, <2>2 DEF InBody
<1>9. InBody(response, responseBuf', Len(delivered))
  BY <1>1, <1>8, InBodyEmpty
<1>10. RoomInv'
  <2>1. bufLen \in Nat /\ bufLen >= 4
    BY DEF IInv, GivenInv
  <2>2. bufLen' - 1 - Len(responseBuf') >= 3
    BY <1>1, <1>6, <2>1
  <2>3. Len(pending') = 0 /\ bufLen' - 1 - Len(responseBuf') \in Int
    BY <1>1, <1>6, <2>1
  <2> QED BY <1>1, <2>2, <2>3 DEF RoomInv, Room, Count
<1>11. \A d : d = Len(delivered) + Len(responseBuf') =>
           /\ pc' = "until_close" => Closing(pending, d)'
           /\ pc' = "retrieve" => Plain(pending, d)' \/ Inside(pending, d)'
           /\ pc' = "chunk_line" => Line(pending, d)' \/ Late(pending, d)'
           /\ pc' = "chunk_end" => End(pending, d)'
  <2> SUFFICES ASSUME NEW d, d = Len(delivered) + Len(responseBuf')
               PROVE  /\ pc' = "until_close" => Closing(pending, d)'
                      /\ pc' = "retrieve" => Plain(pending, d)' \/ Inside(pending, d)'
                      /\ pc' = "chunk_line" => Line(pending, d)' \/ Late(pending, d)'
                      /\ pc' = "chunk_end" => End(pending, d)'
    OBVIOUS
  <2>1. d = D
    BY <1>1, <1>6, <1>8
  <2>2. /\ Closing(<<>>, d)' <=> Closing(<<>>, d)
        /\ Plain(<<>>, d)' <=> Plain(<<>>, d)
        /\ Inside(<<>>, d)' <=> Inside(<<>>, d)
        /\ Line(<<>>, d)' <=> Line(<<>>, d)
        /\ Late(<<>>, d)' <=> Late(<<>>, d)
    BY <1>1, SameContent
  <2>3. /\ pc' = "until_close" => Closing(<<>>, d)'
        /\ pc' = "retrieve" => Plain(<<>>, d)' \/ Inside(<<>>, d)'
        /\ pc' = "chunk_line" => Line(<<>>, d)' \/ Late(<<>>, d)'
        /\ pc' # "chunk_end"
    BY <1>4, <2>1, <2>2
  <2> QED BY <1>1, <2>3
<1>12. excuses \subseteq excuses' /\ peerClosed' = peerClosed
  BY <1>1
<1> QED BY <1>1, <1>2, <1>3, <1>5, <1>7, <1>9, <1>10, <1>11, <1>12, GoesOn

\* The call goes on to read the header.
LEMMA HeaderGoesOn ==
  ASSUME IInv, pc \in {"recv", "header"}, TypeInv', HeaderInv', pc' = "header",
         UNCHANGED <<given, response, peerClosed, delivered, result, excuses>>
  PROVE  IInv'
<1>1. result' \notin {"ERROR_PRTCL", "ERROR"}
  <2>1. pc # "close" /\ pc # "idle"
    OBVIOUS
  <2> QED BY <2>1 DEF IInv, CommonInv
<1>2. GivenInv'
  BY DEF IInv, GivenInv, given
<1>3. CommonInv'
  BY <1>1 DEF IInv, CommonInv
<1>4. ClosedInv' /\ FreshInv' /\ ReadyInv' /\ ContentInv' /\ RoomInv'
  BY DEF ClosedInv, FreshInv, Fresh, ReadyInv, ContentInv, Contents, Mid, RoomInv
<1> QED BY <1>2, <1>3, <1>4 DEF IInv

\* What the first bytes of an answer are.
LEMMA StatusRead ==
  ASSUME NEW r \in Responses, NEW u \in Seq(Byte), Shows(r, u, 0), Len(u) >= 3
  PROVE  FindCrlf(u, Len(u)) = 1 /\ u[1][1] = "status"
<1>1. Len(u) \in Nat /\ 1 \in 1..Len(u) /\ 2 \in 1..Len(u) /\ 3 \in 1..Len(u)
  <2>1. Len(u) \in Nat
    BY LenProperties
  <2> QED BY <2>1
<1>2. Wire(r)[1] = <<"status", r.code>> /\ Wire(r)[2] = CR /\ Wire(r)[3] = LF
  <2>1. WireHead(r)
    BY WireIs, WireChunked
  <2> QED BY <2>1 DEF WireHead
<1>3. u[1] = <<"status", r.code>> /\ u[2] = CR /\ u[3] = LF
  BY <1>1, <1>2 DEF Shows
<1>4. u[1] # CR
  BY <1>3 DEF CR
<1>5. CrlfAt(u, 1) /\ ~CrlfAt(u, 0)
  <2>1. 1 + 1 = 2 /\ 1 + 2 = 3 /\ 0 + 1 = 1 /\ 1 + 2 <= Len(u)
    BY <1>1
  <2>2. CrlfAt(u, 1)
    BY <1>3, <2>1 DEF CrlfAt
  <2>3. ~CrlfAt(u, 0)
    BY <1>4, <2>1 DEF CrlfAt
  <2> QED BY <2>2, <2>3
<1> DEFINE c == FindCrlf(u, Len(u))
<1>6. /\ \/ c = -1
         \/ c \in 0..Len(u)-1 /\ CrlfAt(u, c) /\ \A q \in 0..c-1 : ~CrlfAt(u, q)
      /\ c = -1 => \A q \in 0..Len(u)-1 : ~CrlfAt(u, q)
  <2>1. Len(u) \in Int
    BY <1>1
  <2> QED BY <2>1, CrlfFound
<1> HIDE DEF c
<1>7. 1 \in 0..Len(u)-1
  BY <1>1
<1>8. c # -1
  BY <1>5, <1>6, <1>7
<1>9. c \in Nat /\ CrlfAt(u, c) /\ \A q \in 0..c-1 : ~CrlfAt(u, q)
  BY <1>1, <1>6, <1>8
<1>10. c # 0
  BY <1>5, <1>9
<1>11. c = 1
  <2>1. ~(1 \in 0..c-1)
    BY <1>5, <1>9
  <2> QED BY <1>9, <1>10, <2>1
<1> QED BY <1>3, <1>11 DEF c

\* The first bytes of an answer: of this one, or what the last has left.
LEMMA ReceiveFirstInv == ASSUME IInv, httpclient_recv_response, ~isMore PROVE IInv'
<1>1. pc = "recv" /\ Fresh
  BY DEF httpclient_recv_response, Fresh
<1>2. /\ delivered = <<>>
      /\ \/ response = None /\ wire = <<>>
         \/ response # None /\ Reads(response, excuses, wire, 0)
         \/ Stale
  BY <1>1 DEF IInv, FreshInv
<1>3. /\ wire \in Seq(Byte) /\ Len(wire) \in Nat /\ contentLen \in Int
      /\ response \in Responses \cup {None} /\ HeaderBufLen \in Nat /\ HeaderBufLen > 3
  BY LenProperties, ConstantsAssumption DEF IInv, TypeInv, MaxStatusLine
<1>4. PICK r \in httpclient_recv(1, HeaderBufLen - 1) :
        LET bytes == Take(wire, r[1])
            crlf == FindCrlf(bytes, r[1]) IN
        /\ Received(r[1])
        /\ contentLen' = IF r[1] > 0 THEN -1 ELSE contentLen
        /\ \/ r[1] = 0 /\ Fail(r[2])
              /\ UNCHANGED <<responseCode, isChunked, headerBuf, excuses>>
           \/ r[1] > 0 /\ (crlf # 1 \/ bytes[1][1] # "status") /\ Fail("ERROR_PRTCL")
              /\ excuses' = excuses \cup (IF r[1] < MaxStatusLine THEN {"split_status"} ELSE {})
              /\ UNCHANGED <<responseCode, isChunked, headerBuf>>
           \/ r[1] > 0 /\ crlf = 1 /\ bytes[1][1] = "status"
              /\ responseCode' = bytes[1][2] /\ isChunked' = FALSE
              /\ headerBuf' = Drop(bytes, crlf + 2)
              /\ Go("header") /\ UNCHANGED excuses
        /\ UNCHANGED <<socket, redirectTimes, isMore, retrieveLen, responseBuf, pending>>
  BY DEF httpclient_recv_response
<1> DEFINE bytes == Take(wire, r[1])
           crlf == FindCrlf(bytes, r[1])
<1>5. /\ Received(r[1])
      /\ contentLen' = IF r[1] > 0 THEN -1 ELSE contentLen
      /\ UNCHANGED <<isMore, retrieveLen, responseBuf, pending>>
  BY <1>4
<1>6. \/ r[1] = 0 /\ Fail(r[2]) /\ UNCHANGED <<isChunked, headerBuf, excuses>>
      \/ /\ r[1] > 0 /\ (crlf # 1 \/ bytes[1][1] # "status") /\ Fail("ERROR_PRTCL")
         /\ excuses' = excuses \cup (IF r[1] < MaxStatusLine THEN {"split_status"} ELSE {})
         /\ UNCHANGED <<isChunked, headerBuf>>
      \/ /\ r[1] > 0 /\ crlf = 1 /\ bytes[1][1] = "status" /\ isChunked' = FALSE
         /\ headerBuf' = Drop(bytes, crlf + 2) /\ Go("header") /\ UNCHANGED excuses
  BY <1>4
<1>7. UNCHANGED <<given, bufLen, hasPost, header, response>>
  BY DEF httpclient_recv_response, given
<1>8. /\ r[1] \in 0..Len(wire) /\ r[2] \in {"OK", "ERROR_CONN", "CLOSED"}
      /\ r[2] = "OK" => r[1] >= Least(1, HeaderBufLen - 1)
  <2>1. 1 \in Int /\ HeaderBufLen - 1 \in Int
    BY <1>3
  <2> QED BY <1>3, <2>1, RecvResult
<1>9. /\ bytes \in Seq(Byte) /\ Len(bytes) = r[1]
      /\ wire' \in Seq(Byte) /\ wire' = Drop(wire, r[1]) /\ peerClosed' = peerClosed
  BY <1>3, <1>5, <1>8, ReceivedBytes
<1>10. contentLen' \in Int
  <2>1. -1 \in Int
    OBVIOUS
  <2> QED BY <1>3, <1>5, <2>1
<1>11. r[1] \in Nat /\ (r[1] > 0 => 1 \in 1..Len(wire) /\ 1 \in 1..r[1])
  BY <1>3, <1>8
<1>12. \A i \in 1..r[1] : bytes[i] = wire[i]
  BY <1>3, <1>8, TakeDrop
<1>13. crlf = FindCrlf(bytes, Len(bytes))
  BY <1>9
<1>14. crlf = 1 => 3 <= Len(bytes)
  <2> SUFFICES ASSUME crlf = 1 PROVE 3 <= Len(bytes)
    OBVIOUS
  <2> HIDE DEF bytes
  <2>1. r[1] \in Int
    BY <1>11
  <2>2. FindCrlf(bytes, r[1]) = 1
    OBVIOUS
  <2>3. CrlfAt(bytes, FindCrlf(bytes, r[1]))
    BY <1>9, <2>1, <2>2, CrlfFound
  <2> QED BY <2>2, <2>3 DEF CrlfAt
<1> HIDE DEF bytes, crlf
<1>15. ASSUME r[1] = 0, Fail(r[2]), UNCHANGED <<isChunked, headerBuf, excuses>> PROVE IInv'
  <2>1. pc' \in Pcs /\ delivered' = delivered
    BY <1>15 DEF Fail, Return, Pcs
  <2>2. TypeInv'
    BY <1>5, <1>7, <1>9, <1>10, <1>15, <2>1 DEF IInv, TypeInv
  <2>3. r[2] \notin {"ERROR_PRTCL", "ERROR"} /\ excuses \subseteq excuses'
    BY <1>8, <1>15
  <2> QED BY <1>7, <1>9, <1>15, <2>2, <2>3, FailKeeps
<1>16. ASSUME r[1] > 0, crlf # 1 \/ bytes[1][1] # "status", Fail("ERROR_PRTCL"),
              excuses' = excuses \cup (IF r[1] < MaxStatusLine THEN {"split_status"} ELSE {}),
              UNCHANGED <<isChunked, headerBuf>>
       PROVE  IInv'
  <2>1. pc' \in Pcs /\ delivered' = delivered
    BY <1>16 DEF Fail, Return, Pcs
  <2>2. TypeInv'
    BY <1>5, <1>7, <1>9, <1>10, <1>16, <2>1 DEF IInv, TypeInv
  <2>3. excuses' # {} /\ excuses \subseteq excuses'
    <3>1. CASE r[1] < 3
      <4>1. "split_status" \in excuses'
        BY <1>16, <3>1 DEF MaxStatusLine
      <4> QED BY <1>16, <4>1
    <3>2. CASE Stale
      BY <1>16, <3>2 DEF Stale
    <3>3. CASE response # None /\ Reads(response, excuses, wire, 0) /\ r[1] >= 3
      <4>1. Shows(response, bytes, 0)
        <5>1. \A i \in 1..Len(wire) : wire[i] = Wire(response)[0+i]
          BY <3>3 DEF Reads, Shows
        <5>2. \A i \in 1..r[1] : i \in 1..Len(wire)
          BY <1>3, <1>8
        <5> QED BY <1>9, <1>12, <5>1, <5>2 DEF Shows
      <4>2. response \in Responses
        BY <1>3, <3>3
      <4>3. FindCrlf(bytes, Len(bytes)) = 1 /\ bytes[1][1] = "status"
        BY <1>9, <3>3, <4>1, <4>2, StatusRead
      <4> QED BY <1>13, <1>16, <4>3
    <3>4. wire # <<>>
      BY <1>11, <1>16
    <3>5. r[1] < 3 \/ r[1] >= 3
      BY <1>11
    <3> QED BY <1>2, <3>1, <3>2, <3>3, <3>4, <3>5
  <2> QED BY <1>7, <1>9, <1>16, <2>2, <2>3, FailKeeps
<1>17. ASSUME r[1] > 0, crlf = 1, bytes[1][1] = "status", isChunked' = FALSE,
              headerBuf' = Drop(bytes, crlf + 2), Go("header"), UNCHANGED excuses
       PROVE  IInv'
  <2>1. pc' = "header" /\ pc' \in Pcs /\ UNCHANGED <<delivered, result>>
    BY <1>17 DEF Go, Pcs
  <2>2. 3 \in 0..Len(bytes) /\ headerBuf' = Drop(bytes, 3)
    <3>1. 3 <= Len(bytes) /\ Len(bytes) \in Nat
      BY <1>9, <1>11, <1>14, <1>17
    <3>2. crlf + 2 = 3
      BY <1>17
    <3> QED BY <1>17, <3>1, <3>2
  <2>3. headerBuf' \in Seq(Byte)
    BY <1>9, <2>2, TakeDrop
  <2>4. TypeInv'
    BY <1>5, <1>7, <1>9, <1>10, <1>17, <2>1, <2>3 DEF IInv, TypeInv
  <2>5. response # None /\ Reads(response, excuses, wire, 0)
    <3>1. wire # <<>>
      BY <1>11, <1>17
    <3>2. ~Stale
      <4>1. bytes[1] = wire[1]
        BY <1>11, <1>12, <1>17
      <4>2. wire[1] # CR /\ wire[1] # LF
        BY <1>17, <4>1 DEF CR, LF
      <4> QED BY <4>2 DEF Stale
    <3> QED BY <1>2, <3>1, <3>2
  <2>6. Continues(response, excuses, headerBuf', wire', 3)
    <3>1. Continues(response, excuses, <<>>, wire, 0)
      <4>1. 0 \in Int
        OBVIOUS
      <4> QED BY <2>5, <4>1, ContinuesEmpty
    <3>2. Continues(response, excuses, bytes, wire', 0)
      <4>1. <<>> \in Seq(Byte) /\ 0 \in Int /\ 0 + Len(<<>>) = 0
        OBVIOUS
      <4>2. Continues(response, excuses, Take(wire, r[1]), Drop(wire, r[1]), 0 + Len(<<>>))
        BY <1>3, <1>8, <3>1, <4>1, ContinuesNew
      <4> QED BY <1>9, <4>1, <4>2 DEF bytes
    <3>3. 0 \in Int /\ 0 + 3 = 3
      OBVIOUS
    <3>4. Continues(response, excuses, Drop(bytes, 3), wire', 0 + 3)
      BY <1>9, <2>2, <3>2, <3>3, ContinuesDrop
    <3> QED BY <2>2, <3>3, <3>4
  <2>7. contentLen' = -1
    BY <1>5, <1>17
  <2>8. HeaderInv'
    BY <1>2, <1>5, <1>7, <1>17, <2>1, <2>5, <2>6, <2>7 DEF HeaderInv
  <2>9. excuses' = excuses
    BY <1>17
  <2> QED BY <1>1, <1>7, <1>9, <2>1, <2>4, <2>8, <2>9, HeaderGoesOn
<1> QED BY <1>6, <1>15, <1>16, <1>17

\* A header line that is not there yet.
LEMMA HeaderMoreInv == IInv /\ HeaderMore => IInv'
<1> SUFFICES ASSUME IInv, HeaderMore PROVE IInv'
  OBVIOUS
<1>1. pc = "header"
  BY DEF HeaderMore
<1>2. /\ UNCHANGED <<isMore, isChunked, retrieveLen, contentLen, responseBuf, bufLen, hasPost, header,
                     pending, response>>
      /\ UNCHANGED given
  BY DEF HeaderMore, given
<1>3. wire \in Seq(Byte) /\ headerBuf \in Seq(Byte) /\ Len(headerBuf) \in Nat /\ HeaderBufLen \in Nat
  BY LenProperties, ConstantsAssumption DEF IInv, TypeInv
<1>4. ASSUME Fail("ERROR"), excuses' = excuses \cup {"long_header"}, UNCHANGED <<headerBuf, net>>
      PROVE  IInv'
  <2>1. pc' \in Pcs /\ delivered' = delivered
    BY <1>4 DEF Fail, Return, Pcs
  <2>2. UNCHANGED <<wire, peerClosed>>
    BY <1>4 DEF net
  <2>3. TypeInv'
    BY <1>2, <1>4, <2>1, <2>2 DEF IInv, TypeInv
  <2>4. excuses \subseteq excuses' /\ excuses' # {}
    BY <1>4
  <2> QED BY <1>2, <1>4, <2>2, <2>3, <2>4, FailKeeps
<1>5. ASSUME NEW r \in httpclient_recv(1, HeaderBufLen - Len(headerBuf) - 1), Received(r[1]),
             headerBuf' = headerBuf \o Take(wire, r[1]),
             IF GivesUp(r[1], r[2]) THEN Fail(r[2]) ELSE Go("header"),
             UNCHANGED excuses
      PROVE  IInv'
  <2>1. r[1] \in 0..Len(wire) /\ r[2] \in {"OK", "ERROR_CONN", "CLOSED"}
    <3>1. 1 \in Int /\ HeaderBufLen - Len(headerBuf) - 1 \in Int
      BY <1>3
    <3> QED BY <1>3, <3>1, RecvResult
  <2>2. /\ Take(wire, r[1]) \in Seq(Byte)
        /\ wire' \in Seq(Byte) /\ wire' = Drop(wire, r[1]) /\ peerClosed' = peerClosed
    BY <1>3, <1>5, <2>1, ReceivedBytes
  <2>3. headerBuf' \in Seq(Byte)
    BY <1>3, <1>5, <2>2, ConcatProperties
  <2>4. excuses' = excuses /\ excuses \subseteq excuses'
    BY <1>5
  <2>5. CASE Fail(r[2])
    <3>1. pc' \in Pcs /\ delivered' = delivered
      BY <2>5 DEF Fail, Return, Pcs
    <3>2. TypeInv'
      BY <1>2, <2>2, <2>3, <3>1 DEF IInv, TypeInv
    <3>3. r[2] \notin {"ERROR_PRTCL", "ERROR"}
      BY <2>1
    <3> QED BY <1>2, <2>2, <2>4, <2>5, <3>2, <3>3, FailKeeps
  <2>6. CASE Go("header")
    <3>1. pc' = "header" /\ pc' \in Pcs /\ UNCHANGED <<delivered, result>>
      BY <2>6 DEF Go, Pcs
    <3>2. TypeInv'
      BY <1>2, <2>2, <2>3, <3>1 DEF IInv, TypeInv
    <3>3. ASSUME NEW p \in Int, Continues(response, excuses, headerBuf, wire, p)
          PROVE  Continues(response, excuses', headerBuf', wire', p)
      <4>1. Continues(response, excuses, headerBuf \o Take(wire, r[1]), Drop(wire, r[1]), p)
        BY <1>3, <2>1, <3>3, ContinuesMore
      <4> QED BY <1>5, <2>2, <2>4, <4>1
    <3>4. /\ Continues(response, excuses, headerBuf, wire, 3)
               => Continues(response, excuses', headerBuf', wire', 3)
          /\ Continues(response, excuses, headerBuf, wire, 6)
               => Continues(response, excuses', headerBuf', wire', 6)
      <4>1. 3 \in Int /\ 6 \in Int
        OBVIOUS
      <4> QED BY <3>3, <4>1
    <3>5. HeaderInv'
      BY <1>1, <1>2, <3>1, <3>4 DEF IInv, HeaderInv
    <3> QED BY <1>1, <1>2, <2>2, <2>4, <3>1, <3>2, <3>5, HeaderGoesOn
  <2> QED BY <1>5, <2>5, <2>6
<1> QED BY <1>4, <1>5 DEF HeaderMore

\* Where the first line ends in a header of which bytes are there: at the line
\* of the header, or, behind that, at its end.
LEMMA HeaderAt ==
  ASSUME NEW r \in Responses, NEW e, NEW u \in Seq(Byte), NEW w, NEW c, c = FindCrlf(u, Len(u)), c # -1
  PROVE  /\ Continues(r, e, u, w, 3) => u[1] = HeaderByte(r) /\ c # 0
         /\ Continues(r, e, u, w, 6) => c = 0
         /\ c = 1 => Len(u) >= 3
         /\ c = 0 => Len(u) >= 2
<1>1. Len(u) \in Nat /\ Len(u) \in Int
  BY LenProperties
<1>2. c \in 0..Len(u)-1 /\ CrlfAt(u, c) /\ \A q \in 0..c-1 : ~CrlfAt(u, q)
  BY <1>1, CrlfFound
<1>3. c \in Nat /\ c + 2 <= Len(u) /\ u[c+1] = CR
  BY <1>1, <1>2 DEF CrlfAt
<1>4. 1 \in 1..Len(u) /\ 2 \in 1..Len(u) /\ Len(u) >= 2
  BY <1>1, <1>3
<1>5. /\ Wire(r)[4] = HeaderByte(r) /\ Wire(r)[7] = CR /\ Wire(r)[8] = LF
  <2>1. WireHead(r)
    BY WireIs, WireChunked
  <2> QED BY <2>1 DEF WireHead
<1>6. ASSUME Continues(r, e, u, w, 3) PROVE u[1] = HeaderByte(r) /\ c # 0
  <2>1. u[1] = HeaderByte(r)
    BY <1>4, <1>5, <1>6 DEF Continues, Shows
  <2>2. HeaderByte(r) # CR
    <3>1. r.kind \in Kinds
      BY ChunksType
    <3> QED BY <3>1 DEF HeaderByte, CR, Kinds
  <2>3. c = 0 => u[1] = CR
    BY <1>3
  <2> QED BY <2>1, <2>2, <2>3
<1>7. ASSUME Continues(r, e, u, w, 6) PROVE c = 0
  <2>1. u[1] = CR /\ u[2] = LF
    BY <1>4, <1>5, <1>7 DEF Continues, Shows
  <2>2. CrlfAt(u, 0)
    <3>1. 0 + 1 = 1 /\ 0 + 2 = 2 /\ 0 + 2 <= Len(u)
      BY <1>4
    <3> QED BY <2>1, <3>1 DEF CrlfAt
  <2>3. ~(0 \in 0..c-1)
    BY <1>2, <2>2
  <2> QED BY <1>3, <2>3
<1>8. c = 1 => Len(u) >= 3
  BY <1>1, <1>3
<1> QED BY <1>4, <1>6, <1>7, <1>8

\* What each line of a header is.
LEMMA HeaderByteIs ==
  ASSUME NEW r \in Responses
  PROVE  /\ r.kind \in {"length", "unspaced", "chunked", "close", "redirect"}
         /\ r.kind = "length" => HeaderByte(r) = <<"length", Len(Body(r))>>
         /\ r.kind = "unspaced" => HeaderByte(r) = <<"unspaced", Len(Body(r))>>
         /\ r.kind = "close" => HeaderByte(r) = <<"other", 0>>
         /\ r.kind = "redirect" => HeaderByte(r) = <<"location", 0>>
         /\ r.kind = "chunked" => HeaderByte(r) = <<"chunked", 0>>
<1>1. r.kind \in Kinds
  BY ChunksType
<1> QED BY <1>1 DEF HeaderByte, Kinds

\* A header line that is there.
LEMMA HeaderLineInv == IInv /\ HeaderLine => IInv'
<1> SUFFICES ASSUME IInv, HeaderLine PROVE IInv'
  OBVIOUS
<1> DEFINE line == headerBuf[1]
           L == Len(Body(response))
<1>1. /\ pc = "header" /\ FindCrlf(headerBuf, Len(headerBuf)) = 1 /\ line[1] # "location"
      /\ headerBuf' = Drop(headerBuf, 3) /\ Go("header")
  BY DEF HeaderLine
<1>2. /\ contentLen' = CASE line[1] = "length" -> line[2] [] line[1] = "chunked" -> 0 [] OTHER -> contentLen
      /\ retrieveLen' = CASE line[1] = "length" -> line[2] [] line[1] = "chunked" -> 0 [] OTHER -> retrieveLen
      /\ isChunked' = (isChunked \/ line[1] = "chunked")
  BY DEF HeaderLine
<1>3. /\ UNCHANGED <<isMore, responseBuf, bufLen, hasPost, header, pending, wire, peerClosed, response, excuses>>
      /\ UNCHANGED given
  BY DEF HeaderLine, given, net, history
<1>4. /\ headerBuf \in Seq(Byte) /\ response # None /\ response \in Responses
      /\ delivered = <<>> /\ ~isMore
  BY <1>1 DEF IInv, TypeInv, HeaderInv
<1>5. 1 # -1 /\ 1 # 0
  OBVIOUS
<1>6. /\ Continues(response, excuses, headerBuf, wire, 3) => headerBuf[1] = HeaderByte(response)
      /\ ~Continues(response, excuses, headerBuf, wire, 6) /\ Len(headerBuf) >= 3
  BY <1>1, <1>4, <1>5, HeaderAt
<1>7. /\ Continues(response, excuses, headerBuf, wire, 3) /\ ~isChunked /\ contentLen = -1
  BY <1>1, <1>6 DEF IInv, HeaderInv
<1>8. line = HeaderByte(response)
  BY <1>6, <1>7
<1> HIDE DEF line
<1>9. 3 \in 0..Len(headerBuf)
  BY <1>4, <1>6, LenProperties
<1>10. headerBuf' \in Seq(Byte)
  BY <1>1, <1>4, <1>9, TakeDrop
<1>11. Continues(response, excuses', headerBuf', wire', 6)
  <2>1. 3 \in Int /\ 3 + 3 = 6
    OBVIOUS
  <2>2. Continues(response, excuses, Drop(headerBuf, 3), wire, 3 + 3)
    BY <1>4, <1>7, <1>9, <2>1, ContinuesDrop
  <2> QED BY <1>1, <1>3, <2>1, <2>2
<1>12. L \in Int
  <2>1. Body(response) \in Seq(Byte)
    BY <1>4, BodyOfNone
  <2> QED BY <2>1, LenProperties
<1> HIDE DEF L
<1>13. \/ /\ response.kind = "length" /\ ~isChunked' /\ retrieveLen' = L /\ contentLen' = retrieveLen'
       \/ /\ response.kind \in {"close", "unspaced"} /\ ~isChunked' /\ contentLen' = -1
          /\ retrieveLen' = retrieveLen
       \/ /\ response.kind = "chunked" /\ isChunked' /\ retrieveLen' = 0 /\ contentLen' = 0
  <2>1. response.kind \in {"length", "unspaced", "chunked", "close", "redirect"}
    BY <1>4, HeaderByteIs
  <2>2. CASE response.kind = "length"
    <3>1. line = <<"length", L>>
      BY <1>4, <1>8, <2>2, HeaderByteIs DEF L
    <3> QED BY <1>2, <1>7, <2>2, <3>1
  <2>3. CASE response.kind = "close"
    <3>1. line = <<"other", 0>>
      BY <1>4, <1>8, <2>3, HeaderByteIs
    <3> QED BY <1>2, <1>7, <2>3, <3>1
  <2>4. CASE response.kind = "chunked"
    <3>1. line = <<"chunked", 0>>
      BY <1>4, <1>8, <2>4, HeaderByteIs
    <3> QED BY <1>2, <1>7, <2>4, <3>1
  <2>5. CASE response.kind = "redirect"
    <3>1. line = <<"location", 0>>
      BY <1>4, <1>8, <2>5, HeaderByteIs
    <3> QED BY <1>1, <3>1 DEF line
  <2>6. CASE response.kind = "unspaced"
    <3>1. line = <<"unspaced", L>>
      BY <1>4, <1>8, <2>6, HeaderByteIs DEF L
    <3> QED BY <1>2, <1>7, <2>6, <3>1
  <2> QED BY <2>1, <2>2, <2>3, <2>4, <2>5, <2>6
<1>14. pc' = "header" /\ pc' \in Pcs /\ UNCHANGED <<delivered, result>>
  BY <1>1 DEF Go, Pcs
<1>15. retrieveLen' \in Int /\ contentLen' \in Int /\ isChunked' \in BOOLEAN
  <2>1. retrieveLen \in Int /\ -1 \in Int /\ 0 \in Int
    BY DEF IInv, TypeInv
  <2>2. isChunked' \in BOOLEAN
    BY <1>2
  <2> QED BY <1>12, <1>13, <2>1, <2>2
<1>16. TypeInv'
  BY <1>3, <1>10, <1>14, <1>15 DEF IInv, TypeInv
<1>17. HeaderInv'
  BY <1>3, <1>4, <1>11, <1>13, <1>14 DEF HeaderInv, L
<1>18. excuses' = excuses
  BY <1>3
<1> QED BY <1>1, <1>3, <1>14, <1>16, <1>17, <1>18, HeaderGoesOn

\* A header line that the client cannot parse.
LEMMA HeaderBadInv == IInv /\ HeaderBad => IInv'
<1> SUFFICES ASSUME IInv, HeaderBad PROVE IInv'
  OBVIOUS
<1>1. /\ Fail("ERROR") /\ excuses' = excuses \cup {"unspaced"}
      /\ UNCHANGED <<isMore, isChunked, retrieveLen, contentLen, responseBuf, headerBuf,
                     pending, wire, peerClosed, response>>
      /\ UNCHANGED given
  BY DEF HeaderBad, data, net
<1>2. pc' \in Pcs /\ delivered' = delivered
  BY <1>1 DEF Fail, Return, Pcs
<1>3. TypeInv'
  BY <1>1, <1>2 DEF IInv, TypeInv
<1>4. excuses \subseteq excuses' /\ excuses' # {}
  BY <1>1
<1> QED BY <1>1, <1>3, <1>4, FailKeeps

\* The end of the header: what is behind it is of the body.
LEMMA HeaderEndInv == IInv /\ HeaderEnd => IInv'
<1> SUFFICES ASSUME IInv, HeaderEnd PROVE IInv'
  OBVIOUS
<1>1. pc = "header" /\ FindCrlf(headerBuf, Len(headerBuf)) = 0
  BY DEF HeaderEnd
<1>2. /\ UNCHANGED <<isChunked, retrieveLen, contentLen, bufLen, hasPost, header, wire, peerClosed, response>>
      /\ UNCHANGED given
  BY DEF HeaderEnd, given, net
<1>3. /\ headerBuf \in Seq(Byte) /\ Len(headerBuf) \in Nat /\ response # None /\ response \in Responses
      /\ delivered = <<>> /\ ~isMore /\ retrieveLen \in Int /\ contentLen \in Int
      /\ bufLen \in Nat /\ bufLen >= 4
  BY <1>1, LenProperties DEF IInv, TypeInv, HeaderInv, GivenInv
<1>4. 0 # -1 /\ 0 # 1
  OBVIOUS
<1>5. ~Continues(response, excuses, headerBuf, wire, 3) /\ Len(headerBuf) >= 2
  BY <1>1, <1>3, <1>4, HeaderAt
<1>6. /\ Continues(response, excuses, headerBuf, wire, 6)
      /\ \/ /\ response.kind = "length" /\ ~isChunked
            /\ retrieveLen = Len(Body(response)) /\ contentLen = retrieveLen
         \/ /\ response.kind \in {"close", "unspaced"} /\ ~isChunked /\ contentLen = -1
         \/ /\ response.kind = "chunked" /\ isChunked
            /\ retrieveLen = 0 /\ contentLen = 0
  BY <1>1, <1>5 DEF IInv, HeaderInv
<1>7. 2 \in 0..Len(headerBuf)
  BY <1>3, <1>5
<1>8. Drop(headerBuf, 2) \in Seq(Byte) /\ Len(Drop(headerBuf, 2)) = Len(headerBuf) - 2
  BY SMTT(30), <1>3, <1>7, TakeDrop
<1>9. <<>> \in Seq(Byte) /\ Len(<<>>) = 0
  OBVIOUS
<1>10. ASSUME bufLen > (Len(headerBuf) - 2) + 1, responseBuf' = <<>>, pending' = Drop(headerBuf, 2),
              headerBuf' = <<>>, isMore' = TRUE, Go(ContentStart(isChunked, retrieveLen, contentLen)),
              UNCHANGED excuses
       PROVE  IInv'
  <2>1. pc' = ContentStart(isChunked, retrieveLen, contentLen) /\ UNCHANGED <<delivered, result>>
    BY <1>10 DEF Go
  <2>2. Continues(response, excuses, pending', wire, 8)
    <3>1. 6 \in Int /\ 6 + 2 = 8
      OBVIOUS
    <3>2. Continues(response, excuses, Drop(headerBuf, 2), wire, 6 + 2)
      BY <1>3, <1>6, <1>7, <3>1, ContinuesDrop
    <3> QED BY <1>10, <3>1, <3>2
  <2>3. /\ pc' \in {"until_close", "retrieve", "chunk_line"}
        /\ pc' = "until_close" => Closing(pending, 0)'
        /\ pc' = "retrieve" => Plain(pending, 0)'
        /\ pc' = "chunk_line" => Line(pending, 0)'
    <3>1. CASE /\ response.kind = "length" /\ ~isChunked
               /\ retrieveLen = Len(Body(response)) /\ contentLen = retrieveLen
      <4>1. contentLen \in Nat /\ retrieveLen \in Nat /\ 0 + retrieveLen = Len(Body(response)) /\ 8 + 0 = 8
        <5>1. Len(Body(response)) \in Nat
          BY <1>3, BodyOfNone, LenProperties
        <5> QED BY <3>1, <5>1
      <4>2. contentLen # -1
        BY <4>1
      <4>3. pc' = "retrieve"
        BY <2>1, <3>1, <4>2 DEF ContentStart
      <4>4. Continues(response, excuses, pending', wire, 8 + 0)
        BY <2>2, <4>1
      <4>5. Plain(pending, 0)'
        BY <1>2, <1>10, <3>1, <4>1, <4>4 DEF Plain
      <4> QED BY <4>3, <4>5
    <3>2. CASE response.kind \in {"close", "unspaced"} /\ ~isChunked /\ contentLen = -1
      <4>1. pc' = "until_close"
        BY <2>1, <3>2 DEF ContentStart
      <4>2. 8 + 0 = 8
        OBVIOUS
      <4>3. Continues(response, excuses, pending', wire, 8 + 0)
        BY <2>2, <4>2
      <4>4. Closing(pending, 0)'
        BY <1>2, <1>10, <3>2, <4>3 DEF Closing
      <4> QED BY <4>1, <4>4
    <3>3. CASE response.kind = "chunked" /\ isChunked /\ retrieveLen = 0 /\ contentLen = 0
      <4>1. pc' = "chunk_line"
        <5>1. contentLen # -1 /\ retrieveLen <= 0
          BY <3>3
        <5> QED BY <2>1, <3>3, <5>1 DEF ContentStart
      <4>2. 0 \in 0..Len(response.parts) /\ BodyAt(response, 0) = 0 /\ ChunkAt(response, 0) = 8
        <5>1. Len(response.parts) \in Nat
          BY <1>3, ChunksType
        <5> QED BY <1>3, <3>3, <5>1, BodyIs, WireChunked
      <4>3. Continues(response, excuses, pending', wire, ChunkAt(response, 0))
        BY <2>2, <4>2
      <4>4. Line(pending, 0)'
        BY <1>2, <1>10, <3>3, <4>2, <4>3 DEF Line
      <4> QED BY <4>1, <4>4
    <3> QED BY <1>6, <3>1, <3>2, <3>3
  <2>4. pc' \in Contents /\ pc' \in Pcs
    BY <2>3 DEF Contents, Pcs
  <2>5. TypeInv'
    BY <1>2, <1>8, <1>9, <1>10, <2>1, <2>4 DEF IInv, TypeInv
  <2>6. RoomInv'
    <3>1. bufLen' - 1 - Len(responseBuf') = bufLen - 1
      BY <1>2, <1>3, <1>9, <1>10
    <3>2. Len(pending') <= bufLen - 1 /\ bufLen - 1 >= 3
      BY <1>3, <1>8, <1>10
    <3>3. Len(pending') <= (bufLen - 1) + 3 /\ bufLen - 1 >= 0
      BY <1>3, <1>8, <1>10
    <3> QED BY <3>1, <3>2, <3>3 DEF RoomInv, Room, Count
  <2>7. \A d : d = Len(delivered) + Len(responseBuf') =>
           /\ pc' = "until_close" => Closing(pending, d)'
           /\ pc' = "retrieve" => Plain(pending, d)' \/ Inside(pending, d)'
           /\ pc' = "chunk_line" => Line(pending, d)' \/ Late(pending, d)'
           /\ pc' = "chunk_end" => End(pending, d)'
    <3>1. Len(delivered) + Len(responseBuf') = 0
      BY <1>3, <1>9, <1>10
    <3>2. /\ pc' = "until_close" => Closing(pending, 0)'
          /\ pc' = "retrieve" => Plain(pending, 0)' \/ Inside(pending, 0)'
          /\ pc' = "chunk_line" => Line(pending, 0)' \/ Late(pending, 0)'
          /\ pc' = "chunk_end" => End(pending, 0)'
      BY <2>3
    <3> QED BY <3>1, <3>2
  <2>8. InBody(response, responseBuf', Len(delivered))
    <3>1. 0 \in Nat /\ 0 <= Len(Body(response))
      BY <1>3, BodyOfNone, LenProperties
    <3>2. InBody(response, <<>>, 0)
      BY <3>1, InBodyEmpty
    <3> QED BY <1>3, <1>9, <1>10, <3>2
  <2>9. excuses \subseteq excuses' /\ pc \in Contents \cup {"recv", "header"}
    BY <1>1, <1>10
  <2> QED BY <1>1, <1>2, <1>3, <1>10, <2>1, <2>4, <2>5, <2>6, <2>7, <2>8, <2>9, GoesOn
<1>11. ASSUME Fail("ERROR"), excuses' = excuses \cup {"long_header"},
              UNCHANGED <<responseBuf, pending, headerBuf, isMore>>
       PROVE  IInv'
  <2>1. pc' \in Pcs /\ delivered' = delivered
    BY <1>11 DEF Fail, Return, Pcs
  <2>2. TypeInv'
    BY <1>2, <1>11, <2>1 DEF IInv, TypeInv
  <2>3. excuses \subseteq excuses' /\ excuses' # {}
    BY <1>11
  <2> QED BY <1>2, <1>11, <2>2, <2>3, FailKeeps
<1> QED BY <1>10, <1>11 DEF HeaderEnd

\* The location of another server is in the header.
LEMMA RedirectInv == IInv /\ httpclient_redirect => IInv'
<1> SUFFICES ASSUME IInv, httpclient_redirect PROVE IInv'
  OBVIOUS
<1>1. /\ pc = "header"
      /\ UNCHANGED <<isChunked, contentLen, responseBuf, headerBuf, bufLen, hasPost, header, pending>>
      /\ UNCHANGED given
  BY DEF httpclient_redirect, given
<1>2. delivered = <<>> /\ result \notin {"ERROR_PRTCL", "ERROR"}
  <2>1. pc # "close" /\ pc # "idle"
    BY <1>1
  <2> QED BY <1>1, <2>1 DEF IInv, HeaderInv, CommonInv
<1>3. ASSUME socket' = "none", wire' = <<>>, peerClosed' = FALSE, isMore' = FALSE, retrieveLen' = 0,
             pc' = "connect", response' = None, excuses' = {}, UNCHANGED <<result, delivered>>
      PROVE  IInv'
  <2>1. <<>> \in Seq(Byte) /\ 0 \in Int /\ InBody(None, <<>>, 0)
    BY BodyOfNone
  <2>2. TypeInv'
    BY <1>1, <1>3, <2>1 DEF IInv, TypeInv, Pcs
  <2>3. GivenInv'
    BY <1>1 DEF IInv, GivenInv
  <2>4. CommonInv'
    BY <1>2, <1>3, <2>1 DEF CommonInv
  <2>5. ClosedInv' /\ FreshInv' /\ ReadyInv' /\ HeaderInv'
    BY <1>3 DEF ClosedInv, FreshInv, Fresh, ReadyInv, HeaderInv
  <2>6. ContentInv' /\ RoomInv'
    BY <1>3 DEF ContentInv, Contents, Mid, RoomInv
  <2> QED BY <2>2, <2>3, <2>4, <2>5, <2>6 DEF IInv
<1>4. ASSUME Fail("ERROR"), excuses' = excuses \cup {"no_redirect"},
             UNCHANGED <<net, isMore, retrieveLen, response>>
      PROVE  IInv'
  <2>1. pc' \in Pcs /\ delivered' = delivered
    BY <1>4 DEF Fail, Return, Pcs
  <2>2. UNCHANGED <<wire, peerClosed>>
    BY <1>4 DEF net
  <2>3. TypeInv'
    BY <1>1, <1>4, <2>1, <2>2 DEF IInv, TypeInv
  <2>4. excuses \subseteq excuses' /\ excuses' # {}
    BY <1>4
  <2> QED BY <1>1, <1>4, <2>2, <2>3, <2>4, FailKeeps
<1>5. \/ /\ socket' = "none" /\ wire' = <<>> /\ peerClosed' = FALSE /\ isMore' = FALSE /\ retrieveLen' = 0
         /\ pc' = "connect" /\ response' = None /\ excuses' = {} /\ UNCHANGED <<result, delivered>>
      \/ /\ Fail("ERROR") /\ excuses' = excuses \cup {"no_redirect"}
         /\ UNCHANGED <<net, isMore, retrieveLen, response>>
  BY DEF httpclient_redirect
<1> QED BY <1>3, <1>4, <1>5

-----------------------------------------------------------------------------
(* The steps of the server                                                 *)

\* An answer is of bytes, and it is an answer.
LEMMA AnswerIs ==
  ASSUME NEW r \in Responses
  PROVE  Wire(r) \in Seq(Byte) /\ Len(Wire(r)) \in Nat /\ r # None
<1>1. Wire(r) \in Seq(Byte)
  BY WireIs, WireChunked DEF WireHead
<1>2. Len(Wire(r)) \in Nat
  BY <1>1, LenProperties
<1>3. r.code # 0
  BY ConstantsAssumption
<1> QED BY <1>1, <1>2, <1>3 DEF None

\* The server answers: to a client that waits, or has not yet asked to receive.
LEMMA AnswerInv == ASSUME IInv, NEW r \in Responses, Answer(r) PROVE IInv'
<1>1. /\ socket = "open" /\ RequestComplete /\ response = None /\ response' = r
      /\ wire' = wire \o Wire(r) /\ peerClosed' = (r.kind = "close")
      /\ UNCHANGED <<client, data, given, pc, pending, result, stage, got, delivered, excuses>>
  BY DEF Answer
<1>2. UNCHANGED <<socket, isMore, isChunked, retrieveLen, contentLen, responseBuf, headerBuf,
                  bufLen, hasPost, header>>
  BY <1>1 DEF client, data, given
<1>3. Wire(r) \in Seq(Byte) /\ Len(Wire(r)) \in Nat /\ r # None /\ wire \in Seq(Byte)
  BY AnswerIs DEF IInv, TypeInv
<1>4. delivered = <<>> /\ InBody(r, <<>>, 0)
  BY <1>1, BodyOfNone DEF IInv, CommonInv
<1>5. /\ pc # "connect" /\ ~(pc = "idle" /\ stage = "closed") /\ ~(pc = "idle" /\ stage = "ready")
      /\ pc # "header" /\ pc \notin Contents /\ ~Mid
  <2>1. got # <<>>
    BY <1>1 DEF RequestComplete, Sent
  <2> QED BY <1>1, <2>1 DEF IInv, ClosedInv, ReadyInv, HeaderInv, ContentInv
<1>6. TypeInv'
  BY <1>1, <1>2, <1>3 DEF IInv, TypeInv
<1>7. GivenInv' /\ ClosedInv' /\ RoomInv'
  BY <1>1, <1>2, <1>5 DEF IInv, GivenInv, ClosedInv, RoomInv, Room, Count
<1>8. CommonInv'
  BY <1>1, <1>3, <1>4 DEF IInv, CommonInv
<1>9. FreshInv'
  <2> SUFFICES ASSUME Fresh' PROVE FreshInv'
    BY DEF FreshInv
  <2>1. Fresh
    BY <1>1, <1>2 DEF Fresh
  <2>2. ~isMore /\ (wire = <<>> \/ Stale)
    BY <1>1, <2>1 DEF IInv, FreshInv
  <2>3. CASE wire = <<>>
    <3>1. wire' = Wire(r)
      BY <1>1, <1>3, <2>3
    <3> DEFINE W == Wire(r)
    <3>2. \A i \in 1..Len(W) : 0+i = i
      BY <1>3
    <3>3. 0 + Len(W) = Len(W) /\ Len(W) <= Len(W)
      BY <1>3
    <3>4. Reads(r, excuses, W, 0)
      BY <3>2, <3>3 DEF Reads, Shows
    <3> QED BY <1>1, <1>2, <1>3, <1>4, <2>2, <3>1, <3>4 DEF FreshInv
  <2>4. CASE Stale
    <3>1. "unread_crlf" \in excuses /\ wire # <<>> /\ wire[1] \in {CR, LF}
      BY <2>4 DEF Stale
    <3>2. IsConcat(wire', wire, Wire(r))
      BY <1>1, <1>3, ConcatIs
    <3>3. Len(wire) \in Nat /\ Len(wire) >= 1 /\ 1 \in 1..Len(wire)
      BY <1>3, <3>1, LenProperties
    <3>4. wire'[1] = wire[1] /\ Len(wire') >= 1
      BY <1>3, <3>2, <3>3 DEF IsConcat
    <3>5. wire' # <<>>
      BY <3>4
    <3> QED BY <1>1, <1>2, <1>4, <2>2, <3>1, <3>4, <3>5 DEF FreshInv, Stale
  <2> QED BY <2>2, <2>3, <2>4
<1>10. ReadyInv' /\ HeaderInv'
  BY <1>1, <1>5 DEF ReadyInv, HeaderInv
<1>11. ContentInv'
  BY <1>1, <1>2, <1>5 DEF ContentInv, Mid
<1> QED BY <1>6, <1>7, <1>8, <1>9, <1>10, <1>11 DEF IInv

\* What is left of the end of the last answer when the server dies.
LEMMA StaleCut ==
  ASSUME Stale, wire \in Seq(Byte), NEW n \in 0..Len(wire), wire' = Take(wire, n),
         excuses \subseteq excuses'
  PROVE  wire' = <<>> \/ Stale'
<1>1. wire' \in Seq(Byte) /\ Len(wire') = n /\ \A i \in 1..n : wire'[i] = wire[i]
  BY TakeDrop
<1>2. CASE n = 0
  BY <1>1, <1>2
<1>3. CASE n # 0
  <2>1. 1 \in 1..n
    BY <1>3
  <2>2. wire' # <<>>
    BY <1>1, <1>3
  <2> QED BY <1>1, <2>1, <2>2 DEF Stale
<1> QED BY <1>2, <1>3

\* The predicates of the content when the server dies.
LEMMA ContentCut ==
  ASSUME UNCHANGED <<response, isChunked, retrieveLen, contentLen>>, excuses \subseteq excuses',
         response \in Responses, retrieveLen \in Int,
         wire \in Seq(Byte), NEW n \in 0..Len(wire), wire' = Take(wire, n), "died" \in excuses',
         NEW u \in Seq(Byte), NEW D \in Int
  PROVE  /\ Closing(u, D) => Closing(u, D)'
         /\ Plain(u, D) => Plain(u, D)'
         /\ Inside(u, D) => Inside(u, D)'
         /\ Line(u, D) => Line(u, D)'
         /\ End(u, D) => End(u, D)'
         /\ Late(u, D) => Late(u, D)'
<1>1. Len(Wire(response)) \in Int /\ Len(u) \in Int
  BY AnswerIs, LenProperties
<1>2. ASSUME NEW p \in Int, Continues(response, excuses, u, wire, p)
      PROVE  Continues(response, excuses', u, wire', p)
  <2>1. p + Len(u) \in Int
    BY <1>1
  <2> QED BY <1>1, <1>2, <2>1, ContinuesCut
<1>3. 8 + D \in Int
  OBVIOUS
<1>4. Closing(u, D) => Closing(u, D)'
  BY <1>2, <1>3 DEF Closing
<1>5. Plain(u, D) => Plain(u, D)'
  BY <1>2, <1>3 DEF Plain
<1>6. ASSUME response.kind = "chunked", NEW k \in 0..Len(response.parts)
      PROVE  ChunkAt(response, k) \in Int
  BY <1>6, WireChunked
<1>7. Inside(u, D) => Inside(u, D)'
  <2> SUFFICES ASSUME Inside(u, D) PROVE Inside(u, D)'
    OBVIOUS
  <2>1. PICK k \in 1..Len(response.parts) :
          /\ BodyAt(response, k-1) <= D /\ D + retrieveLen = BodyAt(response, k)
          /\ Continues(response, excuses, u, wire, ChunkAt(response, k) - 2 - retrieveLen)
    BY DEF Inside
  <2>2. k \in 0..Len(response.parts)
    BY ChunksType
  <2>3. ChunkAt(response, k) - 2 - retrieveLen \in Int
    BY <1>6, <2>2 DEF Inside
  <2>4. Continues(response, excuses', u, wire', ChunkAt(response, k) - 2 - retrieveLen)
    BY <1>2, <2>1, <2>3
  <2> QED BY <2>1, <2>4 DEF Inside
<1>8. Line(u, D) => Line(u, D)'
  BY <1>2, <1>6 DEF Line
<1>9. End(u, D) => End(u, D)'
  <2> SUFFICES ASSUME End(u, D) PROVE End(u, D)'
    OBVIOUS
  <2>1. PICK k \in 1..Len(response.parts) :
          /\ D = BodyAt(response, k)
          /\ Continues(response, excuses, u, wire, ChunkAt(response, k) - 2)
    BY DEF End
  <2>2. k \in 0..Len(response.parts)
    BY ChunksType
  <2>3. ChunkAt(response, k) - 2 \in Int
    BY <1>6, <2>2 DEF End
  <2>4. Continues(response, excuses', u, wire', ChunkAt(response, k) - 2)
    BY <1>2, <2>1, <2>3
  <2> QED BY <2>1, <2>4 DEF End
<1>10. Late(u, D) => Late(u, D)'
  BY <1>9 DEF Late
<1> QED BY <1>4, <1>5, <1>7, <1>8, <1>9, <1>10

\* The server dies: what has been read is what it was.
LEMMA DieInv == IInv /\ Die => IInv'
<1> SUFFICES ASSUME IInv, Die PROVE IInv'
  OBVIOUS
<1>1. PICK n : n \in 0..Len(wire) /\ wire' = Take(wire, n)
  BY DEF Die
<1>2. /\ peerClosed' = TRUE /\ excuses' = excuses \cup {"died"}
      /\ UNCHANGED <<client, data, given, pc, pending, result, stage, got, response, delivered>>
  BY DEF Die
<1>3. UNCHANGED <<socket, isMore, isChunked, retrieveLen, contentLen, responseBuf, headerBuf,
                  bufLen, hasPost, header>>
  BY <1>2 DEF client, data, given
<1>4. excuses \subseteq excuses' /\ "died" \in excuses'
  BY <1>2
<1>5. /\ wire \in Seq(Byte) /\ pending \in Seq(Byte) /\ headerBuf \in Seq(Byte)
      /\ responseBuf \in Seq(Byte) /\ delivered \in Seq(Byte) /\ <<>> \in Seq(Byte)
      /\ retrieveLen \in Int /\ response \in Responses \cup {None}
  BY DEF IInv, TypeInv
<1>6. wire' \in Seq(Byte)
  BY <1>1, <1>5, TakeDrop
<1>7. wire = <<>> => wire' = <<>>
  <2>1. wire = <<>> => n = 0
    BY <1>1
  <2>2. wire' \in Seq(Byte) /\ Len(wire') = n
    BY <1>1, <1>5, TakeDrop
  <2> QED BY <2>1, <2>2
<1>8. Stale => wire' = <<>> \/ Stale'
  BY <1>1, <1>4, <1>5, StaleCut
<1>9. TypeInv'
  BY <1>2, <1>3, <1>6 DEF IInv, TypeInv
<1>10. GivenInv' /\ ClosedInv' /\ RoomInv'
  BY <1>2, <1>3 DEF IInv, GivenInv, ClosedInv, RoomInv, Room, Count
<1>11. CommonInv'
  BY <1>2, <1>4 DEF IInv, CommonInv
<1>12. ASSUME response # None, NEW u \in Seq(Byte), NEW p \in Int,
              Continues(response, excuses, u, wire, p)
       PROVE  Continues(response, excuses', u, wire', p)
  <2>1. Len(Wire(response)) \in Int /\ p + Len(u) \in Int
    BY <1>5, <1>12, AnswerIs, LenProperties
  <2> QED BY <1>1, <1>4, <1>5, <1>12, <2>1, ContinuesCut
<1>13. FreshInv'
  <2> SUFFICES ASSUME Fresh' PROVE FreshInv'
    BY DEF FreshInv
  <2>1. Fresh
    BY <1>2, <1>3 DEF Fresh
  <2>2. ~isMore /\ delivered = <<>>
    BY <2>1 DEF IInv, FreshInv
  <2>3. CASE response = None
    <3>1. wire' = <<>> \/ Stale'
      BY <1>7, <1>8, <2>1, <2>3 DEF IInv, FreshInv
    <3> QED BY <1>2, <1>3, <2>2, <2>3, <3>1 DEF FreshInv
  <2>4. CASE response # None /\ Reads(response, excuses, wire, 0)
    <3>1. Continues(response, excuses, <<>>, wire, 0)
      BY <2>4, ContinuesEmpty
    <3>2. Continues(response, excuses', <<>>, wire', 0)
      <4>1. 0 \in Int
        OBVIOUS
      <4> QED BY <1>5, <1>12, <2>4, <3>1, <4>1
    <3>3. Reads(response, excuses', wire', 0)
      BY <3>2, ContinuesEmpty
    <3> QED BY <1>2, <1>3, <2>2, <2>4, <3>3 DEF FreshInv
  <2>5. CASE response # None /\ Stale
    <3>1. CASE wire' = <<>>
      <4>1. Len(Wire(response)) \in Nat /\ Len(<<>>) = 0
        BY <1>5, <2>5, AnswerIs
      <4>2. 0 + 0 <= Len(Wire(response))
        BY <4>1
      <4>3. Reads(response, excuses', <<>>, 0)
        BY <1>4, <4>1, <4>2 DEF Reads, Shows
      <4> QED BY <1>2, <1>3, <2>2, <2>5, <3>1, <4>3 DEF FreshInv
    <3>2. CASE Stale'
      BY <1>2, <1>3, <2>2, <3>2 DEF FreshInv
    <3> QED BY <1>8, <2>5, <3>1, <3>2
  <2> QED BY <2>1, <2>3, <2>4, <2>5 DEF IInv, FreshInv
<1>14. ReadyInv'
  BY <1>2, <1>3, <1>4, <1>7, <1>8 DEF IInv, ReadyInv
<1>15. HeaderInv'
  <2> SUFFICES ASSUME pc' = "header" PROVE HeaderInv'
    BY DEF HeaderInv
  <2>1. /\ response # None /\ delivered = <<>> /\ ~isMore
        /\ \/ /\ Continues(response, excuses, headerBuf, wire, 3)
              /\ ~isChunked /\ contentLen = -1
           \/ /\ Continues(response, excuses, headerBuf, wire, 6)
              /\ \/ /\ response.kind = "length" /\ ~isChunked
                    /\ retrieveLen = Len(Body(response)) /\ contentLen = retrieveLen
                 \/ /\ response.kind \in {"close", "unspaced"} /\ ~isChunked /\ contentLen = -1
                 \/ /\ response.kind = "chunked" /\ isChunked
                    /\ retrieveLen = 0 /\ contentLen = 0
    BY <1>2 DEF IInv, HeaderInv
  <2>2. /\ Continues(response, excuses, headerBuf, wire, 3) =>
             Continues(response, excuses', headerBuf, wire', 3)
        /\ Continues(response, excuses, headerBuf, wire, 6) =>
             Continues(response, excuses', headerBuf, wire', 6)
    BY <1>5, <1>12, <2>1
  <2> QED BY <1>2, <1>3, <2>1, <2>2 DEF HeaderInv
<1>16. ASSUME response # None, NEW u \in Seq(Byte), NEW D \in Int
       PROVE  /\ Closing(u, D) => Closing(u, D)'
              /\ Plain(u, D) => Plain(u, D)'
              /\ Inside(u, D) => Inside(u, D)'
              /\ Line(u, D) => Line(u, D)'
              /\ End(u, D) => End(u, D)'
              /\ Late(u, D) => Late(u, D)'
  BY <1>1, <1>2, <1>3, <1>4, <1>5, <1>16, ContentCut
<1>17. ASSUME pc \in Contents
       PROVE  /\ response' # None /\ isMore' /\ InBody(response, responseBuf, Len(delivered))'
              /\ \A d : d = (Len(delivered) + Len(responseBuf))' =>
                   /\ pc' = "until_close" => Closing(pending, d)'
                   /\ pc' = "retrieve" => Plain(pending, d)' \/ Inside(pending, d)'
                   /\ pc' = "chunk_line" => Line(pending, d)' \/ Late(pending, d)'
                   /\ pc' = "chunk_end" => End(pending, d)'
  <2> DEFINE D == Len(delivered) + Len(responseBuf)
  <2>1. /\ response # None /\ isMore /\ InBody(response, responseBuf, Len(delivered))
        /\ pc = "until_close" => Closing(pending, D)
        /\ pc = "retrieve" => Plain(pending, D) \/ Inside(pending, D)
        /\ pc = "chunk_line" => Line(pending, D) \/ Late(pending, D)
        /\ pc = "chunk_end" => End(pending, D)
    BY <1>17 DEF IInv, ContentInv
  <2>2. D \in Int /\ D' = D
    BY <1>2, <1>3, <1>5, LenProperties
  <2> HIDE DEF D
  <2>3. ASSUME NEW u, NEW d, u = pending, d = D
        PROVE  /\ pc = "until_close" => Closing(u, d)'
               /\ pc = "retrieve" => Plain(u, d)' \/ Inside(u, d)'
               /\ pc = "chunk_line" => Line(u, d)' \/ Late(u, d)'
               /\ pc = "chunk_end" => End(u, d)'
    <3>1. u \in Seq(Byte) /\ d \in Int
      BY <1>5, <2>2, <2>3
    <3>2. /\ pc = "until_close" => Closing(u, d)
          /\ pc = "retrieve" => Plain(u, d) \/ Inside(u, d)
          /\ pc = "chunk_line" => Line(u, d) \/ Late(u, d)
          /\ pc = "chunk_end" => End(u, d)
      BY <2>1, <2>3
    <3> QED BY <1>16, <2>1, <3>1, <3>2
  <2>4. /\ response' # None /\ isMore' /\ InBody(response, responseBuf, Len(delivered))'
    BY <1>2, <1>3, <2>1
  <2>5. ASSUME NEW d, d = (Len(delivered) + Len(responseBuf))'
        PROVE  /\ pc' = "until_close" => Closing(pending, d)'
               /\ pc' = "retrieve" => Plain(pending, d)' \/ Inside(pending, d)'
               /\ pc' = "chunk_line" => Line(pending, d)' \/ Late(pending, d)'
               /\ pc' = "chunk_end" => End(pending, d)'
    <3>1. d = D /\ pending' = pending /\ pc' = pc
      BY <1>2, <1>3, <2>5 DEF D
    <3>2. /\ pc = "until_close" => Closing(pending, d)'
          /\ pc = "retrieve" => Plain(pending, d)' \/ Inside(pending, d)'
          /\ pc = "chunk_line" => Line(pending, d)' \/ Late(pending, d)'
          /\ pc = "chunk_end" => End(pending, d)'
      BY <2>3, <3>1 DEF Closing, Plain, Inside, Line, Late, End
    <3> QED BY <3>1, <3>2
  <2> QED BY <2>4, <2>5
<1>18. ASSUME Mid
       PROVE  /\ response' # None
              /\ \A d : d = Len(delivered)' =>
                   Closing(<<>>, d)' \/ Plain(<<>>, d)' \/ Inside(<<>>, d)' \/ Line(<<>>, d)'
                     \/ Late(<<>>, d)'
  <2> DEFINE D == Len(delivered)
  <2>1. /\ response # None
        /\ Closing(<<>>, D) \/ Plain(<<>>, D) \/ Inside(<<>>, D) \/ Line(<<>>, D) \/ Late(<<>>, D)
    BY <1>18 DEF IInv, ContentInv
  <2>2. D \in Int /\ D' = D
    BY <1>2, <1>5, LenProperties
  <2> HIDE DEF D
  <2>3. Closing(<<>>, D)' \/ Plain(<<>>, D)' \/ Inside(<<>>, D)' \/ Line(<<>>, D)' \/ Late(<<>>, D)'
    BY <1>5, <1>16, <2>1, <2>2
  <2> QED BY <1>2, <2>1, <2>2, <2>3 DEF D
<1>19. ContentInv'
  <2>1. (pc' \in Contents => pc \in Contents) /\ (Mid' => Mid)
    BY <1>2, <1>3 DEF Mid
  <2> QED BY <1>17, <1>18, <2>1 DEF ContentInv
<1> QED BY <1>9, <1>10, <1>11, <1>13, <1>14, <1>15, <1>19 DEF IInv

-----------------------------------------------------------------------------
(* What the application has got, and what an error means                   *)

\* Every step keeps the invariant.
LEMMA NextInv == IInv /\ [Next]_vars => IInv'
<1> SUFFICES ASSUME IInv, [Next]_vars PROVE IInv'
  OBVIOUS
<1>1. CASE httpclient_connect \/ httpclient_send_header \/ httpclient_send_userdata
             \/ httpclient_send_request \/ httpclient_close \/ Receive \/ Die
  BY <1>1, ConnectInv, SendInv, SentInv, CloseInv, ReceiveInv, DieInv
<1>2. CASE Header
  <2>1. CASE httpclient_recv_response
    BY <2>1, ReceiveMoreInv, ReceiveFirstInv
  <2> QED BY <1>2, <2>1, HeaderMoreInv, HeaderLineInv, HeaderBadInv, HeaderEndInv, RedirectInv DEF Header
<1>3. CASE Content
  BY <1>3, UntilCloseInv, ChunkLineInv, ChunkLineMoreInv, RetrieveFullInv, RetrieveEndInv,
     RetrieveMoreInv, ChunkEndInv DEF Content
<1>4. ASSUME NEW all \in BOOLEAN, NEW m \in {"GET", "POST"}, Begin(all, m) \/ Ask(m)
      PROVE  IInv'
  BY <1>4, BeginInv, AskInv
<1>5. ASSUME NEW r \in Responses, Answer(r) PROVE IInv'
  BY <1>5, AnswerInv
<1>6. CASE UNCHANGED vars
  <2>1. UNCHANGED <<client, data, given, pc, pending, result, stage, net, history, delivered>>
    BY <1>6 DEF vars
  <2>2. UNCHANGED <<socket, isMore, isChunked, retrieveLen, contentLen, responseBuf, headerBuf,
                    bufLen, hasPost, header, pc, pending, result, stage, wire, peerClosed, got,
                    response, excuses, delivered>>
    BY <2>1 DEF client, data, given, net, history
  <2>3. TypeInv' /\ GivenInv' /\ CommonInv'
    BY <2>2 DEF IInv, TypeInv, GivenInv, CommonInv
  <2>4. ClosedInv' /\ FreshInv' /\ ReadyInv' /\ RoomInv'
    BY <2>2 DEF IInv, ClosedInv, FreshInv, Fresh, Stale, ReadyInv, RoomInv, Room, Count
  <2>5. HeaderInv'
    BY <2>2 DEF IInv, HeaderInv
  <2>6. ContentInv'
    BY <2>2 DEF IInv, ContentInv, Mid, Closing, Plain, Inside, Line, Late, End
  <2> QED BY <2>3, <2>4, <2>5, <2>6 DEF IInv
<1> QED BY <1>1, <1>2, <1>3, <1>4, <1>5, <1>6 DEF Next, Call

\* For every cut of the answers and of the receives, for every buffer and every
\* size of the chunks, the application has got the first bytes of the body, in
\* order, and all of them when it is told so, unless the server died and the
\* client knew of no length.
THEOREM BodiesDelivered == Spec => []BodyDelivered
<1>1. IInv => BodyDelivered
  <2> SUFFICES ASSUME IInv PROVE BodyDelivered
    OBVIOUS
  <2>1. Body(response) \in Seq(Byte)
    BY BodyOfNone DEF IInv, TypeInv
  <2>2. delivered \in Seq(Byte) /\ InBody(response, delivered, 0)
    BY DEF IInv, TypeInv, CommonInv
  <2>3. IsPrefix(delivered, Body(response))
    BY <2>1, <2>2, InBodyPrefix
  <2> QED BY <2>3 DEF BodyDelivered, IInv, ReadyInv
<1> QED BY <1>1, InitInv, NextInv, PTL DEF Spec

\* An answer is taken for an error of the server, or for one the client cannot
\* take, only if one of the cases that ErrorsHaveReasons names has come about: a
\* split status line, a header too long or with a line that has no space behind
\* its colon, a redirection too many, a CRLF left over or missed.
THEOREM ErrorsExplained == Spec => []ErrorsHaveReasons
<1>1. IInv => ErrorsHaveReasons
  BY DEF IInv, CommonInv, ErrorsHaveReasons
<1> QED BY <1>1, InitInv, NextInv, PTL DEF Spec
=============================================================================
