---------------------------- MODULE MCHttpClient ----------------------------
(***************************************************************************)
(* HttpClient on small instances.  Buffers of five and eight bytes give    *)
(* blocks of four and seven: bodies and chunks that end before, at and     *)
(* after the end of a block; chunk lines of one digit and of four.         *)
(***************************************************************************)
EXTENDS HttpClient

Answered(kind, code, parts, pad) == [kind |-> kind, code |-> code, parts |-> parts, pad |-> pad]

\* One byte of custom header, or three, with which a request to post fills the
\* send buffer.
MCSettings == {
  [bufLen |-> 5, header |-> 1, post |-> FALSE],
  [bufLen |-> 5, header |-> 3, post |-> TRUE],
  [bufLen |-> 8, header |-> 1, post |-> TRUE] }

MCResponses == {
  Answered("length", 200, <<>>, 0),
  Answered("length", 200, <<<<1, 2, 3, 4, 5>>>>, 0),
  Answered("unspaced", 200, <<<<1, 2, 3>>>>, 0),
  Answered("close", 200, <<<<1, 2, 3, 4>>>>, 0),
  Answered("chunked", 200, <<<<1, 2, 3, 4>>, <<5, 6>>>>, 0),
  Answered("chunked", 200, <<<<1, 2, 3, 4, 5>>, <<6>>>>, 3),
  Answered("redirect", 302, <<>>, 0) }
=============================================================================
