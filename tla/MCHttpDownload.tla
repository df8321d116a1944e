--------------------------- MODULE MCHttpDownload ---------------------------
(* Constants for model checking HttpDownload. *)
EXTENDS HttpDownload

\* A length above and below RECV_BUF, chunks, an empty body, a body that the
\* end of the connection ends, a redirect, an error.
SomeResponses ==
  { [status |-> 200, framing |-> "length", parts |-> <<3>>],
    [status |-> 200, framing |-> "length", parts |-> <<>>],
    [status |-> 200, framing |-> "chunked", parts |-> <<1, 3>>],
    [status |-> 200, framing |-> "close", parts |-> <<1>>],
    [status |-> 302, framing |-> "length", parts |-> <<>>],
    [status |-> 404, framing |-> "length", parts |-> <<1>>] }

EitherEnd == {-1, 0}
=============================================================================
