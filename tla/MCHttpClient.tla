---------------------------- MODULE MCHttpClient ----------------------------
(* A body cut behind its first byte; a header block cut in the middle,     *)
(* with bytes behind the message; a chunk length that is never complete;   *)
(* an error, with bytes behind it; a status line that is not three words.  *)
EXTENDS HttpClient, Sequences

Block(line, fields) == <<line>> \o fields \o Parser!CRLFCRLF

MCResponses == {
    <<Block("200", <<"length=3">>) \o <<"a">>, <<"b", "c">>>>,
    <<<<"404", "r">>, <<"l", "r", "l", "a", "b">>>>,
    <<Block("200", <<"chunked">>) \o <<"2", "r">>>>,
    <<Block("200", <<"length=bad">>) \o <<"a", "b">>>>,
    <<Block(Parser!BadLine, <<>>)>>}
=============================================================================
