--------------------------- MODULE MCHttpContext ---------------------------
(* Messages of every framing, some followed by bytes of a next one. *)
EXTENDS HttpContext

MCInputs == {
    [text |-> <<"GET", "other">>, body |-> <<"a", "b">>],
    [text |-> <<"404", "other">>, body |-> <<>>],
    [text |-> <<"POST", "length=0">>, body |-> <<>>],
    [text |-> <<"POST", "length=1">>, body |-> <<"a">>],
    [text |-> <<"POST", "other", "length=3">>,
     body |-> <<"a", "b", "c", "d">>],
    [text |-> <<"POST", "chunked">>,
     body |-> <<"0", "2", "r", "l", "a", "b", "r">>],
    [text |-> <<"POST", "chunked">>, body |-> <<"2", "r", "l", "r", "l", "a">>],
    [text |-> <<"POST", "chunked">>,
     body |-> <<"3", "r", "l", "a", "b", "c">>],
    [text |-> <<"POST", "chunked">>, body |-> <<"0", "r", "l", "r", "l">>],
    [text |-> <<"POST", "chunked">>, body |-> <<"0", "0", "0", "0">>],
    [text |-> <<"200", "other">>,
     body |-> <<"a", "b", "c", "d", "e", "f", "a">>],
    [text |-> <<"POST", "length=bad">>, body |-> <<"a">>],
    [text |-> <<"GET", "other", "other", "other", "other", "other">>,
     body |-> <<>>]}

(* One request whose header may come in two reads. *)
MCOneInput == {[text |-> <<"GET", "other">>, body |-> <<>>]}
============================================================================
