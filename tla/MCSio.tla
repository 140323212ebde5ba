------------------------------- MODULE MCSio -------------------------------
(***************************************************************************)
(* Sio with a small buffer and messages that fit, fill and overfill it.    *)
(***************************************************************************)
EXTENDS Sio

MCMessages == {<<"a">>, <<LF>>, <<"a", "b">>, <<LF, "a">>, <<LF, "a", "b">>,
               <<"a", LF, "b", "a">>}
=============================================================================
