--------------------------- MODULE MCTcpFraming ---------------------------
(***************************************************************************)
(* Bytes of two values, so a two-byte length goes up to three.  The        *)
(* messages look like headers of each other, so that a framer that is out  *)
(* of step takes out something else.                                       *)
(***************************************************************************)
EXTENDS TcpFraming

ShortMessages == {<<>>, <<1>>, <<0, 1>>, <<1, 0, 1>>}
LongMessages == {<<1>>, <<1, 0, 0, 1>>}
=============================================================================
