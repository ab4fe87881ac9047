--------------------------- MODULE MCPriceLevels ---------------------------
(***************************************************************************)
(* Three entries in two levels: entries are unlinked from the front, the   *)
(* middle and the end of a list.  Quantities of two bits overflow a level's*)
(* total; prices of three bits wrap around the reference price 7.          *)
(***************************************************************************)
EXTENDS PriceLevels

CONSTANTS e1, e2, e3

MCEntry == {e1, e2, e3}
=============================================================================
