---------------------------- MODULE MCMarketData ----------------------------
(***************************************************************************)
(* Every class with a loop of its own: three threads are enough for a      *)
(* manager of two connections, or one started three times, and for a server*)
(* with two clients.  The book has depth two; the injector has one or three*)
(* levels and is restarted at will, the UDP packets are of three orders,   *)
(* two of them at one price.                                               *)
(***************************************************************************)
EXTENDS MarketData

AllKinds == {"tcpPipeline", "udpPipeline", "manager", "heartbeat", "server", "injector"}

SmallPackets ==
    [side : {"bid"}, order : [id : 1 .. 3, price : 1 .. 2]]
    \cup [side : {"ask"}, order : {[id |-> 1, price |-> 2], [id |-> 2, price |-> 1]}]
=============================================================================
