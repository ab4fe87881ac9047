---------------------- MODULE MatchingEnginePartition ----------------------
(***************************************************************************)
(* One partition of the matching engine (libs/match/                       *)
(* MatchingEnginePartition.h): orders wait in a ring, are filled at once   *)
(* and in full, and each fill is reported three times: into a ring of      *)
(* fills that nobody reads, to a TCP client with TcpClient::sendAll, and by*)
(* UDP.  The rings are used through what SpScRingBuffer is shown to        *)
(* implement, BoundedFifo.                                                 *)
(*                                                                         *)
(* A report is ReportSize bytes of memory.  send (external) sends a part of*)
(* what it is given or fails; sendto (external) sends all or nothing.  One *)
(* thread runs processOrders.                                              *)
(***************************************************************************)
EXTENDS Naturals, Sequences, SequencesExt

CONSTANTS
    Order,       \* the orders
    NoOrder,     \* no order is being matched
    Capacity,    \* the template parameter
    ReportSize,  \* sizeof(ExecutionReport)
    MaxOrders    \* bound: orders submitted

VARIABLES
    submitted,   \* the orders that submitOrder accepted
    popped,      \* the orders that processOrders has taken
    fills,       \* what _fillsQueue accepted
    order,       \* the order being matched, or NoOrder
    ptr,         \* sendAll's ptr, counted from the start of the report
    remaining,   \* sendAll's remaining
    stream,      \* the bytes sent to the TCP client
    broadcast    \* the reports sent by UDP

vars == <<submitted, popped, fills, order, ptr, remaining, stream, broadcast>>

Orders == INSTANCE BoundedFifo
            WITH Item <- Order, Limit <- Capacity - 1,
                 accepted <- submitted, delivered <- popped

Fills == INSTANCE BoundedFifo
           WITH Item <- Order, Limit <- Capacity - 1,
                accepted <- fills, delivered <- <<>>

Init ==
    /\ Orders!Init /\ Fills!Init
    /\ order = NoOrder
    /\ ptr = 0 /\ remaining = 0
    /\ stream = <<>> /\ broadcast = <<>>

\* The ring has room; otherwise submitOrder returns false.
SubmitOrder(o) ==
    /\ Len(submitted) < MaxOrders
    /\ Orders!Put(o)
    /\ UNCHANGED <<fills, order, ptr, remaining, stream, broadcast>>

\* tryPop, and matchOrder up to sendAll.  A full ring of fills refuses the report,
\* and nobody looks at the result.
MatchOrder ==
    /\ order = NoOrder
    /\ Orders!Take
    /\ order' = Last(popped')
    /\ IF Len(fills) < Capacity - 1 THEN Fills!Put(order') ELSE UNCHANGED fills
    /\ ptr' = 0 /\ remaining' = ReportSize
    /\ UNCHANGED <<stream, broadcast>>

\* The n bytes at place p of the report on o; what lies beyond the report is
\* whatever the memory holds.
Bytes(o, p, n) == [i \in 1 .. n |-> [report |-> o, place |-> p + i]]

\* A round of sendAll's loop in which send takes n bytes.
SendSome(n) ==
    /\ remaining > 0
    /\ stream' = stream \o Bytes(order, ptr, n)
    /\ ptr' = ptr + n
    /\ remaining' = remaining - 1
    /\ UNCHANGED <<submitted, popped, fills, order, broadcast>>

\* send fails and sendAll returns false, at which nobody looks.
SendFails ==
    /\ remaining > 0
    /\ remaining' = 0
    /\ UNCHANGED <<submitted, popped, fills, order, ptr, stream, broadcast>>

\* UdpMulticastSender::send: one datagram, or a failure.
SendTo(o) == broadcast' = Append(broadcast, o) \/ UNCHANGED broadcast

\* sendAll has returned; the report is broadcast, and nobody looks at the result.
Broadcast ==
    /\ order # NoOrder /\ remaining = 0
    /\ SendTo(order)
    /\ order' = NoOrder
    /\ UNCHANGED <<submitted, popped, fills, ptr, remaining, stream>>

Next ==
    \/ \E o \in Order : SubmitOrder(o)
    \/ MatchOrder
    \/ \E n \in 1 .. remaining : SendSome(n)
    \/ SendFails \/ Broadcast

Spec == Init /\ [][Next]_vars

\* "Send immediately to TCP client": what the client is sent is the reports and
\* nothing else.  It does not hold: sendAll counts a send of n bytes as one byte and
\* goes on past the end of the report.
OnlyReportsSent == \A i \in DOMAIN stream : stream[i].place \in 1 .. ReportSize
=============================================================================
