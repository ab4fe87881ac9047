----------------------------- MODULE MarketData -----------------------------
(***************************************************************************)
(* The writers of the order book feed, each a loop in a thread of its own  *)
(* as in ServiceThread: SyntheticDataInjector, and MarketDataPipeline fed  *)
(* from the decoder of a UdpPipeline.  A user of the book removes orders   *)
(* and takes snapshots at any moment.  The other classes of ServiceThread  *)
(* run as they do there and leave the book alone.                          *)
(*                                                                         *)
(* Where ServiceThread has one callback step, a thread here makes its calls*)
(* of the feed, each waiting for the mutex.  Prices are integers, Tick to  *)
(* the injector's 0.01; the random shift of the mid price is at most a tick*)
(* and starts again from the same price with every start().  The           *)
(* order pool and index of MarketDataPipeline are not in the repository    *)
(* and are taken to succeed (external); quantities are left out.           *)
(***************************************************************************)
EXTENDS ServiceThread, OrderBookFeed

CONSTANTS
    User,        \* the caller of remove
    Packet,      \* the orders that arrive by UDP: [side, order]
    Levels,      \* the numbers of levels start() is called with
    StartPrice,  \* the first mid price
    MaxDrift,    \* bound: how far the mid price moves from it
    MaxRemoves   \* bound: calls of remove

ASSUME UserAssumption == User \notin Thread \cup {Nobody} /\ Nobody \notin Thread
ASSUME PacketAssumption == Packet \subseteq [side : Side, order : [id : Nat, price : Int]]
ASSUME LevelsAssumption == Levels \subseteq Nat
ASSUME NumberAssumption == StartPrice \in Int /\ MaxDrift \in Nat /\ MaxRemoves \in Nat

VARIABLES
    levels,      \* injectLoop's parameter
    midPrice,    \* injectLoop's variable
    pos,         \* the calls of the feed made in this round of the loop
    firstRound,  \* history: the first round since start() has not ended
    removes      \* the calls of remove

market == <<levels, midPrice, pos, firstRound, removes>>

marketVars == <<vars, feed, market>>

Tick == 2

\* The classes whose callback calls the feed.
Writers == {"injector", "udpPipeline"}

MarketInit ==
    /\ Init /\ FeedInit
    /\ levels = 0 /\ midPrice = StartPrice /\ pos = 0
    /\ firstRound = TRUE
    /\ removes = 0

-----------------------------------------------------------------------------
(* injectLoop *)

Bid(i) == [id |-> i + 1, price |-> midPrice - i * Tick]
Ask(i) == [id |-> i + 1000, price |-> midPrice + i * Tick]

LongShift == -(Tick + 1) .. Tick + 1

\* priceShift(rng) is from [-0.01, 0.01), but midPrice is a double: the rounding of the
\* sum can make a shift just below a tick a whole one.
Shift == -Tick .. Tick

InjectorBegins ==
    /\ kind = "injector" /\ Start
    /\ \E n \in Levels : levels' = n
    /\ midPrice' = StartPrice /\ pos' = 0
    /\ firstRound' = TRUE
    /\ UNCHANGED <<feed, removes>>

\* The bids from the best price, then the asks.
Inject(t) ==
    /\ kind = "injector" /\ pc[t] = "callback" /\ owner # "terminated"
    /\ pos < 2 * levels
    /\ IF pos < levels THEN Upsert(t, "bid", Bid(pos)) ELSE Upsert(t, "ask", Ask(pos - levels))
    /\ pos' = pos + 1
    /\ UNCHANGED <<vars, levels, midPrice, firstRound, removes>>

RoundOverWhenStopped(t) == mutex # t /\ (pos = 2 * levels \/ ~running)

\* Every call of the round has returned.
RoundOver(t) == mutex # t /\ pos = 2 * levels

EndRound(t) ==
    /\ kind = "injector" /\ pc[t] = "callback"
    /\ RoundOver(t)
    /\ ThreadStep(t)
    /\ \E d \in Shift :
          /\ midPrice + d \in StartPrice - MaxDrift .. StartPrice + MaxDrift
          /\ midPrice' = midPrice + d
    /\ pos' = 0
    /\ firstRound' = FALSE
    /\ UNCHANGED <<feed, levels, removes>>

-----------------------------------------------------------------------------
(* processOrder, called by the decoder of the pipeline's thread *)

ProcessOrder(t) ==
    /\ kind = "udpPipeline" /\ pc[t] = "callback" /\ owner # "terminated"
    /\ pos = 0
    /\ \E p \in Packet : Upsert(t, p.side, p.order)
    /\ pos' = 1
    /\ UNCHANGED <<vars, levels, midPrice, firstRound, removes>>

OrderProcessed(t) ==
    /\ kind = "udpPipeline" /\ pc[t] = "callback"
    /\ pos = 1 /\ mutex # t
    /\ ThreadStep(t)
    /\ pos' = 0
    /\ UNCHANGED <<feed, levels, midPrice, firstRound, removes>>

-----------------------------------------------------------------------------
\* remove takes any id, and runs the callback also when it has found nothing.
UserRemoves(side, id) ==
    /\ owner # "terminated"
    /\ removes < MaxRemoves
    /\ RemoveOrder(User, side, id)
    /\ removes' = removes + 1
    /\ UNCHANGED <<vars, levels, midPrice, pos, firstRound>>

UpdateCallbackReturns(c) ==
    /\ owner # "terminated"
    /\ CallbackReturns(c)
    /\ UNCHANGED <<vars, market>>

\* The steps of a thread: its loop, and the calls it makes.
Writer(t) ==
    \/ /\ kind \in Writers => pc[t] # "callback"
       /\ ThreadStep(t) /\ UNCHANGED <<feed, market>>
    \/ Inject(t) \/ EndRound(t) \/ ProcessOrder(t) \/ OrderProcessed(t)

Owner ==
    \/ CtorStep \/ AddConnectionThrows \/ CtorThrows \/ Built \/ Stop \/ Destroy
    \/ kind # "injector" /\ Start

MarketNext ==
    \/ InjectorBegins
    \/ (Owner \/ Join) /\ UNCHANGED <<feed, market>>
    \/ \E t \in Thread : Writer(t)
    \/ \E c \in Thread \cup {User} : UpdateCallbackReturns(c)
    \/ \E side \in Side : \E id \in {0} \cup {o.id : o \in ToSet(book[side])} :
          UserRemoves(side, id)

MarketSpec == MarketInit /\ [][MarketNext]_marketVars

\* As in ServiceThread; besides, the update callback returns.
FairMarketSpec ==
    /\ MarketSpec
    /\ WF_marketVars(Join /\ UNCHANGED <<feed, market>>)
    /\ \A t \in Thread : WF_marketVars(~Blocked(t) /\ Writer(t))
    /\ \A c \in Thread \cup {User} : WF_marketVars(UpdateCallbackReturns(c))

-----------------------------------------------------------------------------
(* Properties. *)

\* An order leaves the book without having been removed only because the book is
\* full, and then every order that stays is at least as good as it was.
DepthDropsWorst ==
    [][\A side \in Side : \A o \in ToSet(book[side]) :
          removes' = removes /\ (\A p \in ToSet(book'[side]) : p.id # o.id) =>
              /\ Len(book'[side]) = MaxLevels
              /\ \A p \in ToSet(book'[side]) : ~Before(side, o, p)]_marketVars

\* The orders of a side that belong to the levels of the running stream; the ones that
\* an earlier run with more levels has left behind do not.
Own(side) ==
    {o \in ToSet(Snapshot[side]) :
        o.id \in IF side = "bid" THEN 1 .. levels ELSE 1000 .. 999 + levels}

\* A round updates one order at a time, so a snapshot may show new bids beside old
\* asks; they cross by at most a tick (to the rounding of doubles), with two exceptions.
\* In the first round after a start they may cross by more, as the mid price is back at
\* StartPrice; and so may, for ever, the orders that an earlier run with more levels has
\* left in the book, as injectLoop removes none: they are not among the Own.
CrossedAtMostTick ==
    kind = "injector" /\ CanSnapshot /\ ~firstRound =>
        \A b \in Own("bid"), a \in Own("ask") : b.price - a.price <= Tick

\* When stop() has returned, after a run of at least one round, the book holds no half
\* of a round: the orders of its levels are at their prices about one and the same mid
\* price.  It says nothing of the orders of an earlier run with more levels.
WholeRoundsAtRest ==
    kind = "injector" /\ owner \in {"stopped", "gone"} /\ ~firstRound =>
        \E m \in StartPrice - MaxDrift .. StartPrice + MaxDrift :
            /\ \A b \in Own("bid") : b.price = m - (b.id - 1) * Tick
            /\ \A a \in Own("ask") : a.price = m + (a.id - 1000) * Tick

\* The injector can always be stopped: it blocks on nothing but the mutex, and
\* whoever holds that gives it back.
InjectorStops == kind = "injector" /\ Waiting ~> owner \in {"stopped", "gone"}
=============================================================================
