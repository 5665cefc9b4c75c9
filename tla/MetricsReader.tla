---------------------------- MODULE MetricsReader ----------------------------
(***************************************************************************)
(* GrpcBackedStockMetricsReader.get_metrics_many, the PostgreSQL rows it   *)
(* reads and refreshes, and the two other writers of those rows (the       *)
(* catalogue sync and the warmer).                                         *)
(*                                                                         *)
(* A request reads the rows of its stocks in one query and then gathers    *)
(* one coroutine ("child") per stock.  A child whose row is stale queues   *)
(* for the lock of its stock, reads the row again, fetches candles under   *)
(* the fetcher's semaphore, writes the row and answers.  gather() is given *)
(* no return_exceptions: it raises the first error and leaves the other    *)
(* children running.  A cancelled request cancels its children.            *)
(*                                                                         *)
(* Time is abstracted to what the TTL test can see.  Every write of market *)
(* metrics is stamped with the next number, and the writes stamped up to   *)
(* horizon are those older than the TTL.                                   *)
(***************************************************************************)
EXTENDS Integers, FiniteSets

CONSTANTS
    Requests,       \* calls of get_metrics_many, each made once
    Stocks,         \* stock codes
    Observations,   \* volatilities that GetCandles can lead to, 5 decimals
    Unit,           \* one unit of NUMERIC(6,3) in those decimals
    Limit,          \* the first volatility NUMERIC(6,3) cannot hold
    Concurrency,    \* permits of the fetcher's semaphore
    NoChild,        \* nobody holds the lock
    MaxWarm         \* bound: the warmer stops writing at this stamp

ASSUME ReaderAssumption ==
    /\ IsFiniteSet(Requests)
    /\ IsFiniteSet(Stocks)
    /\ Observations \subseteq Nat
    /\ Unit \in Nat \ {0}
    /\ Limit \in Nat
    /\ Concurrency \in Nat \ {0}
    /\ NoChild \notin Requests \X Stocks
    /\ MaxWarm \in Nat

Children == Requests \X Stocks
ChildrenOf(r) == {r} \X Stocks
StockOf(c) == c[2]

\* The stored form of a volatility: the column keeps three decimals.
Stored(v) == ((v + Unit \div 2) \div Unit) * Unit
Storable(v) == Stored(v) < Limit

\* fin: per, pbr and roe are all there.  stamp 0: no volatility yet.
Row == [fin : BOOLEAN, vol : Nat, stamp : Nat]

VARIABLES
    row,            \* stocks_cache, one row per stock
    clock,          \* the last stamp given to a write of market metrics
    horizon,        \* the writes up to this stamp are older than the TTL
    call,           \* what get_metrics_many has come to, per request
    pc,             \* where each child is
    local,          \* each child's copy of its row, then its answer
    lock,           \* _refresh_locks: the child that holds a stock's lock
    permits,        \* free permits of the semaphore
    lastRefresh     \* history: stamp of the last write by a child, per stock

vars == <<row, clock, horizon, call, pc, local, lock, permits,
          lastRefresh>>

Waiting == {"start", "lock"}
Refreshing == {"decide", "permit", "fetch", "write", "written"}
Ended == {"answered", "none", "failed", "cancelled"}
PCs == {"off"} \union Waiting \union Refreshing \union Ended

\* The children that have a permit.
Fetching == {c \in Children : pc[c] = "fetch"}

Init ==
    /\ clock = 0
    /\ horizon = 0
    /\ row \in [Stocks -> [fin : BOOLEAN, vol : {0}, stamp : {0}]]
    /\ call = [r \in Requests |-> "idle"]
    /\ pc = [c \in Children |-> "off"]
    /\ local = [c \in Children |-> row[StockOf(c)]]
    /\ lock = [s \in Stocks |-> NoChild]
    /\ permits = Concurrency
    /\ lastRefresh = [s \in Stocks |-> 0]

\* _fresh_cached_metrics: there is a volatility and it is within the TTL.
Fresh(x) == x.stamp > horizon

-----------------------------------------------------------------------------
(* One request: the bulk query, the gather, a cancellation.                *)

Query(r) ==
    /\ call[r] = "idle"
    /\ \/ /\ call' = [call EXCEPT ![r] = "open"]
          /\ \E codes \in SUBSET Stocks :
                pc' = [c \in Children |->
                         IF c \in {r} \X codes THEN "start" ELSE pc[c]]
          /\ local' = [c \in Children |->
                         IF c[1] = r THEN row[StockOf(c)] ELSE local[c]]
       \/ /\ call' = [call EXCEPT ![r] = "raised"]   \* the query fails
          /\ UNCHANGED <<pc, local>>
    /\ UNCHANGED <<row, clock, horizon, lock, permits, lastRefresh>>

\* A wrong form: the cancellation does not reach the children.
CancelCallOnly(r) ==
    /\ call[r] = "open"
    /\ call' = [call EXCEPT ![r] = "cancelled"]
    /\ UNCHANGED <<row, clock, horizon, pc, local, lock, permits,
                   lastRefresh>>

GatherReturns(r) ==
    /\ call[r] = "open"
    /\ \A c \in ChildrenOf(r) : pc[c] \in {"off", "answered", "none"}
    /\ call' = [call EXCEPT ![r] = "returned"]
    /\ UNCHANGED <<row, clock, horizon, pc, local, lock, permits,
                   lastRefresh>>

\* The RPC's deadline passes or the client goes away.  A write that had not
\* committed is rolled back before the connection returns to the pool.
Cancel(r) ==
    LET running == {c \in ChildrenOf(r) : pc[c] \in Waiting \union Refreshing}
    IN  /\ call[r] = "open"
        /\ call' = [call EXCEPT ![r] = "cancelled"]
        /\ pc' = [c \in Children |->
                    IF c \in running THEN "cancelled" ELSE pc[c]]
        /\ lock' = [s \in Stocks |->
                      IF lock[s] \in running THEN NoChild ELSE lock[s]]
        /\ permits' = permits + Cardinality(Fetching \intersect running)
        /\ UNCHANGED <<row, clock, horizon, local, lastRefresh>>

-----------------------------------------------------------------------------
(* One child: _build_metrics.  A step ends where the coroutine awaits.     *)

\* A wrong form: the lock is kept.
EndKeepingLock(c, how) ==
    /\ pc' = [pc EXCEPT ![c] = how]
    /\ UNCHANGED lock

\* The child ends; async with lets go of the lock if the child had it.
End(c, how) ==
    /\ pc' = [pc EXCEPT ![c] = how]
    /\ lock' = [lock EXCEPT ![StockOf(c)] = IF @ = c THEN NoChild ELSE @]

\* An exception in a child ends the gather, not the other children.
Raise(c) ==
    /\ End(c, "failed")
    /\ call' = [call EXCEPT ![c[1]] = IF @ = "open" THEN "raised" ELSE @]

\* The tests made on the values of a query, before and under the lock.
Check(c, next) ==
    \/ /\ ~local[c].fin
       /\ End(c, "none")
    \/ /\ local[c].fin
       /\ Fresh(local[c])
       /\ End(c, "answered")
    \/ /\ local[c].fin
       /\ ~Fresh(local[c])
       /\ pc' = [pc EXCEPT ![c] = next]
       /\ UNCHANGED lock

Start(c) ==
    /\ pc[c] = "start"
    /\ Check(c, "lock")
    /\ UNCHANGED <<row, clock, horizon, call, local, permits,
                   lastRefresh>>

\* A wrong form: under the lock the child goes by what it read before.
RecheckOldValues(c) ==
    /\ pc[c] = "lock"
    /\ lock[StockOf(c)] = NoChild
    /\ pc' = [pc EXCEPT ![c] = "decide"]
    /\ lock' = [lock EXCEPT ![StockOf(c)] = c]
    /\ UNCHANGED <<row, clock, horizon, call, local, permits,
                   lastRefresh>>

\* The lock is taken and the row is read again, or reading it fails.
Recheck(c) ==
    /\ pc[c] = "lock"
    /\ lock[StockOf(c)] = NoChild
    /\ \/ /\ pc' = [pc EXCEPT ![c] = "decide"]
          /\ lock' = [lock EXCEPT ![StockOf(c)] = c]
          /\ local' = [local EXCEPT ![c] = row[StockOf(c)]]
          /\ UNCHANGED call
       \/ /\ Raise(c)
          /\ UNCHANGED local
    /\ UNCHANGED <<row, clock, horizon, permits, lastRefresh>>

\* A wrong form: the second look tests the volatility only.
DecideOnVolatility(c) ==
    /\ pc[c] = "decide"
    /\ \/ Fresh(local[c]) /\ End(c, "answered")
       \/ /\ ~Fresh(local[c])
          /\ pc' = [pc EXCEPT ![c] = "permit"]
          /\ UNCHANGED lock
    /\ UNCHANGED <<row, clock, horizon, call, local, permits,
                   lastRefresh>>

Decide(c) ==
    /\ pc[c] = "decide"
    /\ Check(c, "permit")
    /\ UNCHANGED <<row, clock, horizon, call, local, permits,
                   lastRefresh>>

\* Wrong forms: nobody waits for a permit; a permit is not given back.
TakeAnyPermit == permits' = permits - 1
KeepPermit == permits' = permits

TakePermit ==
    /\ permits > 0
    /\ permits' = permits - 1

GivePermit == permits' = permits + 1

\* A permit, then the limiter, then GetCandles.
Fetch(c) ==
    /\ pc[c] = "permit"
    /\ TakePermit
    /\ pc' = [pc EXCEPT ![c] = "fetch"]
    /\ UNCHANGED <<row, clock, horizon, call, local, lock, lastRefresh>>

\* Candles arrive, too few of them, or the call fails or times out.
Reply(c) ==
    /\ pc[c] = "fetch"
    /\ GivePermit
    /\ \/ /\ pc' = [pc EXCEPT ![c] = "write"]
          /\ \E v \in Observations : local' = [local EXCEPT ![c].vol = v]
          /\ UNCHANGED <<call, lock>>
       \/ /\ End(c, "none")
          /\ UNCHANGED <<call, local>>
       \/ /\ Raise(c)
          /\ UNCHANGED local
    /\ UNCHANGED <<row, clock, horizon, lastRefresh>>

\* A wrong form: the statement sets the time and not the volatility.
SetTimeOnly(s, v) ==
    /\ Storable(v)
    /\ clock' = clock + 1
    /\ row' = [row EXCEPT ![s].stamp = clock + 1]

\* update_market_metrics: one UPDATE of volatility and time together.
SetMarketMetrics(s, v) ==
    /\ Storable(v)
    /\ clock' = clock + 1
    /\ row' = [row EXCEPT ![s].vol = Stored(v), ![s].stamp = clock + 1]

Write(c) ==
    /\ pc[c] = "write"
    /\ \/ /\ SetMarketMetrics(StockOf(c), local[c].vol)
          /\ pc' = [pc EXCEPT ![c] = "written"]
          /\ local' = [local EXCEPT ![c].stamp = clock + 1]
          /\ lastRefresh' = [lastRefresh EXCEPT ![StockOf(c)] = clock + 1]
          /\ UNCHANGED <<call, lock>>
       \/ /\ Raise(c)       \* out of range, or the database fails
          /\ UNCHANGED <<row, clock, local, lastRefresh>>
    /\ UNCHANGED <<horizon, permits>>

Answer(c) ==
    /\ pc[c] = "written"
    /\ End(c, "answered")
    /\ UNCHANGED <<row, clock, horizon, call, local, permits,
                   lastRefresh>>

Child(c) ==
    \/ Start(c)
    \/ Recheck(c)
    \/ Decide(c)
    \/ Fetch(c)
    \/ Reply(c)
    \/ Write(c)
    \/ Answer(c)

-----------------------------------------------------------------------------
(* The other writers of the row, and the passing of the TTL.               *)

\* MarketMetricsWarmer writes without the reader's lock.
Warm(s) ==
    /\ clock < MaxWarm
    /\ \E v \in Observations : SetMarketMetrics(s, v)
    /\ UNCHANGED <<horizon, call, pc, local, lock, permits,
                   lastRefresh>>

\* The sync upserts the financials, with or without values.
Upsert(s) ==
    /\ \E fin \in BOOLEAN : row' = [row EXCEPT ![s].fin = fin]
    /\ UNCHANGED <<clock, horizon, call, pc, local, lock, permits,
                   lastRefresh>>

Expire ==
    /\ horizon' \in horizon + 1 .. clock
    /\ UNCHANGED <<row, clock, call, pc, local, lock, permits,
                   lastRefresh>>

Next ==
    \/ \E r \in Requests : Query(r)
    \/ \E r \in Requests : GatherReturns(r)
    \/ \E r \in Requests : Cancel(r)
    \/ \E c \in Children : Child(c)
    \/ \E s \in Stocks : Warm(s)
    \/ \E s \in Stocks : Upsert(s)
    \/ Expire

\* The event loop runs every coroutine that can run; the candle call has a
\* timeout.  Nothing forces a cancellation, another writer or an expiry.
Fairness ==
    /\ \A c \in Children : WF_vars(Child(c))
    /\ \A r \in Requests : WF_vars(GatherReturns(r))

Spec == Init /\ [][Next]_vars /\ Fairness

-----------------------------------------------------------------------------
(* Every variable keeps its type.                                          *)
TypeOK ==
    /\ row \in [Stocks -> Row]
    /\ clock \in Nat
    /\ horizon \in 0 .. clock
    /\ call \in [Requests -> {"idle", "open", "returned", "raised", "cancelled"}]
    /\ pc \in [Children -> PCs]
    /\ local \in [Children -> Row]
    /\ lock \in [Stocks -> Children \union {NoChild}]
    /\ permits \in 0 .. Concurrency
    /\ lastRefresh \in [Stocks -> 0 .. clock]

(***************************************************************************)
(* The locks and the permits out are exactly those of the children that    *)
(* are at the steps that need them, whichever way the others have ended:   *)
(* answer, no data, error, cancellation of their request.                  *)
(***************************************************************************)
LocksAccounted ==
    \A s \in Stocks : \A c \in Children :
        lock[s] = c <=> StockOf(c) = s /\ pc[c] \in Refreshing

PermitsAccounted == permits + Cardinality(Fetching) = Concurrency

ResourcesAccounted == LocksAccounted /\ PermitsAccounted

(***************************************************************************)
(* A stock without per, pbr and roe, or without a volatility, is never     *)
(* answered with metrics, also when the sync empties or the warmer fills   *)
(* the row while the child waits ("0으로 대체하지 않음").                  *)
(***************************************************************************)
MissingNeverScored ==
    \A c \in Children : pc[c] = "answered" => local[c].fin /\ local[c].stamp > 0

(***************************************************************************)
(* Two requests served by the same write of a stock's metrics agree on     *)
(* them once rounded to what the column keeps.                             *)
(***************************************************************************)
SameWriteSameRank ==
    \A c, d \in Children :
        /\ StockOf(c) = StockOf(d)
        /\ pc[c] = "answered"
        /\ pc[d] = "answered"
        /\ local[c].stamp = local[d].stamp
        => Stored(local[c].vol) = Stored(local[d].vol)

(***************************************************************************)
(* Only a request that failed leaves children running behind it: one that  *)
(* returned or was cancelled has none that could still write the cache.    *)
(***************************************************************************)
NoChildOutlivesItsCall ==
    \A c \in Children :
        pc[c] \in Waiting \union Refreshing => call[c[1]] \in {"open", "raised"}

(***************************************************************************)
(* The reader refreshes a row only after its previous refresh of that row  *)
(* has passed the TTL, however many requests miss at once and whatever the *)
(* warmer and the sync write in between.                                   *)
(***************************************************************************)
RefreshOnlyAfterExpiry ==
    [][\A s \in Stocks :
          lastRefresh'[s] # lastRefresh[s] => lastRefresh[s] <= horizon]_vars

(***************************************************************************)
(* Every call of get_metrics_many comes to an end: no child waits for ever *)
(* for a lock or a permit that an ended one has kept.                      *)
(***************************************************************************)
EveryCallEnds ==
    \A r \in Requests : call[r] = "open" ~> call[r] # "open"

(***************************************************************************)
(* So does every child, those a failed gather left behind included.        *)
(***************************************************************************)
EveryChildEnds ==
    \A c \in Children : pc[c] = "start" ~> pc[c] \in Ended
=============================================================================
