-------------------------- MODULE MetricsReaderProofs --------------------------
(* What MetricsReader promises, for any number of requests and stocks, any *)
(* volatilities and any number of permits.                                 *)
EXTENDS MetricsReader, FiniteSetTheorems, TLAPS

\* What a child has already tested of the values it goes on with.
Tested ==
    \A c \in Children :
        /\ pc[c] \in {"permit", "fetch", "write", "written"} => local[c].fin
        /\ pc[c] = "written" => local[c].stamp > 0

\* Under the lock the child's copy, as the row, is not older than the last
\* refresh, and a child past the test has seen that refresh expired.
RefreshSeen ==
    /\ \A s \in Stocks : row[s].stamp >= lastRefresh[s]
    /\ \A c \in Children :
          /\ pc[c] = "decide" => local[c].stamp >= lastRefresh[StockOf(c)]
          /\ pc[c] \in {"permit", "fetch", "write"} =>
                lastRefresh[StockOf(c)] <= horizon

\* A request that has not begun has no children.
IdleHasNone == \A c \in Children : call[c[1]] = "idle" => pc[c] = "off"

IInv ==
    /\ TypeOK
    /\ IdleHasNone
    /\ LocksAccounted
    /\ PermitsAccounted
    /\ NoChildOutlivesItsCall
    /\ MissingNeverScored
    /\ Tested
    /\ RefreshSeen

LEMMA ChildHasStock ==
    ASSUME NEW c \in Children
    PROVE  StockOf(c) \in Stocks /\ c[1] \in Requests /\ c # NoChild
  BY ReaderAssumption, SMT DEF Children, StockOf

LEMMA FetchingFinite == IsFiniteSet(Fetching)
<1>1. IsFiniteSet(Children)
  BY ReaderAssumption, FS_Product DEF Children
<1> QED
  BY <1>1, FS_Subset DEF Fetching

LEMMA StoredType == \A v \in Nat : Stored(v) \in Nat
<1> SUFFICES ASSUME NEW v \in Nat
             PROVE  Stored(v) \in Nat
  OBVIOUS
<1>1. Unit \div 2 \in Nat
  BY ReaderAssumption, SMT
<1>2. (v + Unit \div 2) \div Unit \in Nat
  BY <1>1, ReaderAssumption, SMT
<1> QED
  BY <1>2, ReaderAssumption, SMT DEF Stored

LEMMA InitIInv == Init => IInv
<1> SUFFICES ASSUME Init
             PROVE  IInv
  OBVIOUS
<1>1. TypeOK
  BY ReaderAssumption, ChildHasStock, SMT DEF Init, TypeOK, Row, PCs, Waiting,
     Refreshing, Ended
<1>2. Fetching = {}
  BY SMT DEF Init, Fetching
<1>3. PermitsAccounted
  BY <1>2, FS_EmptySet, ReaderAssumption, SMT DEF Init, PermitsAccounted
<1>4. LocksAccounted
  BY ChildHasStock, SMT DEF Init, LocksAccounted, Refreshing
<1>5. NoChildOutlivesItsCall /\ IdleHasNone /\ MissingNeverScored /\ Tested
  BY ChildHasStock, SMT DEF Init, NoChildOutlivesItsCall, IdleHasNone, MissingNeverScored,
     Tested, Waiting, Refreshing
<1>6. RefreshSeen
  BY ChildHasStock, SMT DEF Init, RefreshSeen
<1> QED
  BY <1>1, <1>3, <1>4, <1>5, <1>6 DEF IInv

-----------------------------------------------------------------------------
(* Permits: a step that moves no child to or from "fetch" keeps the count, *)
(* one child more or less moves it by one.                                 *)

LEMMA PermitsSame ==
    ASSUME PermitsAccounted, Fetching' = Fetching, permits' = permits
    PROVE  PermitsAccounted'
  BY DEF PermitsAccounted

LEMMA PermitTaken ==
    ASSUME TypeOK, PermitsAccounted, NEW c \in Children, pc[c] = "permit",
           TakePermit, Fetching' = Fetching \union {c}
    PROVE  PermitsAccounted' /\ permits' \in 0 .. Concurrency
<1>1. c \notin Fetching
  BY DEF Fetching
<1>2. Cardinality(Fetching') = Cardinality(Fetching) + 1
  BY <1>1, FetchingFinite, FS_AddElement
<1>3. Cardinality(Fetching) \in Nat
  BY FetchingFinite, FS_CardinalityType
<1> QED
  BY <1>2, <1>3, ReaderAssumption, SMT DEF TypeOK, PermitsAccounted, TakePermit

LEMMA PermitGiven ==
    ASSUME TypeOK, PermitsAccounted, NEW c \in Children, pc[c] = "fetch",
           GivePermit, Fetching' = Fetching \ {c}
    PROVE  PermitsAccounted' /\ permits' \in 0 .. Concurrency
<1>1. c \in Fetching
  BY DEF Fetching
<1>2. /\ Cardinality(Fetching') = Cardinality(Fetching) - 1
      /\ IsFiniteSet(Fetching')
  BY <1>1, FetchingFinite, FS_RemoveElement
<1>3. Cardinality(Fetching) \in Nat /\ Cardinality(Fetching') \in Nat
  BY <1>2, FetchingFinite, FS_CardinalityType
<1> QED
  BY <1>2, <1>3, ReaderAssumption, SMT DEF TypeOK, PermitsAccounted, GivePermit

\* update_market_metrics leaves rows of the type, in the order of the stamps.
LEMMA SetMarketMetricsType ==
    ASSUME TypeOK, NEW s \in Stocks, NEW v \in Nat, SetMarketMetrics(s, v)
    PROVE  /\ row' \in [Stocks -> Row]
           /\ clock' = clock + 1
           /\ clock \in Nat
           /\ row'[s].stamp = clock + 1
           /\ \A x \in Stocks : x # s => row'[x] = row[x]
<1>1. row[s] \in Row /\ Stored(v) \in Nat /\ clock \in Nat /\ clock + 1 \in Nat
  BY StoredType, SMT DEF TypeOK
<1> DEFINE r1 == [row[s] EXCEPT !.vol = Stored(v)]
           r2 == [r1 EXCEPT !.stamp = clock + 1]
<1>2. r1 \in Row
  BY <1>1, SMT DEF Row
<1> HIDE DEF r1
<1>3. r2 \in Row /\ r2.stamp = clock + 1
  BY <1>1, <1>2, SMT DEF Row
<1> DEFINE q == [row EXCEPT ![s] = r1]
<1>4. /\ q \in [Stocks -> Row]
      /\ q[s] = r1
      /\ \A x \in Stocks : x # s => q[x] = row[x]
  BY <1>2, SMT DEF TypeOK
<1>5. row' = [q EXCEPT ![s] = r2]
  <2>1. row' = [q EXCEPT ![s].stamp = clock + 1]
    BY DEF SetMarketMetrics, r1
  <2> QED
    BY <2>1, <1>4
<1> HIDE DEF q, r2
<1>6. clock' = clock + 1
  BY DEF SetMarketMetrics
<1> QED
  BY <1>1, <1>3, <1>4, <1>5, <1>6, SMT DEF TypeOK

\* A child's copy stays a row when its volatility or its stamp is replaced.
LEMMA LocalType ==
    ASSUME TypeOK, NEW c \in Children, NEW n \in Nat
    PROVE  /\ [local EXCEPT ![c].vol = n] \in [Children -> Row]
           /\ [local EXCEPT ![c].stamp = n] \in [Children -> Row]
<1>1. local[c] \in Row
  BY SMT DEF TypeOK
<1>2. [local[c] EXCEPT !.vol = n] \in Row /\ [local[c] EXCEPT !.stamp = n] \in Row
  BY <1>1, SMT DEF Row
<1> QED
  BY <1>2, SMT DEF TypeOK

\* A child that moves, moves to a place a child can be.
LEMMA MoveType ==
    ASSUME TypeOK, NEW c \in Children, NEW p \in PCs
    PROVE  [pc EXCEPT ![c] = p] \in [Children -> PCs]
  BY SMT DEF TypeOK

-----------------------------------------------------------------------------
(* The steps of a request and of the other writers.                        *)

LEMMA QueryKeeps ==
    ASSUME IInv, NEW r \in Requests, Query(r)
    PROVE  IInv'
<1> USE DEF IInv
<1>1. PermitsAccounted'
  <2>1. Fetching' = Fetching /\ permits' = permits
    BY ChildHasStock, SMT DEF Query, Fresh, Fetching, TypeOK, IdleHasNone
  <2> QED
    BY <2>1, PermitsSame
<1>2. TypeOK'
  <2>1. pc' \in [Children -> PCs]
    BY ChildHasStock, SMT DEF Query, TypeOK, PCs, Waiting, Refreshing, Ended
  <2>2. local' \in [Children -> Row]
    BY ChildHasStock, StoredType, SMT DEF Query, TypeOK, Row, PCs, Waiting, Refreshing, Ended
  <2>3. call' \in [Requests -> {"idle", "open", "returned", "raised", "cancelled"}]
    BY ChildHasStock, StoredType, SMT DEF Query, TypeOK, Row, PCs, Waiting, Refreshing, Ended
  <2> QED
    BY <2>1, <2>2, <2>3, <1>1, ReaderAssumption, SMT DEF Query, TypeOK
<1>3. LocksAccounted'
  <2>1. \A c \in Children : pc[c] \in Refreshing <=> pc'[c] \in Refreshing
    BY SMT DEF Query, TypeOK, IdleHasNone, Children, Refreshing
  <2> QED
    BY <2>1 DEF LocksAccounted, Query
<1>4. NoChildOutlivesItsCall' /\ IdleHasNone'
  BY ChildHasStock, SMT DEF Query, Fresh, NoChildOutlivesItsCall,
     IdleHasNone, TypeOK, Waiting, Refreshing
<1>5. MissingNeverScored' /\ Tested'
  <2>1. \A c \in Children :
          \/ pc'[c] = pc[c] /\ local'[c] = local[c]
          \/ pc'[c] \in {"off", "start"}
    BY SMT DEF Query, TypeOK, IdleHasNone, Children
  <2> QED
    BY <2>1, SMT DEF MissingNeverScored, Tested
<1>6. RefreshSeen'
  BY ChildHasStock, SMT DEF Query, Fresh, RefreshSeen, IdleHasNone,
     TypeOK, Row
<1> QED
  BY <1>1, <1>2, <1>3, <1>4, <1>5, <1>6

LEMMA ReturnKeeps ==
    ASSUME IInv, NEW r \in Requests, GatherReturns(r)
    PROVE  IInv'
<1> USE DEF IInv
<1>1. PermitsAccounted'
  <2>1. Fetching' = Fetching /\ permits' = permits
    BY ChildHasStock, SMT DEF GatherReturns, ChildrenOf, Fetching, TypeOK, IdleHasNone
  <2> QED
    BY <2>1, PermitsSame
<1>2. TypeOK'
  BY <1>1, ChildHasStock, StoredType, ReaderAssumption, SMT
     DEF GatherReturns, ChildrenOf, TypeOK, Row, PCs, Waiting, Refreshing, Ended
<1>3. LocksAccounted'
  BY ChildHasStock, SMT DEF GatherReturns, ChildrenOf, LocksAccounted, TypeOK, Refreshing
<1>4. NoChildOutlivesItsCall' /\ IdleHasNone'
  <2>1. \A c \in Children : c[1] = r =>
          pc[c] \notin Waiting \union Refreshing
    <3> SUFFICES ASSUME NEW c \in Children, c[1] = r
                 PROVE  pc[c] \notin Waiting \union Refreshing
      OBVIOUS
    <3>1. c \in ChildrenOf(r)
      BY SMT DEF Children, ChildrenOf
    <3> QED
      BY <3>1, SMT DEF GatherReturns, Waiting, Refreshing
  <2>2. /\ UNCHANGED pc
        /\ \A q \in Requests : q # r => call'[q] = call[q]
        /\ call'[r] = "returned"
    BY SMT DEF GatherReturns, TypeOK
  <2> QED
    BY <2>1, <2>2, ChildHasStock, SMT DEF NoChildOutlivesItsCall, IdleHasNone
<1>5. MissingNeverScored' /\ Tested'
  BY ChildHasStock, SMT DEF GatherReturns, ChildrenOf, MissingNeverScored, Tested,
     IdleHasNone, TypeOK, Row
<1>6. RefreshSeen'
  BY ChildHasStock, SMT DEF GatherReturns, ChildrenOf, RefreshSeen, IdleHasNone,
     TypeOK, Row
<1> QED
  BY <1>1, <1>2, <1>3, <1>4, <1>5, <1>6

LEMMA WarmKeeps ==
    ASSUME IInv, NEW s \in Stocks, Warm(s)
    PROVE  IInv'
<1> USE DEF IInv
<1>1. PermitsAccounted'
  <2>1. Fetching' = Fetching /\ permits' = permits
    BY ChildHasStock, SMT DEF Warm, SetMarketMetrics, Fetching, TypeOK, IdleHasNone
  <2> QED
    BY <2>1, PermitsSame
<1>2. TypeOK'
  <2>1. row' \in [Stocks -> Row] /\ clock' \in Nat /\ clock' >= clock
    <3>1. PICK v \in Observations : SetMarketMetrics(s, v)
      BY DEF Warm
    <3>2. v \in Nat
      BY ReaderAssumption
    <3> QED
      BY <3>1, <3>2, SetMarketMetricsType, SMT DEF TypeOK
  <2> QED
    BY <2>1, <1>1, ReaderAssumption, SMT DEF Warm, TypeOK
<1>3. LocksAccounted'
  BY ChildHasStock, SMT DEF Warm, SetMarketMetrics, LocksAccounted, TypeOK, Refreshing
<1>4. NoChildOutlivesItsCall' /\ IdleHasNone'
  BY ChildHasStock, SMT DEF Warm, SetMarketMetrics, NoChildOutlivesItsCall,
     IdleHasNone, TypeOK, Waiting, Refreshing
<1>5. MissingNeverScored' /\ Tested'
  BY ChildHasStock, SMT DEF Warm, SetMarketMetrics, MissingNeverScored, Tested,
     IdleHasNone, TypeOK, Row
<1>6. RefreshSeen'
  BY ChildHasStock, SMT DEF Warm, SetMarketMetrics, RefreshSeen, IdleHasNone,
     TypeOK, Row
<1> QED
  BY <1>1, <1>2, <1>3, <1>4, <1>5, <1>6

LEMMA UpsertKeeps ==
    ASSUME IInv, NEW s \in Stocks, Upsert(s)
    PROVE  IInv'
<1> USE DEF IInv
<1>1. PermitsAccounted'
  <2>1. Fetching' = Fetching /\ permits' = permits
    BY ChildHasStock, SMT DEF Upsert, Fetching, TypeOK, IdleHasNone
  <2> QED
    BY <2>1, PermitsSame
<1>2. TypeOK'
  BY <1>1, ChildHasStock, StoredType, ReaderAssumption, SMT
     DEF Upsert, TypeOK, Row, PCs, Waiting, Refreshing, Ended
<1>3. LocksAccounted'
  BY ChildHasStock, SMT DEF Upsert, LocksAccounted, TypeOK, Refreshing
<1>4. NoChildOutlivesItsCall' /\ IdleHasNone'
  BY ChildHasStock, SMT DEF Upsert, NoChildOutlivesItsCall,
     IdleHasNone, TypeOK, Waiting, Refreshing
<1>5. MissingNeverScored' /\ Tested'
  BY ChildHasStock, SMT DEF Upsert, MissingNeverScored, Tested,
     IdleHasNone, TypeOK, Row
<1>6. RefreshSeen'
  BY ChildHasStock, SMT DEF Upsert, RefreshSeen, IdleHasNone,
     TypeOK, Row
<1> QED
  BY <1>1, <1>2, <1>3, <1>4, <1>5, <1>6

LEMMA ExpireKeeps ==
    ASSUME IInv, Expire
    PROVE  IInv'
<1> USE DEF IInv
<1>1. PermitsAccounted'
  <2>1. Fetching' = Fetching /\ permits' = permits
    BY ChildHasStock, SMT DEF Expire, Fetching, TypeOK, IdleHasNone
  <2> QED
    BY <2>1, PermitsSame
<1>2. TypeOK'
  BY <1>1, ChildHasStock, StoredType, ReaderAssumption, SMT
     DEF Expire, TypeOK, Row, PCs, Waiting, Refreshing, Ended
<1>3. LocksAccounted'
  BY ChildHasStock, SMT DEF Expire, LocksAccounted, TypeOK, Refreshing
<1>4. NoChildOutlivesItsCall' /\ IdleHasNone'
  BY ChildHasStock, SMT DEF Expire, NoChildOutlivesItsCall,
     IdleHasNone, TypeOK, Waiting, Refreshing
<1>5. MissingNeverScored' /\ Tested'
  BY ChildHasStock, SMT DEF Expire, MissingNeverScored, Tested,
     IdleHasNone, TypeOK, Row
<1>6. RefreshSeen'
  BY ChildHasStock, SMT DEF Expire, RefreshSeen, IdleHasNone,
     TypeOK, Row
<1> QED
  BY <1>1, <1>2, <1>3, <1>4, <1>5, <1>6

-----------------------------------------------------------------------------
(* The steps of a child.                                                   *)

LEMMA StartKeeps ==
    ASSUME IInv, NEW c \in Children, Start(c)
    PROVE  IInv'
<1> USE DEF IInv
<1>1. PermitsAccounted'
  <2>1. Fetching' = Fetching /\ permits' = permits
    BY ChildHasStock, SMT DEF Start, Check, End, Fresh, Fetching, TypeOK, IdleHasNone
  <2> QED
    BY <2>1, PermitsSame
<1>2. TypeOK'
  <2>1. pc' \in [Children -> PCs]
    <3>1. \E p \in {"none", "answered", "lock"} : pc' = [pc EXCEPT ![c] = p]
      BY DEF Start, Check, End
    <3> QED
      BY <3>1, MoveType DEF PCs, Waiting, Refreshing, Ended
  <2>2. lock' \in [Stocks -> Children \union {NoChild}]
    BY ChildHasStock, SMT DEF Start, Check, End, TypeOK
  <2> QED
    BY <2>1, <2>2, <1>1, ReaderAssumption, SMT DEF Start, TypeOK
<1>3. LocksAccounted'
  BY ChildHasStock, SMT DEF Start, Check, End, Fresh, LocksAccounted, TypeOK, Refreshing
<1>4. NoChildOutlivesItsCall' /\ IdleHasNone'
  BY ChildHasStock, SMT DEF Start, Check, End, Fresh, NoChildOutlivesItsCall,
     IdleHasNone, TypeOK, Waiting, Refreshing
<1>5. MissingNeverScored' /\ Tested'
  BY ChildHasStock, SMT DEF Start, Check, End, Fresh, MissingNeverScored, Tested,
     IdleHasNone, TypeOK, Row
<1>6. RefreshSeen'
  BY ChildHasStock, SMT DEF Start, Check, End, Fresh, RefreshSeen, IdleHasNone,
     TypeOK, Row
<1> QED
  BY <1>1, <1>2, <1>3, <1>4, <1>5, <1>6

LEMMA RecheckKeeps ==
    ASSUME IInv, NEW c \in Children, Recheck(c)
    PROVE  IInv'
<1> USE DEF IInv
<1>1. PermitsAccounted'
  <2>1. Fetching' = Fetching /\ permits' = permits
    BY ChildHasStock, SMT DEF Recheck, Raise, End, Fetching, TypeOK, IdleHasNone
  <2> QED
    BY <2>1, PermitsSame
<1>2. TypeOK'
  <2>1. pc' \in [Children -> PCs]
    BY ChildHasStock, SMT DEF Recheck, Raise, End, TypeOK, PCs, Waiting, Refreshing, Ended
  <2>2. lock' \in [Stocks -> Children \union {NoChild}]
    BY ChildHasStock, SMT DEF Recheck, Raise, End, TypeOK
  <2>3. local' \in [Children -> Row]
    BY ChildHasStock, StoredType, SMT DEF Recheck, Raise, End, TypeOK, Row, PCs, Waiting, Refreshing, Ended
  <2>4. call' \in [Requests -> {"idle", "open", "returned", "raised", "cancelled"}]
    BY ChildHasStock, StoredType, SMT DEF Recheck, Raise, End, TypeOK, Row, PCs, Waiting, Refreshing, Ended
  <2> QED
    BY <2>1, <2>2, <2>3, <2>4, <1>1, ReaderAssumption, SMT DEF Recheck, TypeOK
<1>3. LocksAccounted'
  BY ChildHasStock, SMT DEF Recheck, Raise, End, LocksAccounted, TypeOK, Refreshing
<1>4. NoChildOutlivesItsCall' /\ IdleHasNone'
  BY ChildHasStock, SMT DEF Recheck, Raise, End, NoChildOutlivesItsCall,
     IdleHasNone, TypeOK, Waiting, Refreshing
<1>5. MissingNeverScored' /\ Tested'
  <2>1. pc'[c] \in {"decide", "failed"}
    BY SMT DEF Recheck, Raise, End, TypeOK
  <2>2. \A d \in Children : d # c => pc'[d] = pc[d] /\ local'[d] = local[d]
    BY SMT DEF Recheck, Raise, End, TypeOK
  <2> QED
    BY <2>1, <2>2, SMT DEF MissingNeverScored, Tested
<1>6. RefreshSeen'
  BY ChildHasStock, SMT DEF Recheck, Raise, End, RefreshSeen, IdleHasNone,
     TypeOK, Row
<1> QED
  BY <1>1, <1>2, <1>3, <1>4, <1>5, <1>6

LEMMA DecideKeeps ==
    ASSUME IInv, NEW c \in Children, Decide(c)
    PROVE  IInv'
<1> USE DEF IInv
<1>1. PermitsAccounted'
  <2>1. Fetching' = Fetching /\ permits' = permits
    BY ChildHasStock, SMT DEF Decide, Check, End, Fresh, Fetching, TypeOK, IdleHasNone
  <2> QED
    BY <2>1, PermitsSame
<1>2. TypeOK'
  <2>1. pc' \in [Children -> PCs]
    <3>1. \E p \in {"none", "answered", "permit"} : pc' = [pc EXCEPT ![c] = p]
      BY DEF Decide, Check, End
    <3> QED
      BY <3>1, MoveType DEF PCs, Waiting, Refreshing, Ended
  <2>2. lock' \in [Stocks -> Children \union {NoChild}]
    BY ChildHasStock, SMT DEF Decide, Check, End, TypeOK
  <2> QED
    BY <2>1, <2>2, <1>1, ReaderAssumption, SMT DEF Decide, TypeOK
<1>3. LocksAccounted'
  BY ChildHasStock, SMT DEF Decide, Check, End, Fresh, LocksAccounted, TypeOK, Refreshing
<1>4. NoChildOutlivesItsCall' /\ IdleHasNone'
  BY ChildHasStock, SMT DEF Decide, Check, End, Fresh, NoChildOutlivesItsCall,
     IdleHasNone, TypeOK, Waiting, Refreshing
<1>5. MissingNeverScored' /\ Tested'
  BY ChildHasStock, SMT DEF Decide, Check, End, Fresh, MissingNeverScored, Tested,
     IdleHasNone, TypeOK, Row
<1>6. RefreshSeen'
  BY ChildHasStock, SMT DEF Decide, Check, End, Fresh, RefreshSeen, IdleHasNone,
     TypeOK, Row
<1> QED
  BY <1>1, <1>2, <1>3, <1>4, <1>5, <1>6

LEMMA FetchKeeps ==
    ASSUME IInv, NEW c \in Children, Fetch(c)
    PROVE  IInv'
<1> USE DEF IInv
<1>1. PermitsAccounted' /\ permits' \in 0 .. Concurrency
  <2>1. Fetching' = Fetching \union {c} /\ pc[c] = "permit" /\ TakePermit
    BY SMT DEF Fetch, TakePermit, Fetching, TypeOK
  <2> QED
    BY <2>1, PermitTaken
<1>2. TypeOK'
  BY <1>1, ChildHasStock, StoredType, ReaderAssumption, SMT
     DEF Fetch, TakePermit, TypeOK, Row, PCs, Waiting, Refreshing, Ended
<1>3. LocksAccounted'
  BY ChildHasStock, SMT DEF Fetch, TakePermit, LocksAccounted, TypeOK, Refreshing
<1>4. NoChildOutlivesItsCall' /\ IdleHasNone'
  BY ChildHasStock, SMT DEF Fetch, TakePermit, NoChildOutlivesItsCall,
     IdleHasNone, TypeOK, Waiting, Refreshing
<1>5. MissingNeverScored' /\ Tested'
  BY ChildHasStock, SMT DEF Fetch, TakePermit, MissingNeverScored, Tested,
     IdleHasNone, TypeOK, Row
<1>6. RefreshSeen'
  BY ChildHasStock, SMT DEF Fetch, TakePermit, RefreshSeen, IdleHasNone,
     TypeOK, Row
<1> QED
  BY <1>1, <1>2, <1>3, <1>4, <1>5, <1>6

LEMMA ReplyKeeps ==
    ASSUME IInv, NEW c \in Children, Reply(c)
    PROVE  IInv'
<1> USE DEF IInv
<1>1. PermitsAccounted' /\ permits' \in 0 .. Concurrency
  <2>1. Fetching' = Fetching \ {c} /\ pc[c] = "fetch" /\ GivePermit
    BY SMT DEF Reply, GivePermit, Raise, End, Fetching, TypeOK
  <2> QED
    BY <2>1, PermitGiven
<1>2. TypeOK'
  <2>1. pc' \in [Children -> PCs]
    <3>1. \E p \in {"write", "none", "failed"} : pc' = [pc EXCEPT ![c] = p]
      BY DEF Reply, Raise, End
    <3> QED
      BY <3>1, MoveType DEF PCs, Waiting, Refreshing, Ended
  <2>2. lock' \in [Stocks -> Children \union {NoChild}]
    BY ChildHasStock, SMT DEF Reply, Raise, End, TypeOK
  <2>3. local' \in [Children -> Row]
    <3>1. \/ UNCHANGED local
          \/ \E v \in Observations : local' = [local EXCEPT ![c].vol = v]
      BY DEF Reply
    <3>2. CASE UNCHANGED local
      BY <3>2 DEF TypeOK
    <3>3. ASSUME NEW v \in Observations, local' = [local EXCEPT ![c].vol = v]
          PROVE  local' \in [Children -> Row]
      <4>1. v \in Nat
        BY ReaderAssumption
      <4> QED
        BY <3>3, <4>1, LocalType
    <3> QED
      BY <3>1, <3>2, <3>3
  <2>4. call' \in [Requests -> {"idle", "open", "returned", "raised", "cancelled"}]
    BY ChildHasStock, StoredType, SMT DEF Reply, Raise, End, TypeOK, Row, PCs, Waiting, Refreshing, Ended
  <2> QED
    BY <2>1, <2>2, <2>3, <2>4, <1>1, ReaderAssumption, SMT DEF Reply, TypeOK
<1>3. LocksAccounted'
  BY ChildHasStock, SMT DEF Reply, GivePermit, Raise, End, LocksAccounted, TypeOK, Refreshing
<1>4. NoChildOutlivesItsCall' /\ IdleHasNone'
  BY ChildHasStock, SMT DEF Reply, GivePermit, Raise, End, NoChildOutlivesItsCall,
     IdleHasNone, TypeOK, Waiting, Refreshing
<1>5. MissingNeverScored' /\ Tested'
  BY ChildHasStock, SMT DEF Reply, GivePermit, Raise, End, MissingNeverScored, Tested,
     IdleHasNone, TypeOK, Row
<1>6. RefreshSeen'
  BY ChildHasStock, SMT DEF Reply, GivePermit, Raise, End, RefreshSeen, IdleHasNone,
     TypeOK, Row
<1> QED
  BY <1>1, <1>2, <1>3, <1>4, <1>5, <1>6

LEMMA WriteKeeps ==
    ASSUME IInv, NEW c \in Children, Write(c)
    PROVE  IInv'
<1> USE DEF IInv
<1>1. PermitsAccounted'
  <2>1. Fetching' = Fetching /\ permits' = permits
    BY ChildHasStock, SMT DEF Write, SetMarketMetrics, Raise, End, Fetching, TypeOK, IdleHasNone
  <2> QED
    BY <2>1, PermitsSame
<1>2. TypeOK'
  <2>1. pc' \in [Children -> PCs]
    BY ChildHasStock, SMT DEF Write, Raise, End, TypeOK, PCs, Waiting, Refreshing, Ended
  <2>2. lock' \in [Stocks -> Children \union {NoChild}]
    BY ChildHasStock, SMT DEF Write, Raise, End, TypeOK
  <2>3. local' \in [Children -> Row]
    <3>1. local' = local \/ local' = [local EXCEPT ![c].stamp = clock + 1]
      BY DEF Write
    <3>2. clock + 1 \in Nat
      BY SMT DEF TypeOK
    <3>3. CASE local' = local
      BY <3>3 DEF TypeOK
    <3>4. CASE local' = [local EXCEPT ![c].stamp = clock + 1]
      BY <3>2, <3>4, LocalType
    <3> QED
      BY <3>1, <3>3, <3>4
  <2>4. call' \in [Requests -> {"idle", "open", "returned", "raised", "cancelled"}]
    BY ChildHasStock, StoredType, SMT DEF Write, SetMarketMetrics, Raise, End, TypeOK, Row, PCs, Waiting, Refreshing, Ended
  <2>5. row' \in [Stocks -> Row] /\ clock' \in Nat /\ clock' >= clock
    <3>1. local[c].vol \in Nat
      BY SMT DEF TypeOK, Row
    <3>2. \/ UNCHANGED <<row, clock>>
          \/ SetMarketMetrics(StockOf(c), local[c].vol)
      BY DEF Write
    <3> QED
      BY <3>1, <3>2, ChildHasStock, SetMarketMetricsType, SMT DEF TypeOK
  <2>6. lastRefresh' \in [Stocks -> 0 .. clock']
    <3>1. \/ /\ clock' = clock + 1
             /\ lastRefresh' = [lastRefresh EXCEPT ![StockOf(c)] = clock + 1]
          \/ UNCHANGED <<clock, lastRefresh>>
      BY DEF Write, SetMarketMetrics
    <3> QED
      BY <3>1, ChildHasStock, SMT DEF TypeOK
  <2> QED
    BY <2>1, <2>2, <2>3, <2>4, <2>5, <2>6, <1>1, ReaderAssumption, SMT DEF Write, TypeOK
<1>3. LocksAccounted'
  BY ChildHasStock, SMT DEF Write, SetMarketMetrics, Raise, End, LocksAccounted, TypeOK, Refreshing
<1>4. NoChildOutlivesItsCall' /\ IdleHasNone'
  BY ChildHasStock, SMT DEF Write, SetMarketMetrics, Raise, End, NoChildOutlivesItsCall,
     IdleHasNone, TypeOK, Waiting, Refreshing
<1>5. MissingNeverScored' /\ Tested'
  <2>1. /\ pc[c] = "write"
        /\ \/ /\ pc' = [pc EXCEPT ![c] = "written"]
              /\ local' = [local EXCEPT ![c].stamp = clock + 1]
           \/ /\ pc' = [pc EXCEPT ![c] = "failed"]
              /\ local' = local
    BY DEF Write, Raise, End
  <2>2. local[c] \in Row /\ clock + 1 > 0
    BY SMT DEF TypeOK
  <2>3. MissingNeverScored'
    BY <2>1, <2>2, SMT DEF MissingNeverScored, TypeOK, Row
  <2>4. Tested'
    BY <2>1, <2>2, SMT DEF Tested, TypeOK, Row
  <2> QED
    BY <2>3, <2>4
<1>6. RefreshSeen'
  <2>1. CASE Raise(c) /\ UNCHANGED <<row, clock, local, lastRefresh>>
    BY <2>1, SMT DEF Write, Raise, End, RefreshSeen, TypeOK
  <2>2. CASE /\ SetMarketMetrics(StockOf(c), local[c].vol)
             /\ pc' = [pc EXCEPT ![c] = "written"]
             /\ lastRefresh' = [lastRefresh EXCEPT ![StockOf(c)] = clock + 1]
             /\ local' = [local EXCEPT ![c].stamp = clock + 1]
    <3>1. local[c].vol \in Nat
      BY SMT DEF TypeOK, Row
    <3>2. \A s \in Stocks : row'[s].stamp >= lastRefresh'[s]
      BY <2>2, <3>1, ChildHasStock, SetMarketMetricsType, SMT
         DEF RefreshSeen, TypeOK
    \* The lock: no other child of the stock is between its look and its write.
    <3>3. \A d \in Children : d # c /\ StockOf(d) = StockOf(c) =>
             pc[d] \notin Refreshing
      BY ChildHasStock, SMT DEF Write, LocksAccounted, Refreshing
    <3>4. \A d \in Children : d # c => pc'[d] = pc[d] /\ local'[d] = local[d]
      BY <2>2, SMT DEF TypeOK
    <3>5. \A s \in Stocks : s # StockOf(c) => lastRefresh'[s] = lastRefresh[s]
      BY <2>2, SMT DEF TypeOK
    <3>6. pc'[c] = "written"
      BY <2>2, SMT DEF TypeOK
    <3>7. horizon' = horizon
      BY DEF Write
    <3>8. \A d \in Children :
            /\ pc'[d] = "decide" => local'[d].stamp >= lastRefresh'[StockOf(d)]
            /\ pc'[d] \in {"permit", "fetch", "write"} =>
                  lastRefresh'[StockOf(d)] <= horizon'
      <4> SUFFICES ASSUME NEW d \in Children, d # c
                   PROVE  /\ pc'[d] = "decide" =>
                                local'[d].stamp >= lastRefresh'[StockOf(d)]
                          /\ pc'[d] \in {"permit", "fetch", "write"} =>
                                lastRefresh'[StockOf(d)] <= horizon'
        BY <3>6, SMT
      <4>1. CASE StockOf(d) = StockOf(c)
        BY <4>1, <3>3, <3>4, SMT DEF Refreshing
      <4>2. CASE StockOf(d) # StockOf(c)
        BY <4>2, <3>4, <3>5, <3>7, ChildHasStock DEF RefreshSeen
      <4> QED
        BY <4>1, <4>2
    <3> QED
      BY <3>2, <3>8 DEF RefreshSeen
  <2> QED
    BY <2>1, <2>2 DEF Write
<1> QED
  BY <1>1, <1>2, <1>3, <1>4, <1>5, <1>6

LEMMA AnswerKeeps ==
    ASSUME IInv, NEW c \in Children, Answer(c)
    PROVE  IInv'
<1> USE DEF IInv
<1>1. PermitsAccounted'
  <2>1. Fetching' = Fetching /\ permits' = permits
    BY ChildHasStock, SMT DEF Answer, End, Fetching, TypeOK, IdleHasNone
  <2> QED
    BY <2>1, PermitsSame
<1>2. TypeOK'
  BY <1>1, ChildHasStock, StoredType, ReaderAssumption, SMT
     DEF Answer, End, TypeOK, Row, PCs, Waiting, Refreshing, Ended
<1>3. LocksAccounted'
  BY ChildHasStock, SMT DEF Answer, End, LocksAccounted, TypeOK, Refreshing
<1>4. NoChildOutlivesItsCall' /\ IdleHasNone'
  BY ChildHasStock, SMT DEF Answer, End, NoChildOutlivesItsCall,
     IdleHasNone, TypeOK, Waiting, Refreshing
<1>5. MissingNeverScored' /\ Tested'
  BY ChildHasStock, SMT DEF Answer, End, MissingNeverScored, Tested,
     IdleHasNone, TypeOK, Row
<1>6. RefreshSeen'
  BY ChildHasStock, SMT DEF Answer, End, RefreshSeen, IdleHasNone,
     TypeOK, Row
<1> QED
  BY <1>1, <1>2, <1>3, <1>4, <1>5, <1>6

-----------------------------------------------------------------------------
(* A cancellation: the locks and permits of its children are let go.       *)

LEMMA CancelKeeps ==
    ASSUME IInv, NEW r \in Requests, Cancel(r)
    PROVE  IInv'
<1> USE DEF IInv
<1> DEFINE running == {c \in ChildrenOf(r) :
                         pc[c] \in Waiting \union Refreshing}
<1>1. /\ pc' = [c \in Children |-> IF c \in running THEN "cancelled" ELSE pc[c]]
      /\ lock' = [s \in Stocks |->
                    IF lock[s] \in running THEN NoChild ELSE lock[s]]
      /\ call' = [call EXCEPT ![r] = "cancelled"]
      /\ permits' = permits + Cardinality(Fetching \intersect running)
      /\ UNCHANGED <<row, clock, horizon, local, lastRefresh>>
  BY DEF Cancel
<1>2. \A c \in Children : c[1] = r /\ pc[c] \in Waiting \union Refreshing
                         <=> c \in running
  BY SMT DEF Children, ChildrenOf
<1> HIDE DEF running
<1>3. PermitsAccounted' /\ permits' \in 0 .. Concurrency
  <2>1. Fetching' = Fetching \ running
    BY <1>1, SMT DEF Fetching
  <2>2. /\ IsFiniteSet(Fetching')
        /\ Cardinality(Fetching') =
              Cardinality(Fetching) - Cardinality(Fetching \intersect running)
    BY <2>1, FetchingFinite, FS_Difference
  <2>3. IsFiniteSet(Fetching \intersect running)
    BY FetchingFinite, FS_Subset
  <2>4. /\ Cardinality(Fetching) \in Nat
        /\ Cardinality(Fetching') \in Nat
        /\ Cardinality(Fetching \intersect running) \in Nat
    BY <2>2, <2>3, FetchingFinite, FS_CardinalityType
  <2> QED
    BY <1>1, <2>2, <2>4, ReaderAssumption, SMT DEF TypeOK, PermitsAccounted
<1>4. TypeOK'
  <2>1. pc' \in [Children -> PCs]
    BY <1>1, SMT DEF TypeOK, PCs, Ended
  <2>2. lock' \in [Stocks -> Children \union {NoChild}]
    BY <1>1, SMT DEF TypeOK
  <2>3. call' \in [Requests ->
                     {"idle", "open", "returned", "raised", "cancelled"}]
    BY <1>1, SMT DEF TypeOK
  <2> QED
    BY <1>1, <1>3, <2>1, <2>2, <2>3, SMT DEF TypeOK
<1>5. LocksAccounted'
  BY <1>1, <1>2, ChildHasStock, SMT DEF LocksAccounted, TypeOK, Refreshing
<1>6. NoChildOutlivesItsCall' /\ IdleHasNone'
  BY <1>1, <1>2, ChildHasStock, SMT DEF NoChildOutlivesItsCall, IdleHasNone,
     TypeOK, Waiting, Refreshing
<1>7. MissingNeverScored' /\ Tested' /\ RefreshSeen'
  BY <1>1, SMT DEF MissingNeverScored, Tested, RefreshSeen, TypeOK
<1> QED
  BY <1>3, <1>4, <1>5, <1>6, <1>7

-----------------------------------------------------------------------------

LEMMA NextIInv == IInv /\ [Next]_vars => IInv'
<1> SUFFICES ASSUME IInv, [Next]_vars
             PROVE  IInv'
  OBVIOUS
<1>1. ASSUME NEW r \in Requests, Query(r) \/ GatherReturns(r) \/ Cancel(r)
      PROVE  IInv'
  BY <1>1, QueryKeeps, ReturnKeeps, CancelKeeps
<1>2. ASSUME NEW c \in Children, Child(c)
      PROVE  IInv'
  BY <1>2, StartKeeps, RecheckKeeps, DecideKeeps, FetchKeeps, ReplyKeeps,
     WriteKeeps, AnswerKeeps DEF Child
<1>3. ASSUME NEW s \in Stocks, Warm(s) \/ Upsert(s)
      PROVE  IInv'
  BY <1>3, WarmKeeps, UpsertKeeps
<1>4. CASE Expire
  BY <1>4, ExpireKeeps
<1>5. CASE UNCHANGED vars
  BY <1>5 DEF vars, IInv, TypeOK, IdleHasNone, LocksAccounted,
     PermitsAccounted, Fetching, NoChildOutlivesItsCall, MissingNeverScored,
     Tested, RefreshSeen
<1> QED
  BY <1>1, <1>2, <1>3, <1>4, <1>5 DEF Next

LEMMA InvariantIInv == Spec => []IInv
<1>1. Init => IInv
  BY InitIInv
<1>2. IInv /\ [Next]_vars => IInv'
  BY NextIInv
<1> QED
  BY <1>1, <1>2, PTL DEF Spec

(***************************************************************************)
(* The reader's state keeps its type: the semaphore never has more permits *)
(* than it began with, whichever way the fetches end.                      *)
(***************************************************************************)
THEOREM TypeCorrect == Spec => []TypeOK
<1>1. IInv => TypeOK
  BY DEF IInv
<1> QED
  BY <1>1, InvariantIInv, PTL

(***************************************************************************)
(* At any time the locks and permits that are out are those of children of *)
(* _build_metrics that are between taking and releasing them.              *)
(***************************************************************************)
THEOREM NothingLeaks == Spec => []ResourcesAccounted
<1>1. IInv => ResourcesAccounted
  BY DEF IInv, ResourcesAccounted
<1> QED
  BY <1>1, InvariantIInv, PTL

(***************************************************************************)
(* _build_metrics never answers for a stock whose metrics are incomplete,  *)
(* whatever the other writers do to the row while it waits.                *)
(***************************************************************************)
THEOREM NothingMissingIsScored == Spec => []MissingNeverScored
<1>1. IInv => MissingNeverScored
  BY DEF IInv
<1> QED
  BY <1>1, InvariantIInv, PTL

(***************************************************************************)
(* A child of get_metrics_many runs only while its call is open or after   *)
(* the call has raised another child's error.                              *)
(***************************************************************************)
THEOREM OnlyFailureOrphans == Spec => []NoChildOutlivesItsCall
<1>1. IInv => NoChildOutlivesItsCall
  BY DEF IInv
<1> QED
  BY <1>1, InvariantIInv, PTL

(***************************************************************************)
(* The double-checked lock of _build_metrics does what it is for: two      *)
(* refreshes of a row by the reader are at least a TTL apart.              *)
(***************************************************************************)
THEOREM RefreshesAreSpaced == Spec => RefreshOnlyAfterExpiry
<1> DEFINE Spaced == \A s \in Stocks :
             lastRefresh'[s] # lastRefresh[s] => lastRefresh[s] <= horizon
<1>1. IInv /\ [Next]_vars => [Spaced]_vars
  <2> SUFFICES ASSUME IInv, Next, NEW s \in Stocks,
                      lastRefresh'[s] # lastRefresh[s]
               PROVE  lastRefresh[s] <= horizon
    BY DEF vars
  <2>1. PICK c \in Children : Write(c)
    BY DEF Next, Child, Query, GatherReturns, Cancel, Start, Recheck, Decide,
       Fetch, Reply, Answer, Warm, Upsert, Expire
  <2>2. StockOf(c) = s
    BY <2>1, ChildHasStock, SMT DEF Write, IInv, TypeOK
  <2> QED
    BY <2>1, <2>2 DEF Write, IInv, RefreshSeen
<1> QED
  BY <1>1, InvariantIInv, PTL DEF Spec, RefreshOnlyAfterExpiry

-----------------------------------------------------------------------------
(* What is answered agrees with what is stored: every copy of a row that a *)
(* child may still answer agrees with the row, if that has not been        *)
(* written since, and with every other copy of the same write.             *)

\* Between reply and write the new volatility stands beside the old stamp.
Held(c) == pc[c] \in {"start", "lock", "decide", "written", "answered"}

Alike(x, y) == x.stamp = y.stamp => Stored(x.vol) = Stored(y.vol)

Agreed ==
    /\ \A s \in Stocks : row[s].stamp <= clock
    /\ \A c \in Children :
          Held(c) => local[c].stamp <= clock /\ Alike(local[c], row[StockOf(c)])
    /\ \A c, d \in Children :
          Held(c) /\ Held(d) /\ StockOf(c) = StockOf(d) => Alike(local[c], local[d])

\* Rounding what has been rounded changes nothing.
LEMMA StoredOnce ==
    ASSUME NEW v \in Nat
    PROVE  Stored(Stored(v)) = Stored(v)
<1> DEFINE k == (v + Unit \div 2) \div Unit
           half == Unit \div 2
           q == (k * Unit + half) \div Unit
<1>1. Unit \in Nat \ {0}
  BY ReaderAssumption
<1>2. half \in Nat /\ half < Unit
  BY <1>1, SMT
<1>3. k \in Nat
  BY <1>1, <1>2, SMT
<1>4. Stored(v) = k * Unit /\ Stored(Stored(v)) = q * Unit
  BY DEF Stored
<1> HIDE DEF k, half
<1>5. k * Unit \in Nat
  BY <1>1, <1>3, SMT
<1>6. q \in Nat /\ q * Unit <= k * Unit + half /\ k * Unit + half < q * Unit + Unit
  <2>1. \A a \in Nat : /\ a \div Unit \in Nat
                       /\ (a \div Unit) * Unit <= a
                       /\ a < (a \div Unit) * Unit + Unit
    BY <1>1, SMT
  <2>2. k * Unit + half \in Nat
    BY <1>2, <1>5, SMT
  <2> QED
    BY <2>1, <2>2
<1> HIDE DEF q
<1>7. q * Unit < (k + 1) * Unit /\ k * Unit < (q + 1) * Unit
  BY <1>1, <1>2, <1>3, <1>5, <1>6, SMT
<1>8. \A a, b \in Nat : a >= b + 1 => a * Unit >= (b + 1) * Unit
  <2> SUFFICES ASSUME NEW a \in Nat, NEW b \in Nat, a >= b + 1
               PROVE  a * Unit >= (b + 1) * Unit
    OBVIOUS
  <2> DEFINE d == a - (b + 1)
  <2>1. d \in Nat /\ a = b + 1 + d
    BY SMT
  <2> HIDE DEF d
  <2>2. a * Unit = (b + 1) * Unit + d * Unit
    BY <1>1, <2>1, SMT
  <2>3. d * Unit \in Nat /\ (b + 1) * Unit \in Nat
    BY <1>1, <2>1, SMT
  <2> QED
    BY <2>2, <2>3, SMT
<1>9. q = k
  <2>1. ~(q >= k + 1)
    BY <1>1, <1>3, <1>5, <1>6, <1>7, <1>8, SMT
  <2>2. ~(k >= q + 1)
    BY <1>1, <1>3, <1>5, <1>6, <1>7, <1>8, SMT
  <2> QED
    BY <1>3, <1>6, <2>1, <2>2, SMT
<1> QED
  BY <1>4, <1>9

\* A step that writes no market metrics: whoever holds a copy held it before,
\* or has just read the row.
LEMMA CopyingKeeps ==
    ASSUME TypeOK, Agreed, clock' = clock,
           \A s \in Stocks : row'[s].vol = row[s].vol /\ row'[s].stamp = row[s].stamp,
           \A c \in Children : Held(c)' => \/ Held(c) /\ local'[c] = local[c]
                                          \/ local'[c] = row[StockOf(c)]
    PROVE  Agreed'
<1>1. \A c \in Children : StockOf(c) \in Stocks
  BY ChildHasStock
<1>2. \A s \in Stocks : (row[s].stamp <= clock)'
  BY SMT DEF Agreed
<1>3. ASSUME NEW c \in Children, Held(c)'
      PROVE  (local[c].stamp <= clock /\ Alike(local[c], row[StockOf(c)]))'
  BY <1>1, <1>3, SMT DEF Agreed, Alike
<1>4. ASSUME NEW c \in Children, NEW d \in Children, Held(c)', Held(d)',
             StockOf(c) = StockOf(d)
      PROVE  Alike(local[c], local[d])'
  BY <1>1, <1>4, SMT DEF Agreed, Alike
<1> QED
  BY <1>2, <1>3, <1>4 DEF Agreed

\* A step that writes those of s: only the writer has a copy of the new write.
LEMMA WritingKeeps ==
    ASSUME TypeOK, Agreed, NEW s \in Stocks, clock' = clock + 1,
           row'[s].stamp = clock + 1,
           \A x \in Stocks : x # s => row'[x] = row[x],
           \A c \in Children :
               Held(c)' => \/ Held(c) /\ local'[c] = local[c]
                           \/ /\ StockOf(c) = s
                              /\ local'[c].stamp = clock + 1
                              /\ Stored(local'[c].vol) = Stored(row'[s].vol)
    PROVE  Agreed'
<1>1. \A c \in Children : StockOf(c) \in Stocks
  BY ChildHasStock
<1>2. clock \in Nat
  BY DEF TypeOK
<1>3. \A x \in Stocks : (row[x].stamp <= clock)'
  <2>1. \A x \in Stocks : row[x] \in Row
    BY DEF TypeOK
  <2> QED
    BY <1>2, <2>1, SMT DEF Agreed, Row
<1>4. \A c \in Children : local[c] \in Row
  BY DEF TypeOK
<1>5. ASSUME NEW c \in Children, Held(c)'
      PROVE  (local[c].stamp <= clock /\ Alike(local[c], row[StockOf(c)]))'
  BY <1>1, <1>2, <1>4, <1>5, SMT DEF Agreed, Alike, Row
<1>6. ASSUME NEW c \in Children, NEW d \in Children, Held(c)', Held(d)',
             StockOf(c) = StockOf(d)
      PROVE  Alike(local[c], local[d])'
  BY <1>1, <1>2, <1>4, <1>6, SMT DEF Agreed, Alike, Row
<1> QED
  BY <1>3, <1>5, <1>6 DEF Agreed

LEMMA NextAgreed ==
    ASSUME TypeOK, Agreed, [Next]_vars
    PROVE  Agreed'
<1>1. CASE UNCHANGED vars
  BY <1>1, CopyingKeeps DEF vars, Held
<1>2. ASSUME NEW r \in Requests, Query(r)
      PROVE  Agreed'
  <2>1. \A c \in Children : Held(c)' => \/ Held(c) /\ local'[c] = local[c]
                                       \/ local'[c] = row[StockOf(c)]
    BY <1>2, ChildHasStock, SMT DEF Query, Held, TypeOK, Children
  <2> QED
    BY <1>2, <2>1, CopyingKeeps DEF Query
<1>3. ASSUME NEW r \in Requests, GatherReturns(r) \/ Cancel(r)
      PROVE  Agreed'
  <2>1. \A c \in Children : Held(c)' => Held(c) /\ local'[c] = local[c]
    BY <1>3, SMT DEF GatherReturns, Cancel, Held, TypeOK
  <2>2. clock' = clock /\ row' = row
    BY <1>3 DEF GatherReturns, Cancel
  <2> QED
    BY <2>1, <2>2, CopyingKeeps
<1>4. ASSUME NEW c \in Children, Start(c) \/ Recheck(c) \/ Decide(c) \/ Fetch(c) \/ Reply(c) \/ Answer(c)
      PROVE  Agreed'
  <2>1. \A d \in Children : Held(d)' => \/ Held(d) /\ local'[d] = local[d]
                                       \/ local'[d] = row[StockOf(d)]
    BY <1>4, ChildHasStock, SMT DEF Start, Recheck, Decide, Fetch, Reply, Answer, Check,
       End, Raise, Held, TypeOK
  <2>2. clock' = clock /\ row' = row
    BY <1>4 DEF Start, Recheck, Decide, Fetch, Reply, Answer
  <2> QED
    BY <2>1, <2>2, CopyingKeeps
<1>5. ASSUME NEW c \in Children, Write(c)
      PROVE  Agreed'
  <2>1. pc[c] = "write" /\ StockOf(c) \in Stocks /\ local[c] \in Row
    BY <1>5, ChildHasStock DEF Write, TypeOK
  <2>2. CASE Raise(c) /\ UNCHANGED <<row, clock, local, lastRefresh>>
    <3>1. \A d \in Children : Held(d)' => Held(d) /\ local'[d] = local[d]
      BY <2>1, <2>2, SMT DEF Raise, End, Held, TypeOK
    <3> QED
      BY <2>2, <3>1, CopyingKeeps
  <2>3. CASE /\ SetMarketMetrics(StockOf(c), local[c].vol)
             /\ pc' = [pc EXCEPT ![c] = "written"]
             /\ local' = [local EXCEPT ![c].stamp = clock + 1]
    <3>1. local[c].vol \in Nat
      BY <2>1, SMT DEF Row
    <3>2. /\ clock' = clock + 1
          /\ row'[StockOf(c)].stamp = clock + 1
          /\ \A x \in Stocks : x # StockOf(c) => row'[x] = row[x]
      BY <2>1, <2>3, <3>1, SetMarketMetricsType
    <3>3. row'[StockOf(c)].vol = Stored(local[c].vol)
      BY <2>1, <2>3, SMT DEF SetMarketMetrics, TypeOK, Row
    <3>4. /\ local'[c].stamp = clock + 1
          /\ local'[c].vol = local[c].vol
          /\ \A d \in Children : d # c => local'[d] = local[d]
      BY <2>1, <2>3, SMT DEF TypeOK, Row
    <3>5. \A d \in Children : d # c => (Held(d)' <=> Held(d))
      BY <2>3, SMT DEF Held, TypeOK
    <3> QED
      BY <2>1, <3>1, <3>2, <3>3, <3>4, <3>5, StoredOnce, WritingKeeps
  <2> QED
    BY <1>5, <2>2, <2>3 DEF Write
<1>6. ASSUME NEW s \in Stocks, Warm(s)
      PROVE  Agreed'
  <2>1. PICK v \in Observations : SetMarketMetrics(s, v)
    BY <1>6 DEF Warm
  <2>2. v \in Nat
    BY ReaderAssumption
  <2>3. /\ clock' = clock + 1
        /\ row'[s].stamp = clock + 1
        /\ \A x \in Stocks : x # s => row'[x] = row[x]
    BY <2>1, <2>2, SetMarketMetricsType
  <2>4. \A c \in Children : Held(c)' => Held(c) /\ local'[c] = local[c]
    BY <1>6 DEF Warm, Held
  <2> QED
    BY <2>3, <2>4, WritingKeeps
<1>7. ASSUME NEW s \in Stocks, Upsert(s)
      PROVE  Agreed'
  <2>1. \A x \in Stocks : row'[x].vol = row[x].vol /\ row'[x].stamp = row[x].stamp
    BY <1>7, SMT DEF Upsert, TypeOK, Row
  <2> QED
    BY <1>7, <2>1, CopyingKeeps DEF Upsert, Held
<1>8. CASE Expire
  BY <1>8, CopyingKeeps DEF Expire, Held
<1> QED
  BY <1>1, <1>2, <1>3, <1>4, <1>5, <1>6, <1>7, <1>8 DEF Next, Child

(***************************************************************************)
(* Two calls of get_metrics_many that are served by the same write of a    *)
(* stock's volatility agree on it in the three decimals the column keeps,  *)
(* though one has it from the candles and the other from the row.          *)
(***************************************************************************)
THEOREM AnswersAgree == Spec => []SameWriteSameRank
<1>1. Init => Agreed
  BY ChildHasStock, SMT DEF Init, Agreed, Held, Alike
<1>2. TypeOK /\ Agreed /\ [Next]_vars => Agreed'
  BY NextAgreed
<1>3. Agreed => SameWriteSameRank
  BY SMT DEF Agreed, Held, Alike, SameWriteSameRank
<1> QED
  BY <1>1, <1>2, <1>3, TypeCorrect, PTL DEF Spec

-----------------------------------------------------------------------------
(* What the end of every child rests on besides fairness: somebody can     *)
(* always go on, and nobody goes back.                                     *)

\* The guards of Child(c), written out.
CanGoOn(c) ==
    \/ pc[c] \in {"start", "decide", "fetch", "write", "written"}
    \/ pc[c] = "lock" /\ lock[StockOf(c)] = NoChild
    \/ pc[c] = "permit" /\ permits > 0

SomeoneGoesOn ==
    \A c \in Children : pc[c] \in Waiting \union Refreshing =>
        \E d \in Children :
            CanGoOn(d) /\ (d = c \/ d = lock[StockOf(c)] \/ pc[d] = "fetch")

LEMMA NoPermitMeansFetching ==
    ASSUME TypeOK, PermitsAccounted, ~(permits > 0)
    PROVE  \E d \in Children : pc[d] = "fetch" /\ CanGoOn(d)
<1>1. Cardinality(Fetching) = Concurrency
  <2>1. Cardinality(Fetching) \in Nat
    BY FetchingFinite, FS_CardinalityType
  <2> QED
    BY <2>1, ReaderAssumption, SMT DEF TypeOK, PermitsAccounted
<1>2. Fetching # {}
  BY <1>1, ReaderAssumption, FS_EmptySet
<1> QED
  BY <1>2 DEF Fetching, CanGoOn

(***************************************************************************)
(* The coroutines of get_metrics_many never all wait for each other: of a  *)
(* child that is not done, it, the holder of its stock's lock or one with  *)
(* a permit can go on, for any number of requests, stocks and permits.     *)
(* The lock is taken before the permit, always, and a child with a permit  *)
(* waits for nothing that another has.                                     *)
(***************************************************************************)
THEOREM NoCircleOfWaits == Spec => []SomeoneGoesOn
<1>1. ASSUME IInv, NEW c \in Children, pc[c] \in Refreshing
      PROVE  \E d \in Children : CanGoOn(d) /\ (d = c \/ pc[d] = "fetch")
  <2>1. CASE pc[c] = "permit" /\ ~(permits > 0)
    BY <1>1, <2>1, NoPermitMeansFetching DEF IInv
  <2>2. CASE ~(pc[c] = "permit" /\ ~(permits > 0))
    BY <1>1, <2>2 DEF Refreshing, CanGoOn
  <2> QED
    BY <2>1, <2>2
<1>2. ASSUME IInv, NEW c \in Children, pc[c] \in Waiting
      PROVE  \E d \in Children :
                 CanGoOn(d) /\ (d = c \/ d = lock[StockOf(c)] \/ pc[d] = "fetch")
  <2>1. CASE pc[c] = "lock" /\ lock[StockOf(c)] # NoChild
    <3> DEFINE h == lock[StockOf(c)]
    <3>1. h \in Children
      BY <1>2, <2>1, ChildHasStock DEF IInv, TypeOK
    <3>2. pc[h] \in Refreshing
      BY <1>2, <3>1, ChildHasStock DEF IInv, LocksAccounted
    <3> QED
      BY <1>1, <1>2, <3>1, <3>2
  <2>2. CASE ~(pc[c] = "lock" /\ lock[StockOf(c)] # NoChild)
    BY <1>2, <2>2 DEF Waiting, CanGoOn
  <2> QED
    BY <2>1, <2>2
<1>3. IInv => SomeoneGoesOn
  BY <1>1, <1>2 DEF SomeoneGoesOn
<1> QED
  BY <1>3, InvariantIInv, PTL

Place(p) ==
    CASE p = "off" -> 0 [] p = "start" -> 1 [] p = "lock" -> 2 [] p = "decide" -> 3
      [] p = "permit" -> 4 [] p = "fetch" -> 5 [] p = "write" -> 6 [] p = "written" -> 7
      [] OTHER -> 8

NobodyGoesBack ==
    [][\A c \in Children : pc'[c] = pc[c] \/ Place(pc[c]) < Place(pc'[c])]_vars

(***************************************************************************)
(* _build_metrics has no loop and nothing sends it back: a child takes at  *)
(* most eight steps, whatever the lock and the second look tell it.        *)
(***************************************************************************)
THEOREM ChildrenOnlyGoOn == Spec => NobodyGoesBack
<1> DEFINE Forward == \A c \in Children : pc'[c] = pc[c] \/ Place(pc[c]) < Place(pc'[c])
<1>1. ASSUME IInv, Next
      PROVE  Forward
  <2>1. ASSUME NEW r \in Requests, Query(r)
        PROVE  Forward
    <3>1. \A c \in Children : pc'[c] = pc[c] \/ (pc[c] = "off" /\ pc'[c] = "start")
      BY <1>1, <2>1, SMT DEF Query, IInv, IdleHasNone, TypeOK, Children
    <3> QED
      BY <3>1, SMT DEF Place
  <2>2. ASSUME NEW r \in Requests, Cancel(r)
        PROVE  Forward
    <3>1. \A c \in Children :
             \/ pc'[c] = pc[c]
             \/ pc[c] \in Waiting \union Refreshing /\ pc'[c] = "cancelled"
      BY <2>2, SMT DEF Cancel
    <3> QED
      BY <3>1, SMT DEF Place, Waiting, Refreshing
  <2>3. ASSUME NEW d \in Children, Child(d)
        PROVE  Forward
    <3>1. \A c \in Children : c # d => pc'[c] = pc[c]
      BY <1>1, <2>3, SMT DEF Child, Start, Recheck, Decide, Fetch, Reply, Write, Answer,
         Check, Raise, End, IInv, TypeOK
    <3>2. Place(pc[d]) < Place(pc'[d])
      <4>1. \/ pc[d] = "start" /\ pc'[d] \in {"none", "answered", "lock"}
            \/ pc[d] = "lock" /\ pc'[d] \in {"decide", "failed"}
            \/ pc[d] = "decide" /\ pc'[d] \in {"none", "answered", "permit"}
            \/ pc[d] = "permit" /\ pc'[d] = "fetch"
            \/ pc[d] = "fetch" /\ pc'[d] \in {"write", "none", "failed"}
            \/ pc[d] = "write" /\ pc'[d] \in {"written", "failed"}
            \/ pc[d] = "written" /\ pc'[d] = "answered"
        BY <1>1, <2>3, SMT DEF Child, Start, Recheck, Decide, Fetch, Reply, Write, Answer,
           Check, Raise, End, IInv, TypeOK
      <4> QED
        BY <4>1, SMT DEF Place
    <3> QED
      BY <3>1, <3>2
  <2>4. ASSUME UNCHANGED pc
        PROVE  Forward
    BY <2>4
  <2> QED
    BY <1>1, <2>1, <2>2, <2>3, <2>4 DEF Next, GatherReturns, Warm, Upsert, Expire
<1>2. IInv /\ [Next]_vars => [Forward]_vars
  BY <1>1
<1> QED
  BY <1>2, InvariantIInv, PTL DEF Spec, NobodyGoesBack
=============================================================================
