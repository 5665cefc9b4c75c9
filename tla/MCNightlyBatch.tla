---------------------------- MODULE MCNightlyBatch ----------------------------
(* A small instance of NightlyBatch: the first stock is not listed yet; of *)
(* the others one is new to the cache, one is stale and one still current. *)
EXTENDS NightlyBatch

FourStocks == 1 .. 4
ThreeListed == {{2, 3, 4}}
OneOfEachAge == {<<"none", "stale", "old", "none">>}
=============================================================================
