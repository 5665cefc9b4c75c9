------------------------------ MODULE CatalogSync ------------------------------
(***************************************************************************)
(* GrpcStockCatalogSynchronizer.sync_all: the pages of Stock Service's     *)
(* listing one after the other, one gather of _sync_stock per page.        *)
(*                                                                         *)
(* The listing is not frozen while it is paged through: stocks are listed  *)
(* and delisted between two calls, and pages are cut by position.  A stock *)
(* is copied by four calls: GetStock, upsert of the row, embedding, upsert *)
(* of the narrative; any of them may fail.  The first failure ends sync_all*)
(* and leaves the other stocks of its page running.                        *)
(***************************************************************************)
EXTENDS StockCache

CONSTANTS
    PageSize,       \* stock_sync_page_size
    Concurrency     \* stock_sync_concurrency

ASSUME CatalogAssumption ==
    {PageSize, Concurrency} \subseteq Nat \ {0}

VARIABLES
    listed,         \* the listing of Stock Service
    told,           \* history: stocks whose narrative was written in this run
    born,           \* history: stocks whose row was inserted in this run
    sync,           \* sync_all: "page", "gather", "done" or "failed"
    page,           \* its next page
    pages,          \* total_pages of the last response
    batch,          \* stocks of the last response
    job,            \* _sync_stock of each stock
    synced,         \* synced_count
    joined, left    \* history: stocks listed and delisted during the run

syncVars == <<told, born, sync, page, pages, batch, job, synced>>
listing == <<listed, joined, left>>

Steps == {"row", "text"}

InitSync ==
    /\ told = {}
    /\ born = {}
    /\ sync = "page"
    /\ page = 0
    /\ pages = 0
    /\ batch = {}
    /\ job = [c \in Stocks |-> "out"]
    /\ synced = 0
    /\ joined = {}
    /\ left = {}

-----------------------------------------------------------------------------
Move(c) ==
    /\ c \notin joined \cup left
    /\ IF c \in listed
       THEN listed' = listed \ {c} /\ left' = left \cup {c} /\ joined' = joined
       ELSE listed' = listed \cup {c} /\ joined' = joined \cup {c} /\ left' = left

\* Wrong form: the last page is taken for one too many.
FetchAllButLast ==
    /\ batch' = Slice(listed, PageSize, page)
    /\ pages' = Slices(listed, PageSize) - 1

\* The answer of SearchStocks: this page of the listing as it now is.
Fetch ==
    /\ batch' = Slice(listed, PageSize, page)
    /\ pages' = Slices(listed, PageSize)

\* An empty page ends the run; another starts one _sync_stock per stock.
SearchStocks ==
    /\ sync = "page"
    /\ Fetch
    /\ IF batch' = {}
       THEN sync' = "done" /\ UNCHANGED job
       ELSE /\ sync' = "gather"
            /\ job' = [c \in Stocks |-> IF c \in batch' THEN "queued" ELSE job[c]]
    /\ UNCHANGED <<row, told, born, page, synced>>

SearchFails ==
    /\ sync = "page"
    /\ sync' = "failed"
    /\ UNCHANGED <<row, told, born, page, pages, batch, job, synced>>

\* async with self._semaphore
Begin(c) ==
    /\ job[c] = "queued"
    /\ Cardinality({d \in Stocks : job[d] \in Steps}) < Concurrency
    /\ job' = [job EXCEPT ![c] = "row"]
    /\ UNCHANGED <<row, told, born, sync, page, pages, batch, synced>>

\* get_stock and the upsert of the row; the first writes nothing.
CopyRow(c) ==
    /\ job[c] = "row"
    /\ job' = [job EXCEPT ![c] = "text"]
    /\ row' = Upserted({c})
    /\ born' = IF row[c] = "none" THEN born \cup {c} ELSE born
    /\ UNCHANGED <<told, sync, page, pages, batch, synced>>

\* The embedding and the upsert of the narrative, in a statement of its own.
CopyText(c) ==
    /\ job[c] = "text"
    /\ job' = [job EXCEPT ![c] = "done"]
    /\ told' = told \cup {c}
    /\ UNCHANGED <<row, born, sync, page, pages, batch, synced>>

\* A call fails.  gather hands the first failure on and cancels nothing.
SyncFails(c) ==
    /\ job[c] \in Steps
    /\ job' = [job EXCEPT ![c] = "failed"]
    /\ sync' = IF sync = "gather" THEN "failed" ELSE sync
    /\ UNCHANGED <<row, told, born, page, pages, batch, synced>>

\* Wrong form: sync_all goes on as soon as the jobs have been created.
NotAwaited == sync = "gather"

Awaited == sync = "gather" /\ \A c \in batch : job[c] = "done"

PageDone ==
    /\ Awaited
    /\ synced' = synced + Cardinality(batch)
    /\ page' = page + 1
    /\ sync' = IF page' >= pages THEN "done" ELSE "page"
    /\ UNCHANGED <<row, told, born, pages, batch, job>>

Job(c) ==
    \/ Begin(c)
    \/ CopyRow(c)
    \/ CopyText(c)
    \/ SyncFails(c)

NextSync == SearchStocks \/ SearchFails \/ PageDone \/ (\E c \in Stocks : Job(c))

-----------------------------------------------------------------------------
SyncTypeOK ==
    /\ listed \subseteq Stocks
    /\ row \in [Stocks -> Ages]
    /\ {told, born} \subseteq SUBSET Stocks
    /\ sync \in {"page", "gather", "done", "failed"}
    /\ page \in Nat
    /\ pages \in Nat
    /\ batch \subseteq Stocks
    /\ job \in [Stocks -> Steps \cup {"out", "queued", "done", "failed", "cancelled"}]
    /\ synced \in Nat
    /\ joined \subseteq Stocks
    /\ left \subseteq Stocks

(***************************************************************************)
(* A run that ends without an error has copied every stock that was listed *)
(* all along, unless some stock was delisted meanwhile: only a delisting   *)
(* moves a stock to a page that has been read.  Listings never cost one.   *)
(***************************************************************************)
NoStockSkipped ==
    sync = "done" /\ left = {} => (listed \ joined) \subseteq told

(***************************************************************************)
(* The count that is logged is the number of stocks that were copied, row  *)
(* and narrative, unless a stock was listed meanwhile: a listing makes the *)
(* last stock of a page come a second time.                                *)
(***************************************************************************)
CountIsTrue ==
    sync = "done" => /\ synced >= Cardinality(told)
                     /\ joined = {} => synced = Cardinality(told)
=============================================================================
