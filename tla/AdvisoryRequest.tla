---------------------------- MODULE AdvisoryRequest ----------------------------
(***************************************************************************)
(* GetRecommendations from the servicer to the store: the graph of nodes   *)
(* build_profile -> retrieve -> score -> narrative -> validate with its    *)
(* one loop, the use case that saves a validated result, and the           *)
(* transaction of PostgresAdvisoryRepository.save_many.                    *)
(*                                                                         *)
(* Requests run concurrently.  They share the connection pool, and those   *)
(* of one user the row of user_profiles that each upserts: the second      *)
(* transaction waits, with its connection, for the first to end.  A step   *)
(* is what a request does between two awaits.  At each await its           *)
(* dependency may fail and the client may go away.                         *)
(*                                                                         *)
(* A scored candidate is its price, known or not; a recommendation adds a  *)
(* text, good or too short.  Ranking is not modelled here.                 *)
(***************************************************************************)
EXTENDS Integers, Sequences, FiniteSets

CONSTANTS
    Requests,       \* calls of GetRecommendations
    Users,          \* values of x-user-id
    UserOf,         \* the user of each request
    Prices,         \* what a candidate's price can be: "known", "none"
    NoRequest,      \* nobody
    TopN,           \* TOP_N_RECOMMEND
    MaxRetry,       \* MAX_RETRY
    PoolSize        \* connections in the pool

ASSUME RequestAssumption ==
    /\ IsFiniteSet(Requests)
    /\ UserOf \in [Requests -> Users]
    /\ NoRequest \notin Requests
    /\ TopN \in Nat
    /\ MaxRetry \in Nat \ {0}
    /\ PoolSize \in Nat \ {0}

Errors == {"DEADLINE_EXCEEDED", "UNAVAILABLE", "INTERNAL"}
Recommendation == [text : {"good", "short"}, price : Prices]

VARIABLES
    pc,             \* where each request is
    reply,          \* what its client has got
    scored,         \* scored_candidates
    recs,           \* recommendations of this round
    retries,        \* retry_count
    written,        \* history: narratives generated, over all rounds
    conns,          \* free connections
    userLock,       \* the transaction that has upserted a user's row
    profile,        \* user_profiles: the request whose profile is stored
    rows            \* recommendations: what is stored for each request

vars == <<pc, reply, scored, recs, retries, written, conns, userLock,
          profile, rows>>
graphVars == <<scored, recs, retries, written>>
storeVars == <<conns, userLock, profile, rows>>

Saving == {"upsert", "insert", "commit", "committed"}
Running == {"retrieve", "score", "narrate", "acquire"} \union Saving

Init ==
    /\ pc = [r \in Requests |-> "idle"]
    /\ reply = [r \in Requests |-> "none"]
    /\ scored = [r \in Requests |-> << >>]
    /\ recs = [r \in Requests |-> << >>]
    /\ retries = [r \in Requests |-> 0]
    /\ written = [r \in Requests |-> 0]
    /\ conns = PoolSize
    /\ userLock = [u \in Users |-> NoRequest]
    /\ profile = [u \in Users |-> NoRequest]
    /\ rows = [r \in Requests |-> << >>]

Move(r, to) == pc' = [pc EXCEPT ![r] = to]

\* The handler ends; a client that has gone away gets nothing more.
End(r, answer) ==
    /\ Move(r, "ended")
    /\ reply' = [reply EXCEPT ![r] = IF @ = "none" THEN answer ELSE @]

\* Wrong forms: the user's row, or the connection, is not given back.
ReleaseConnection(r) ==
    /\ conns' = IF pc[r] \in Saving THEN conns + 1 ELSE conns
    /\ UNCHANGED userLock
ReleaseUserRow(r) ==
    /\ userLock' = [u \in Users |->
                      IF userLock[u] = r THEN NoRequest ELSE userLock[u]]
    /\ UNCHANGED conns

\* What a request in the transaction has of the pool and of its user's row.
Release(r) ==
    /\ conns' = IF pc[r] \in Saving THEN conns + 1 ELSE conns
    /\ userLock' = [u \in Users |->
                      IF userLock[u] = r THEN NoRequest ELSE userLock[u]]

-----------------------------------------------------------------------------
(* The servicer and the graph.                                             *)

Receive(r) ==
    /\ pc[r] = "idle"
    /\ \/ Move(r, "retrieve") /\ UNCHANGED reply
       \/ End(r, "UNAUTHENTICATED")
       \/ End(r, "INVALID_ARGUMENT")
    /\ UNCHANGED <<graphVars, storeVars>>

\* The hybrid search needs a connection for as long as its queries run.
Retrieve(r) ==
    /\ pc[r] = "retrieve"
    /\ conns > 0
    /\ Move(r, "score")
    /\ UNCHANGED <<reply, graphVars, storeVars>>

\* The candidates that have metrics, the best TopN of them.
Score(r) ==
    /\ pc[r] = "score"
    /\ conns > 0
    /\ Move(r, "narrate")
    /\ \E n \in 0 .. TopN : \E best \in [1 .. n -> Prices] :
          scored' = [scored EXCEPT ![r] = best]
    /\ UNCHANGED <<reply, recs, retries, written, storeVars>>

\* One narrative after the other.
Narrate(r) ==
    /\ pc[r] = "narrate"
    /\ Len(recs[r]) < Len(scored[r])
    /\ \E text \in {"good", "short"} :
          recs' = [recs EXCEPT ![r] = Append(@,
                     [text |-> text, price |-> scored[r][Len(@) + 1]])]
    /\ written' = [written EXCEPT ![r] = @ + 1]
    /\ UNCHANGED <<pc, reply, scored, retries, storeVars>>

\* Wrong forms: the texts are not looked at; one retry too many; the texts
\* of the round before are kept.
AnyText(list) == list # << >>
OutOfRetriesLate(n) == n > MaxRetry
KeepRound(r) == UNCHANGED recs

\* validate_result: there is something to recommend and every text is good.
Valid(list) ==
    /\ list # << >>
    /\ \A i \in DOMAIN list : list[i].text = "good"

OutOfRetries(n) == n >= MaxRetry
NewRound(r) == recs' = [recs EXCEPT ![r] = << >>]

\* validate_result and the route after it.  A retry writes all texts anew; a
\* result that is out of retries is answered and not saved.
Validate(r) ==
    /\ pc[r] = "narrate"
    /\ Len(recs[r]) = Len(scored[r])
    /\ \/ /\ Valid(recs[r])
          /\ Move(r, "acquire")
          /\ UNCHANGED <<reply, recs, retries>>
       \/ /\ ~Valid(recs[r])
          /\ retries' = [retries EXCEPT ![r] = @ + 1]
          /\ IF OutOfRetries(retries[r] + 1)
               THEN End(r, "failed") /\ UNCHANGED recs
               ELSE NewRound(r) /\ UNCHANGED <<pc, reply>>
    /\ UNCHANGED <<scored, written, storeVars>>

-----------------------------------------------------------------------------
(* save_many.                                                              *)

Acquire(r) ==
    /\ pc[r] = "acquire"
    /\ conns > 0
    /\ conns' = conns - 1
    /\ Move(r, "upsert")
    /\ UNCHANGED <<reply, graphVars, userLock, profile, rows>>

\* Wrong forms: the profile is stored at once; nothing is ever committed.
UpsertAlone(r) ==
    /\ pc[r] = "upsert"
    /\ userLock[UserOf[r]] = NoRequest
    /\ userLock' = [userLock EXCEPT ![UserOf[r]] = r]
    /\ profile' = [profile EXCEPT ![UserOf[r]] = r]
    /\ Move(r, "insert")
    /\ UNCHANGED <<reply, graphVars, conns, rows>>
InsertUncommitted(r) ==
    /\ pc[r] = "insert"
    /\ Move(r, "committed")
    /\ UNCHANGED <<reply, graphVars, storeVars>>

UpsertProfile(r) ==
    /\ pc[r] = "upsert"
    /\ userLock[UserOf[r]] = NoRequest
    /\ userLock' = [userLock EXCEPT ![UserOf[r]] = r]
    /\ Move(r, "insert")
    /\ UNCHANGED <<reply, graphVars, conns, profile, rows>>

InsertRows(r) ==
    /\ pc[r] = "insert"
    /\ Move(r, "commit")
    /\ UNCHANGED <<reply, graphVars, storeVars>>

\* The profile and the rows become visible together, and the lock is free.
Commit(r) ==
    /\ pc[r] = "commit"
    /\ profile' = [profile EXCEPT ![UserOf[r]] = r]
    /\ rows' = [rows EXCEPT ![r] = recs[r]]
    /\ userLock' = [userLock EXCEPT ![UserOf[r]] = NoRequest]
    /\ Move(r, "committed")
    /\ UNCHANGED <<reply, graphVars, conns>>

Respond(r) ==
    /\ pc[r] = "committed"
    /\ End(r, IF retries[r] > 0 THEN "retried" ELSE "passed")
    /\ Release(r)
    /\ UNCHANGED <<graphVars, profile, rows>>

-----------------------------------------------------------------------------
(* Failures and clients.                                                   *)

\* How the servicer reports what can be raised at each place.  Stock Service
\* is called by the reader only; the clients of OpenAI raise their own
\* timeout, which is not a TimeoutError.
ErrorsAt(place) ==
    CASE place = "score" -> Errors
      [] place = "narrate" -> {"INTERNAL"}
      [] OTHER -> {"INTERNAL", "DEADLINE_EXCEEDED"}

\* A dependency fails.  The transaction is rolled back; when the reply to
\* the commit is lost it has taken place.
Fail(r) ==
    /\ pc[r] \in Running
    /\ pc[r] = "narrate" => Len(recs[r]) < Len(scored[r])
    /\ \E code \in ErrorsAt(pc[r]) : End(r, code)
    /\ Release(r)
    /\ UNCHANGED <<graphVars, profile, rows>>

\* The client's deadline passes or it disconnects: it does not wait for the
\* handler, and the handler has yet to learn.
Abandon(r) ==
    /\ pc[r] \in Running
    /\ reply[r] = "none"
    /\ reply' = [reply EXCEPT ![r] = "abandoned"]
    /\ UNCHANGED <<pc, graphVars, storeVars>>

\* The handler of an abandoned call is cancelled at an await.
Cancel(r) ==
    /\ pc[r] \in Running
    /\ reply[r] = "abandoned"
    /\ Move(r, "ended")
    /\ Release(r)
    /\ UNCHANGED <<reply, graphVars, profile, rows>>

Handle(r) ==
    \/ Retrieve(r)
    \/ Score(r)
    \/ Narrate(r)
    \/ Validate(r)
    \/ Acquire(r)
    \/ UpsertProfile(r)
    \/ InsertRows(r)
    \/ Commit(r)
    \/ Respond(r)

Next ==
    \/ \E r \in Requests : Receive(r)
    \/ \E r \in Requests : Handle(r)
    \/ \E r \in Requests : Fail(r)
    \/ \E r \in Requests : Abandon(r)
    \/ \E r \in Requests : Cancel(r)

\* The event loop runs what can run, and every dependency answers.
Fairness == \A r \in Requests : WF_vars(Handle(r))

Spec == Init /\ [][Next]_vars /\ Fairness

-----------------------------------------------------------------------------
(* Every variable keeps its type.                                          *)
TypeOK ==
    /\ pc \in [Requests -> {"idle", "ended"} \union Running]
    /\ reply \in [Requests ->
                    {"none", "passed", "retried", "failed", "UNAUTHENTICATED",
                     "INVALID_ARGUMENT", "abandoned"} \union Errors]
    /\ scored \in [Requests -> Seq(Prices)]
    /\ recs \in [Requests -> Seq(Recommendation)]
    /\ retries \in [Requests -> 0 .. MaxRetry]
    /\ written \in [Requests -> Nat]
    /\ conns \in 0 .. PoolSize
    /\ userLock \in [Users -> Requests \union {NoRequest}]
    /\ profile \in [Users -> Requests \union {NoRequest}]
    /\ rows \in [Requests -> Seq(Recommendation)]

(***************************************************************************)
(* What is stored for a request is the whole of one validated round: one   *)
(* good recommendation for each scored candidate, whatever earlier rounds  *)
(* left over, or nothing.                                                  *)
(***************************************************************************)
StoredIsOneValidRound ==
    \A r \in Requests : rows[r] # << >> =>
        /\ Len(rows[r]) = Len(scored[r])
        /\ \A i \in DOMAIN rows[r] : rows[r][i].text = "good"

(***************************************************************************)
(* The stored profile of a user is that of a request whose recommendations *)
(* are stored, and stored recommendations have a profile to refer to: a    *)
(* failure between the two statements of save_many leaves no trace.        *)
(***************************************************************************)
ProfileHasRows ==
    /\ \A u \in Users : profile[u] # NoRequest =>
          UserOf[profile[u]] = u /\ rows[profile[u]] # << >>
    /\ \A r \in Requests : rows[r] # << >> => profile[UserOf[r]] # NoRequest

(***************************************************************************)
(* What save_many takes it gives back, however it ends: the connections    *)
(* that are out are those of requests inside it, and the row of a user is  *)
(* locked by the one request between its upsert and the end of its         *)
(* transaction.                                                            *)
(***************************************************************************)
ConnectionsAccounted ==
    conns + Cardinality({r \in Requests : pc[r] \in Saving}) = PoolSize

UserLocksAccounted ==
    \A u \in Users : \A r \in Requests :
        userLock[u] = r <=> UserOf[r] = u /\ pc[r] \in {"insert", "commit"}

SavesAccounted == ConnectionsAccounted /\ UserLocksAccounted

(***************************************************************************)
(* The status and the retry count tell the client how often every text was *)
(* written: once, once more per retry, or until the retries ran out.       *)
(***************************************************************************)
StatusTellsWork ==
    \A r \in Requests :
        LET rounds == written[r] = (retries[r] + 1) * Len(scored[r])
        IN  /\ reply[r] = "passed" => retries[r] = 0 /\ rounds
            /\ reply[r] = "retried" => retries[r] \in 1 .. MaxRetry - 1 /\ rounds
            /\ reply[r] = "failed" => /\ retries[r] = MaxRetry
                                      /\ written[r] = MaxRetry * Len(scored[r])

(***************************************************************************)
(* Requests implement the contract: their replies tell the truth about the *)
(* store in every order of commits, failures, departures and cancellations. *)
(***************************************************************************)
Contract == INSTANCE AdvisoryContract
              WITH saved <- {r \in Requests : rows[r] # << >>}
ImplementsContract == Contract!Spec

(***************************************************************************)
(* Every handler ends: those that wait for a connection or for the row of  *)
(* their user are not kept from it for ever by those that hold both.       *)
(***************************************************************************)
EveryHandlerEnds ==
    \A r \in Requests : pc[r] = "retrieve" ~> pc[r] = "ended"
=============================================================================
