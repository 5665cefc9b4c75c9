------------------------- MODULE AdvisoryRequestProofs -------------------------
(* What AdvisoryRequest promises, for any number of requests, users,       *)
(* connections, candidates and retries.                                    *)
EXTENDS AdvisoryRequest, FiniteSetTheorems, TLAPS

Validated == {"acquire"} \union Saving

\* How far a request has come, and what it has done by then.
Progress(r) ==
    /\ pc[r] \in {"idle", "retrieve", "score"} =>
          recs[r] = << >> /\ retries[r] = 0 /\ written[r] = 0
    /\ pc[r] = "narrate" =>
          retries[r] < MaxRetry /\ Len(recs[r]) <= Len(scored[r])
    /\ pc[r] \in Validated =>
          /\ retries[r] < MaxRetry
          /\ Valid(recs[r])
          /\ Len(recs[r]) = Len(scored[r])
    /\ pc[r] # "ended" =>
          written[r] = retries[r] * Len(scored[r]) + Len(recs[r])

\* Where in its life a request can have rows, and what they are.
Storage(r) ==
    /\ pc[r] = "committed" => rows[r] = recs[r]
    /\ rows[r] # << >> =>
          /\ pc[r] \in {"committed", "ended"}
          /\ Len(rows[r]) = Len(scored[r])
          /\ \A i \in DOMAIN rows[r] : rows[r][i].text = "good"

\* What a reply says of the store.
Truth(r) ==
    /\ pc[r] # "ended" => reply[r] \in {"none", "abandoned"}
    /\ reply[r] \in {"passed", "retried"} => rows[r] # << >>
    /\ reply[r] \in {"failed", "UNAUTHENTICATED", "INVALID_ARGUMENT"} =>
          rows[r] = << >>

\* What a reply says of the work.
Status(r) ==
    LET rounds == written[r] = (retries[r] + 1) * Len(scored[r])
    IN  /\ reply[r] = "passed" => retries[r] = 0 /\ rounds
        /\ reply[r] = "retried" => retries[r] \in 1 .. MaxRetry - 1 /\ rounds
        /\ reply[r] = "failed" => /\ retries[r] = MaxRetry
                                  /\ written[r] = MaxRetry * Len(scored[r])

Local(r) == Progress(r) /\ Storage(r) /\ Truth(r) /\ Status(r)

IInv ==
    /\ TypeOK
    /\ \A r \in Requests : Local(r)
    /\ ConnectionsAccounted
    /\ UserLocksAccounted
    /\ ProfileHasRows

\* All but the request that moves stay as they are.
OthersStay(r) ==
    \A s \in Requests \ {r} :
        /\ pc'[s] = pc[s]
        /\ reply'[s] = reply[s]
        /\ scored'[s] = scored[s]
        /\ recs'[s] = recs[s]
        /\ retries'[s] = retries[s]
        /\ written'[s] = written[s]
        /\ rows'[s] = rows[s]

-----------------------------------------------------------------------------
(* The requests one by one.                                                *)

LEMMA OneMore == \A n, k \in Nat : (n + 1) * k = n * k + k
  BY SMT

LEMMA ProductInNat == \A n, k \in Nat : n * k \in Nat
  BY SMT

LEMMA InitIInv == Init => IInv
<1> SUFFICES ASSUME Init
             PROVE  IInv
  OBVIOUS
<1> USE RequestAssumption
<1>1. TypeOK
  BY SMT DEF Init, TypeOK, Recommendation, Running, Saving, Errors
<1>2. ASSUME NEW r \in Requests
      PROVE  Local(r)
  <2>1. /\ pc[r] = "idle" /\ reply[r] = "none" /\ scored[r] = << >>
        /\ recs[r] = << >> /\ retries[r] = 0 /\ written[r] = 0
        /\ rows[r] = << >>
    BY DEF Init
  <2>2. Progress(r)
    BY <2>1, SMT DEF Progress, Validated, Saving
  <2>3. Storage(r) /\ Truth(r) /\ Status(r)
    BY <2>1 DEF Storage, Truth, Status
  <2> QED
    BY <2>2, <2>3 DEF Local
<1>3. ConnectionsAccounted
  <2>1. {r \in Requests : pc[r] \in Saving} = {}
    BY SMT DEF Init, Saving
  <2>2. conns = PoolSize
    BY DEF Init
  <2>3. conns + 0 = PoolSize
    BY <2>2, SMT
  <2> QED
    BY <2>1, <2>3, FS_EmptySet, Zenon DEF ConnectionsAccounted
<1>4. UserLocksAccounted
  <2>1. /\ \A u \in Users : userLock[u] = NoRequest
        /\ \A r \in Requests : pc[r] = "idle"
    BY DEF Init
  <2> QED
    BY <2>1 DEF UserLocksAccounted
<1>5. ProfileHasRows
  <2>1. /\ \A u \in Users : profile[u] = NoRequest
        /\ \A r \in Requests : rows[r] = << >>
    BY DEF Init
  <2> QED
    BY <2>1 DEF ProfileHasRows
<1> QED
  BY <1>1, <1>2, <1>3, <1>4, <1>5 DEF IInv

LEMMA OthersKeep ==
    ASSUME NEW r \in Requests, NEW s \in Requests \ {r},
           OthersStay(r), Local(s)
    PROVE  Local(s)'
<1>1. /\ pc'[s] = pc[s] /\ reply'[s] = reply[s] /\ scored'[s] = scored[s]
      /\ recs'[s] = recs[s] /\ retries'[s] = retries[s]
      /\ written'[s] = written[s] /\ rows'[s] = rows[s]
  BY DEF OthersStay
<1>2. Progress(s)'
  BY <1>1 DEF Local, Progress, Valid
<1>3. Storage(s)'
  BY <1>1 DEF Local, Storage
<1>4. Truth(s)'
  BY <1>1 DEF Local, Truth
<1>5. Status(s)'
  BY <1>1 DEF Local, Status
<1> QED
  BY <1>2, <1>3, <1>4, <1>5 DEF Local

-----------------------------------------------------------------------------
(* What becomes of the request that moves.                                 *)

LEMMA StayAfterMove ==
    ASSUME NEW r \in Requests, NEW to, TypeOK, Move(r, to)
    PROVE  /\ pc'[r] = to
           /\ \A s \in Requests \ {r} : pc'[s] = pc[s]
  BY DEF Move, TypeOK

LEMMA StayAfterEnd ==
    ASSUME NEW r \in Requests, NEW answer, TypeOK, End(r, answer)
    PROVE  /\ pc'[r] = "ended"
           /\ reply'[r] = IF reply[r] = "none" THEN answer ELSE reply[r]
           /\ \A s \in Requests \ {r} : pc'[s] = pc[s] /\ reply'[s] = reply[s]
  BY DEF End, Move, TypeOK

LEMMA ReceiveLocal ==
    ASSUME TypeOK, NEW r \in Requests, Local(r), Receive(r)
    PROVE  Local(r)' /\ OthersStay(r)
<1>1. /\ pc[r] = "idle" /\ reply[r] \in {"none", "abandoned"}
      /\ recs[r] = << >> /\ retries[r] = 0 /\ written[r] = 0
      /\ rows[r] = << >>
      /\ written[r] = retries[r] * Len(scored[r]) + Len(recs[r])
  BY DEF Receive, Local, Progress, Storage, Truth
<1>2. /\ scored' = scored /\ recs' = recs /\ retries' = retries
      /\ written' = written /\ rows' = rows
  BY DEF Receive, graphVars, storeVars
<1>3. CASE Move(r, "retrieve") /\ UNCHANGED reply
  BY <1>1, <1>2, <1>3, StayAfterMove
     DEF Local, Progress, Storage, Truth, Status, Validated, Saving, OthersStay
<1>4. CASE End(r, "UNAUTHENTICATED")
  BY <1>1, <1>2, <1>4, StayAfterEnd
     DEF Local, Progress, Storage, Truth, Status, Validated, Saving, OthersStay
<1>5. CASE End(r, "INVALID_ARGUMENT")
  BY <1>1, <1>2, <1>5, StayAfterEnd
     DEF Local, Progress, Storage, Truth, Status, Validated, Saving, OthersStay
<1> QED
  BY <1>3, <1>4, <1>5 DEF Receive

LEMMA RetrieveLocal ==
    ASSUME TypeOK, NEW r \in Requests, Local(r), Retrieve(r)
    PROVE  Local(r)' /\ OthersStay(r)
  BY StayAfterMove
     DEF Retrieve, graphVars, storeVars, Local, Progress, Storage, Truth,
         Status, Validated, Saving, OthersStay

LEMMA ScoreLocal ==
    ASSUME TypeOK, NEW r \in Requests, Local(r), Score(r)
    PROVE  Local(r)' /\ OthersStay(r)
<1> USE RequestAssumption
<1>0. PICK n \in 0 .. TopN : \E best \in [1 .. n -> Prices] :
         scored' = [scored EXCEPT ![r] = best]
  BY DEF Score
<1>1. PICK best \in [1 .. n -> Prices] :
         scored' = [scored EXCEPT ![r] = best]
  BY <1>0
<1>2. /\ scored'[r] = best /\ Len(best) \in Nat
      /\ \A s \in Requests \ {r} : scored'[s] = scored[s]
  BY <1>1, SMT DEF TypeOK
<1>3. /\ pc[r] = "score" /\ pc'[r] = "narrate"
      /\ \A s \in Requests \ {r} : pc'[s] = pc[s]
      /\ reply' = reply /\ recs' = recs /\ retries' = retries
      /\ written' = written /\ rows' = rows
  BY StayAfterMove DEF Score, storeVars
<1>4. /\ reply[r] \in {"none", "abandoned"} /\ rows[r] = << >>
      /\ recs[r] = << >> /\ retries[r] = 0 /\ written[r] = 0
  BY <1>3 DEF Local, Progress, Storage, Truth
<1>5. written'[r] = retries'[r] * Len(scored'[r]) + Len(recs'[r])
  BY <1>2, <1>3, <1>4, SMT
<1>6. Progress(r)'
  BY <1>2, <1>3, <1>4, <1>5, SMT DEF Progress, Validated, Saving
<1>7. Storage(r)' /\ Truth(r)' /\ Status(r)'
  BY <1>3, <1>4 DEF Storage, Truth, Status
<1> QED
  BY <1>2, <1>3, <1>6, <1>7 DEF Local, OthersStay

LEMMA NarrateLocal ==
    ASSUME TypeOK, NEW r \in Requests, Local(r), Narrate(r)
    PROVE  Local(r)' /\ OthersStay(r)
<1>1. PICK text \in {"good", "short"} :
         recs' = [recs EXCEPT ![r] = Append(@,
                    [text |-> text, price |-> scored[r][Len(@) + 1]])]
  BY DEF Narrate
<1>2. /\ Len(recs'[r]) = Len(recs[r]) + 1
      /\ Len(recs[r]) \in Nat /\ Len(scored[r]) \in Nat
      /\ \A s \in Requests \ {r} : recs'[s] = recs[s]
  BY <1>1, SMT DEF TypeOK
<1>3. /\ written'[r] = written[r] + 1 /\ written[r] \in Nat
      /\ \A s \in Requests \ {r} : written'[s] = written[s]
  BY DEF Narrate, TypeOK
<1>4. /\ pc[r] = "narrate" /\ Len(recs[r]) < Len(scored[r])
      /\ pc' = pc /\ reply' = reply /\ scored' = scored
      /\ retries' = retries /\ rows' = rows
  BY DEF Narrate, storeVars
<1>5. /\ reply[r] \in {"none", "abandoned"} /\ rows[r] = << >>
      /\ retries[r] < MaxRetry
      /\ written[r] = retries[r] * Len(scored[r]) + Len(recs[r])
  BY <1>4 DEF Local, Progress, Storage, Truth
<1>6. retries[r] * Len(scored[r]) \in Nat
  BY <1>2, ProductInNat DEF TypeOK
<1>7. Progress(r)'
  <2>1. written'[r] = retries'[r] * Len(scored'[r]) + Len(recs'[r])
    BY <1>2, <1>3, <1>4, <1>5, <1>6
  <2>2. Len(recs'[r]) <= Len(scored'[r])
    BY <1>2, <1>4
  <2> QED
    BY <1>4, <1>5, <2>1, <2>2 DEF Progress, Validated, Saving
<1>8. Storage(r)' /\ Truth(r)' /\ Status(r)'
  BY <1>4, <1>5 DEF Storage, Truth, Status
<1> QED
  BY <1>2, <1>3, <1>4, <1>7, <1>8 DEF Local, OthersStay

LEMMA ValidateLocal ==
    ASSUME TypeOK, NEW r \in Requests, Local(r), Validate(r)
    PROVE  Local(r)' /\ OthersStay(r)
<1> USE RequestAssumption
<1>1. /\ pc[r] = "narrate" /\ Len(recs[r]) = Len(scored[r])
      /\ scored' = scored /\ written' = written /\ rows' = rows
  BY DEF Validate, storeVars
<1>2. /\ reply[r] \in {"none", "abandoned"} /\ rows[r] = << >>
      /\ retries[r] < MaxRetry
      /\ written[r] = retries[r] * Len(scored[r]) + Len(recs[r])
  BY <1>1 DEF Local, Progress, Storage, Truth
<1>3. retries[r] \in Nat /\ Len(scored[r]) \in Nat
  BY DEF TypeOK
<1>4. written[r] = (retries[r] + 1) * Len(scored[r])
  BY <1>1, <1>2, <1>3, OneMore
<1>5. CASE /\ Valid(recs[r])
           /\ Move(r, "acquire")
           /\ UNCHANGED <<reply, recs, retries>>
  BY <1>1, <1>2, <1>5, StayAfterMove
     DEF Local, Progress, Storage, Truth, Status, Validated, Saving,
         OthersStay, Valid
<1>6. ASSUME ~Valid(recs[r]),
             retries' = [retries EXCEPT ![r] = @ + 1],
             OutOfRetries(retries[r] + 1),
             End(r, "failed"), UNCHANGED recs
      PROVE  Local(r)' /\ OthersStay(r)
  <2>1. /\ retries'[r] = retries[r] + 1 /\ retries'[r] = MaxRetry
        /\ \A s \in Requests \ {r} : retries'[s] = retries[s]
    BY <1>2, <1>3, <1>6 DEF TypeOK, OutOfRetries
  <2>2. written'[r] = MaxRetry * Len(scored'[r])
    BY <1>1, <1>4, <2>1
  <2>3. /\ pc'[r] = "ended" /\ reply'[r] \in {"failed", "abandoned"}
        /\ \A s \in Requests \ {r} : pc'[s] = pc[s] /\ reply'[s] = reply[s]
    BY <1>2, <1>6, StayAfterEnd
  <2> QED
    BY <1>1, <1>2, <1>6, <2>1, <2>2, <2>3
       DEF Local, Progress, Storage, Truth, Status, Validated, Saving, OthersStay
<1>7. ASSUME ~Valid(recs[r]),
             retries' = [retries EXCEPT ![r] = @ + 1],
             ~OutOfRetries(retries[r] + 1),
             NewRound(r), UNCHANGED <<pc, reply>>
      PROVE  Local(r)' /\ OthersStay(r)
  <2>1. /\ retries'[r] = retries[r] + 1 /\ retries'[r] < MaxRetry
        /\ \A s \in Requests \ {r} : retries'[s] = retries[s]
    BY <1>3, <1>7 DEF TypeOK, OutOfRetries
  <2>2. /\ recs'[r] = << >> /\ Len(recs'[r]) = 0
        /\ \A s \in Requests \ {r} : recs'[s] = recs[s]
    BY <1>7 DEF NewRound, TypeOK
  <2>3. retries'[r] * Len(scored'[r]) \in Nat
    BY <1>1, <1>3, <2>1, ProductInNat
  <2>4. written'[r] = retries'[r] * Len(scored'[r]) + Len(recs'[r])
    BY <1>1, <1>4, <2>1, <2>2, <2>3
  <2>5. Progress(r)'
    BY <1>1, <1>3, <1>7, <2>1, <2>2, <2>4 DEF Progress, Validated, Saving
  <2>6. Storage(r)' /\ Truth(r)' /\ Status(r)'
    BY <1>1, <1>2, <1>7 DEF Storage, Truth, Status
  <2> QED
    BY <1>1, <1>7, <2>1, <2>2, <2>5, <2>6 DEF Local, OthersStay
<1> QED
  BY <1>5, <1>6, <1>7 DEF Validate

\* The statements of the transaction before the commit.
LEMMA StatementLocal ==
    ASSUME TypeOK, NEW r \in Requests, Local(r),
           Acquire(r) \/ UpsertProfile(r) \/ InsertRows(r)
    PROVE  Local(r)' /\ OthersStay(r)
<1>1. /\ pc[r] \in {"acquire", "upsert", "insert"}
      /\ \E to \in {"upsert", "insert", "commit"} : Move(r, to)
  BY DEF Acquire, UpsertProfile, InsertRows
<1>2. /\ pc'[r] \in {"upsert", "insert", "commit"}
      /\ \A s \in Requests \ {r} : pc'[s] = pc[s]
  BY <1>1, StayAfterMove
<1>3. /\ reply' = reply /\ scored' = scored /\ recs' = recs
      /\ retries' = retries /\ written' = written /\ rows' = rows
  BY DEF Acquire, UpsertProfile, InsertRows, graphVars, storeVars
<1> QED
  BY <1>1, <1>2, <1>3
     DEF Local, Progress, Storage, Truth, Status, Validated, Saving,
         OthersStay, Valid

LEMMA CommitLocal ==
    ASSUME TypeOK, NEW r \in Requests, Local(r), Commit(r)
    PROVE  Local(r)' /\ OthersStay(r) /\ rows'[r] # << >>
<1>1. /\ pc[r] = "commit" /\ pc'[r] = "committed"
      /\ \A s \in Requests \ {r} : pc'[s] = pc[s]
  BY StayAfterMove DEF Commit
<1>2. /\ rows'[r] = recs[r]
      /\ \A s \in Requests \ {r} : rows'[s] = rows[s]
  BY DEF Commit, TypeOK
<1>3. /\ reply' = reply /\ scored' = scored /\ recs' = recs
      /\ retries' = retries /\ written' = written
  BY DEF Commit, graphVars
<1>4. /\ retries[r] < MaxRetry /\ recs[r] # << >>
      /\ \A i \in DOMAIN recs[r] : recs[r][i].text = "good"
      /\ Len(recs[r]) = Len(scored[r])
      /\ written[r] = retries[r] * Len(scored[r]) + Len(recs[r])
      /\ reply[r] \in {"none", "abandoned"}
  BY <1>1 DEF Local, Progress, Truth, Validated, Saving, Valid
<1>5. Progress(r)'
  BY <1>1, <1>3, <1>4 DEF Progress, Validated, Saving, Valid
<1>6. Storage(r)' /\ Truth(r)' /\ Status(r)'
  BY <1>1, <1>2, <1>3, <1>4 DEF Storage, Truth, Status
<1> QED
  BY <1>1, <1>2, <1>3, <1>4, <1>5, <1>6 DEF Local, OthersStay

LEMMA RespondLocal ==
    ASSUME TypeOK, NEW r \in Requests, Local(r), Respond(r)
    PROVE  Local(r)' /\ OthersStay(r) /\ rows[r] # << >>
<1> USE RequestAssumption
<1>1. /\ pc[r] = "committed"
      /\ scored' = scored /\ recs' = recs /\ retries' = retries
      /\ written' = written /\ rows' = rows
  BY DEF Respond, graphVars
<1>2. /\ retries[r] < MaxRetry /\ rows[r] # << >>
      /\ Len(recs[r]) = Len(scored[r])
      /\ written[r] = retries[r] * Len(scored[r]) + Len(recs[r])
      /\ reply[r] \in {"none", "abandoned"}
      /\ Storage(r)
  BY <1>1 DEF Local, Progress, Storage, Truth, Validated, Saving, Valid
<1>3. retries[r] \in Nat /\ Len(scored[r]) \in Nat
  BY DEF TypeOK
<1>4. written[r] = (retries[r] + 1) * Len(scored[r])
  BY <1>2, <1>3, OneMore
<1>5. /\ pc'[r] = "ended"
      /\ reply'[r] = IF reply[r] = "none"
                       THEN IF retries[r] > 0 THEN "retried" ELSE "passed"
                       ELSE reply[r]
      /\ \A s \in Requests \ {r} : pc'[s] = pc[s] /\ reply'[s] = reply[s]
  BY StayAfterEnd DEF Respond
<1>6. Progress(r)' /\ Storage(r)' /\ Truth(r)'
  BY <1>1, <1>2, <1>5 DEF Progress, Storage, Truth, Validated, Saving
<1>7. Status(r)'
  BY <1>1, <1>2, <1>3, <1>4, <1>5 DEF Status
<1> QED
  BY <1>1, <1>2, <1>5, <1>6, <1>7 DEF Local, OthersStay

LEMMA FailLocal ==
    ASSUME TypeOK, NEW r \in Requests, Local(r), Fail(r)
    PROVE  Local(r)' /\ OthersStay(r)
<1>1. /\ pc[r] \in Running
      /\ scored' = scored /\ recs' = recs /\ retries' = retries
      /\ written' = written /\ rows' = rows
  BY DEF Fail, graphVars
<1>2. /\ pc[r] # "ended" /\ reply[r] \in {"none", "abandoned"}
      /\ Storage(r)
  BY <1>1 DEF Running, Saving, Local, Truth
<1>3. PICK code \in Errors : End(r, code)
  BY DEF Fail, ErrorsAt, Errors
<1>4. /\ pc'[r] = "ended" /\ reply'[r] \in Errors \union {"abandoned"}
      /\ \A s \in Requests \ {r} : pc'[s] = pc[s] /\ reply'[s] = reply[s]
  BY <1>2, <1>3, StayAfterEnd
<1>5. Progress(r)'
  BY <1>4 DEF Progress, Validated, Saving
<1>6. Storage(r)'
  BY <1>1, <1>2, <1>4 DEF Storage
<1>7. Truth(r)' /\ Status(r)'
  BY <1>4 DEF Truth, Status, Errors
<1> QED
  BY <1>1, <1>4, <1>5, <1>6, <1>7 DEF Local, OthersStay

LEMMA AbandonLocal ==
    ASSUME TypeOK, NEW r \in Requests, Local(r), Abandon(r)
    PROVE  Local(r)' /\ OthersStay(r)
<1>1. /\ pc' = pc /\ scored' = scored /\ recs' = recs /\ retries' = retries
      /\ written' = written /\ rows' = rows
      /\ reply'[r] = "abandoned"
      /\ \A s \in Requests \ {r} : reply'[s] = reply[s]
  BY DEF Abandon, graphVars, storeVars, TypeOK
<1> QED
  BY <1>1
     DEF Local, Progress, Storage, Truth, Status, OthersStay, Valid

LEMMA CancelLocal ==
    ASSUME TypeOK, NEW r \in Requests, Local(r), Cancel(r)
    PROVE  Local(r)' /\ OthersStay(r)
<1>1. /\ pc[r] \in Running /\ reply[r] = "abandoned" /\ reply' = reply
      /\ scored' = scored /\ recs' = recs /\ retries' = retries
      /\ written' = written /\ rows' = rows
      /\ pc'[r] = "ended"
      /\ \A s \in Requests \ {r} : pc'[s] = pc[s]
  BY StayAfterMove DEF Cancel, graphVars
<1> QED
  BY <1>1
     DEF Local, Progress, Storage, Truth, Status, OthersStay, Validated, Saving,
         Running

\* Every step is one request's.
Step(r) == Receive(r) \/ Handle(r) \/ Fail(r) \/ Abandon(r) \/ Cancel(r)

LEMMA StepLocal ==
    ASSUME TypeOK, NEW r \in Requests, Local(r), Step(r)
    PROVE  Local(r)' /\ OthersStay(r)
  BY ReceiveLocal, RetrieveLocal, ScoreLocal, NarrateLocal, ValidateLocal,
     StatementLocal, CommitLocal, RespondLocal, FailLocal, AbandonLocal,
     CancelLocal
  DEF Step, Handle

-----------------------------------------------------------------------------
(* Types.                                                                  *)

PCs == {"idle", "ended"} \union Running
Replies == {"none", "passed", "retried", "failed", "UNAUTHENTICATED",
            "INVALID_ARGUMENT", "abandoned"} \union Errors

LEMMA MoveType ==
    ASSUME TypeOK, NEW r \in Requests, NEW to \in PCs, Move(r, to)
    PROVE  pc' \in [Requests -> PCs]
  BY DEF TypeOK, Move, PCs

LEMMA EndType ==
    ASSUME TypeOK, NEW r \in Requests, NEW answer \in Replies, End(r, answer)
    PROVE  pc' \in [Requests -> PCs] /\ reply' \in [Requests -> Replies]
<1>1. Move(r, "ended") /\ "ended" \in PCs
  BY DEF End, PCs
<1>2. reply' \in [Requests -> Replies]
  BY DEF End, TypeOK, Replies
<1> QED
  BY <1>1, <1>2, MoveType

LEMMA GraphTypes ==
    ASSUME TypeOK, NEW r \in Requests, Local(r), Step(r)
    PROVE  /\ scored' \in [Requests -> Seq(Prices)]
           /\ recs' \in [Requests -> Seq(Recommendation)]
           /\ retries' \in [Requests -> 0 .. MaxRetry]
           /\ written' \in [Requests -> Nat]
<1> USE RequestAssumption
<1>1. CASE Score(r)
  <2>1. PICK n \in 0 .. TopN : \E best \in [1 .. n -> Prices] :
           scored' = [scored EXCEPT ![r] = best]
    BY <1>1 DEF Score
  <2>2. PICK best \in [1 .. n -> Prices] : scored' = [scored EXCEPT ![r] = best]
    BY <2>1
  <2>3. best \in Seq(Prices)
    BY SMT
  <2> QED
    BY <1>1, <2>2, <2>3 DEF Score, TypeOK
<1>2. CASE Narrate(r)
  <2>1. PICK text \in {"good", "short"} :
           recs' = [recs EXCEPT ![r] = Append(@,
                      [text |-> text, price |-> scored[r][Len(@) + 1]])]
    BY <1>2 DEF Narrate
  <2>2. scored[r][Len(recs[r]) + 1] \in Prices
    BY <1>2 DEF Narrate, TypeOK
  <2>3. PICK rec \in Recommendation :
           recs' = [recs EXCEPT ![r] = Append(@, rec)]
    BY <2>1, <2>2 DEF Recommendation
  <2>4. Append(recs[r], rec) \in Seq(Recommendation)
    BY <2>3 DEF TypeOK
  <2>5. recs' \in [Requests -> Seq(Recommendation)]
    BY <2>3, <2>4 DEF TypeOK
  <2> QED
    BY <1>2, <2>5 DEF Narrate, TypeOK
<1>3. CASE Validate(r)
  <2>1. retries[r] < MaxRetry
    BY <1>3 DEF Validate, Local, Progress
  <2>2. /\ retries' = retries \/ retries' = [retries EXCEPT ![r] = @ + 1]
        /\ recs' = recs \/ recs' = [recs EXCEPT ![r] = << >>]
        /\ scored' = scored /\ written' = written
    BY <1>3, Zenon DEF Validate, NewRound
  <2>3. retries[r] + 1 \in 0 .. MaxRetry
    BY <2>1 DEF TypeOK
  <2>4. retries' \in [Requests -> 0 .. MaxRetry]
    BY <2>2, <2>3 DEF TypeOK
  <2>5. << >> \in Seq(Recommendation)
    OBVIOUS
  <2>6. recs' \in [Requests -> Seq(Recommendation)]
    BY <2>2, <2>5 DEF TypeOK
  <2> QED
    BY <2>2, <2>4, <2>6 DEF TypeOK
<1>4. CASE ~Score(r) /\ ~Narrate(r) /\ ~Validate(r)
  <2>1. UNCHANGED graphVars
    BY <1>4 DEF Step, Handle, Receive, Retrieve, Acquire, UpsertProfile,
       InsertRows, Commit, Respond, Fail, Abandon, Cancel, graphVars
  <2> QED
    BY <2>1 DEF graphVars, TypeOK
<1> QED
  BY <1>1, <1>2, <1>3, <1>4

LEMMA ControlTypes ==
    ASSUME TypeOK, NEW r \in Requests, Local(r), Step(r)
    PROVE  pc' \in [Requests -> PCs] /\ reply' \in [Requests -> Replies]
<1>1. /\ pc \in [Requests -> PCs] /\ reply \in [Requests -> Replies]
      /\ "abandoned" \in Replies
  BY DEF TypeOK, PCs, Replies
<1>2. CASE \E to \in PCs : Move(r, to) /\ UNCHANGED reply
  BY <1>1, <1>2, MoveType
<1>3. CASE \E answer \in Replies : End(r, answer)
  BY <1>3, EndType
<1>4. CASE UNCHANGED pc /\ reply' \in [Requests -> Replies]
  BY <1>1, <1>4
<1>5. Receive(r) => (\E to \in PCs : Move(r, to) /\ UNCHANGED reply)
                    \/ (\E answer \in Replies : End(r, answer))
  BY DEF Receive, PCs, Replies, Running
<1>6. Retrieve(r) \/ Score(r) \/ Acquire(r) \/ UpsertProfile(r) \/ InsertRows(r)
      \/ Commit(r) \/ Cancel(r)
      => \E to \in PCs : Move(r, to) /\ UNCHANGED reply
  BY DEF Retrieve, Score, Acquire, UpsertProfile, InsertRows, Commit, Cancel,
         PCs, Running, Saving
<1>7. Respond(r) \/ Fail(r) => \E answer \in Replies : End(r, answer)
  BY DEF Respond, Fail, ErrorsAt, Errors, Replies
<1>8. Abandon(r) => UNCHANGED pc /\ reply' \in [Requests -> Replies]
  BY <1>1 DEF Abandon
<1>9. Narrate(r) => UNCHANGED pc /\ reply' \in [Requests -> Replies]
  BY <1>1 DEF Narrate
<1>10. Validate(r) => \/ \E to \in PCs : Move(r, to) /\ UNCHANGED reply
                      \/ \E answer \in Replies : End(r, answer)
                      \/ UNCHANGED pc /\ reply' \in [Requests -> Replies]
  BY <1>1 DEF Validate, PCs, Replies, Running
<1> QED
  BY <1>2, <1>3, <1>4, <1>5, <1>6, <1>7, <1>8, <1>9, <1>10 DEF Step, Handle

LEMMA StoreTypes ==
    ASSUME TypeOK, NEW r \in Requests, Step(r)
    PROVE  /\ userLock' \in [Users -> Requests \union {NoRequest}]
           /\ profile' \in [Users -> Requests \union {NoRequest}]
           /\ rows' \in [Requests -> Seq(Recommendation)]
<1>1. userLock' \in [Users -> Requests \union {NoRequest}]
  BY DEF Step, Handle, Receive, Retrieve, Score, Narrate, Validate, Acquire,
     UpsertProfile, InsertRows, Commit, Respond, Release, Fail, Abandon, Cancel,
     storeVars, TypeOK
<1>2. profile' \in [Users -> Requests \union {NoRequest}]
  BY DEF Step, Handle, Receive, Retrieve, Score, Narrate, Validate, Acquire,
     UpsertProfile, InsertRows, Commit, Respond, Fail, Abandon, Cancel,
     storeVars, TypeOK
<1>3. rows' \in [Requests -> Seq(Recommendation)]
  BY DEF Step, Handle, Receive, Retrieve, Score, Narrate, Validate, Acquire,
     UpsertProfile, InsertRows, Commit, Respond, Fail, Abandon, Cancel,
     storeVars, TypeOK
<1> QED
  BY <1>1, <1>2, <1>3

-----------------------------------------------------------------------------
(* The pool, the users' rows and the store.                                *)

InSave == {r \in Requests : pc[r] \in Saving}

LEMMA InSaveFinite == IsFiniteSet(InSave) /\ Cardinality(InSave) \in Nat
<1>1. IsFiniteSet(InSave)
  BY RequestAssumption, FS_Subset DEF InSave
<1> QED
  BY <1>1, FS_CardinalityType

\* How a step can change who has a connection.
LEMMA StepTakesOrGives ==
    ASSUME TypeOK, NEW r \in Requests, Step(r)
    PROVE  \/ conns' = conns /\ InSave' = InSave
           \/ /\ conns > 0 /\ conns' = conns - 1
              /\ r \notin InSave /\ InSave' = InSave \union {r}
           \/ conns' = conns + 1 /\ r \in InSave /\ InSave' = InSave \ {r}
<1>1. CASE Acquire(r)
  <2>1. /\ pc[r] = "acquire" /\ pc'[r] = "upsert"
        /\ \A s \in Requests \ {r} : pc'[s] = pc[s]
    BY <1>1, StayAfterMove DEF Acquire
  <2>2. r \notin InSave /\ InSave' = InSave \union {r}
    BY <2>1 DEF InSave, Saving
  <2> QED
    BY <1>1, <2>2 DEF Acquire
<1>2. CASE Respond(r) \/ Fail(r) \/ Cancel(r)
  <2>1. /\ pc'[r] = "ended"
        /\ \A s \in Requests \ {r} : pc'[s] = pc[s]
    BY <1>2, StayAfterMove, StayAfterEnd DEF Respond, Fail, Cancel
  <2>2. InSave' = InSave \ {r}
    BY <2>1 DEF InSave, Saving
  <2>3. conns' = IF pc[r] \in Saving THEN conns + 1 ELSE conns
    BY <1>2 DEF Respond, Fail, Cancel, Release
  <2>4. CASE pc[r] \in Saving
    BY <2>2, <2>3, <2>4 DEF InSave
  <2>5. CASE pc[r] \notin Saving
    <3>1. InSave \ {r} = InSave
      BY <2>5 DEF InSave
    <3> QED
      BY <2>2, <2>3, <2>5, <3>1
  <2> QED
    BY <2>4, <2>5
<1>3. CASE UpsertProfile(r) \/ InsertRows(r) \/ Commit(r)
  <2>1. /\ pc[r] \in Saving /\ pc'[r] \in Saving
        /\ \A s \in Requests \ {r} : pc'[s] = pc[s]
    BY <1>3, StayAfterMove DEF UpsertProfile, InsertRows, Commit, Saving
  <2>2. InSave' = InSave
    BY <2>1 DEF InSave
  <2> QED
    BY <1>3, <2>2 DEF UpsertProfile, InsertRows, Commit, storeVars
<1>4. CASE Receive(r) \/ Retrieve(r) \/ Score(r) \/ Narrate(r) \/ Validate(r)
           \/ Abandon(r)
  <2>1. CASE pc' = pc
    <3>1. InSave' = InSave
      BY <2>1 DEF InSave
    <3> QED
      BY <1>4, <3>1 DEF Receive, Retrieve, Score, Narrate, Validate, Abandon,
         storeVars
  <2>2. CASE pc' # pc
    <3>1. /\ pc[r] \notin Saving /\ pc'[r] \notin Saving
          /\ \A s \in Requests \ {r} : pc'[s] = pc[s]
      BY <1>4, <2>2, StayAfterMove, StayAfterEnd
         DEF Receive, Retrieve, Score, Narrate, Validate, Abandon, Saving
    <3>2. InSave' = InSave
      BY <3>1 DEF InSave
    <3> QED
      BY <1>4, <3>2 DEF Receive, Retrieve, Score, Narrate, Validate, Abandon,
         storeVars
  <2> QED
    BY <2>1, <2>2
<1> QED
  BY <1>1, <1>2, <1>3, <1>4 DEF Step, Handle

LEMMA ConnectionsKept ==
    ASSUME TypeOK, ConnectionsAccounted, NEW r \in Requests, Step(r)
    PROVE  ConnectionsAccounted' /\ conns' \in 0 .. PoolSize
<1> DEFINE n == Cardinality(InSave)
           m == Cardinality(InSave')
<1>1. n \in Nat /\ conns \in Int /\ conns + n = PoolSize /\ PoolSize \in Nat
  BY InSaveFinite, RequestAssumption DEF TypeOK, ConnectionsAccounted, InSave
<1>2. CASE conns' = conns /\ InSave' = InSave
  <2>1. m = n
    BY <1>2
  <2>2. conns' + m = PoolSize
    BY <1>1, <1>2, <2>1
  <2> QED
    BY <1>2, <2>2 DEF ConnectionsAccounted, InSave, TypeOK
<1>3. CASE /\ conns > 0 /\ conns' = conns - 1
           /\ r \notin InSave /\ InSave' = InSave \union {r}
  <2>1. m = n + 1
    BY <1>3, InSaveFinite, FS_AddElement
  <2>2. conns' + m = PoolSize /\ m \in Nat /\ conns' \in Int
    BY <1>1, <1>3, <2>1
  <2>3. conns' \in 0 .. PoolSize
    BY <1>1, <1>3 DEF TypeOK
  <2> QED
    BY <1>1, <2>2, <2>3 DEF ConnectionsAccounted, InSave
<1>4. CASE conns' = conns + 1 /\ r \in InSave /\ InSave' = InSave \ {r}
  <2>1. m = n - 1 /\ m \in Nat
    BY <1>4, InSaveFinite, FS_RemoveElement, FS_CardinalityType
  <2>2. conns' + m = PoolSize /\ m \in Nat /\ conns' \in Int
    BY <1>1, <1>4, <2>1
  <2> QED
    BY <1>1, <1>4, <2>2 DEF ConnectionsAccounted, InSave, TypeOK
<1> QED
  BY <1>2, <1>3, <1>4, StepTakesOrGives

LEMMA UserLocksKept ==
    ASSUME TypeOK, UserLocksAccounted, NEW r \in Requests, Step(r)
    PROVE  UserLocksAccounted'
<1> USE RequestAssumption
<1>1. SUFFICES ASSUME NEW u \in Users, NEW s \in Requests
               PROVE  userLock'[u] = s
                        <=> UserOf[s] = u /\ pc'[s] \in {"insert", "commit"}
  BY DEF UserLocksAccounted
<1>2. userLock[u] = s <=> UserOf[s] = u /\ pc[s] \in {"insert", "commit"}
  BY DEF UserLocksAccounted
<1>3. s # NoRequest /\ UserOf[r] \in Users
  OBVIOUS
<1>4. CASE UpsertProfile(r)
  <2>1. /\ userLock[UserOf[r]] = NoRequest
        /\ userLock'[u] = IF u = UserOf[r] THEN r ELSE userLock[u]
        /\ pc[r] = "upsert" /\ pc'[r] = "insert"
        /\ \A t \in Requests \ {r} : pc'[t] = pc[t]
    BY <1>3, <1>4, StayAfterMove DEF UpsertProfile, TypeOK
  <2> QED
    BY <1>2, <1>3, <2>1
<1>5. CASE Commit(r)
  <2>1. /\ userLock'[u] = IF u = UserOf[r] THEN NoRequest ELSE userLock[u]
        /\ pc[r] = "commit" /\ pc'[r] = "committed"
        /\ \A t \in Requests \ {r} : pc'[t] = pc[t]
    BY <1>3, <1>5, StayAfterMove DEF Commit, TypeOK
  <2>2. userLock[UserOf[r]] = r
    BY <2>1 DEF UserLocksAccounted
  <2> QED
    BY <1>2, <1>3, <2>1, <2>2
<1>6. CASE Respond(r) \/ Fail(r) \/ Cancel(r)
  <2>1. /\ userLock'[u] = IF userLock[u] = r THEN NoRequest ELSE userLock[u]
        /\ pc'[r] = "ended"
        /\ \A t \in Requests \ {r} : pc'[t] = pc[t]
    BY <1>6, StayAfterMove, StayAfterEnd
       DEF Respond, Fail, Cancel, Release
  <2> QED
    BY <1>2, <1>3, <2>1
<1>7. CASE InsertRows(r)
  <2>1. /\ userLock' = userLock /\ pc[r] = "insert" /\ pc'[r] = "commit"
        /\ \A t \in Requests \ {r} : pc'[t] = pc[t]
    BY <1>7, StayAfterMove DEF InsertRows, storeVars
  <2> QED
    BY <1>2, <2>1
<1>8. CASE Receive(r) \/ Retrieve(r) \/ Score(r) \/ Narrate(r) \/ Validate(r)
           \/ Acquire(r) \/ Abandon(r)
  <2>1. userLock' = userLock
    BY <1>8 DEF Receive, Retrieve, Score, Narrate, Validate, Acquire, Abandon,
       storeVars
  <2>2. CASE pc' = pc
    BY <1>2, <2>1, <2>2
  <2>3. CASE pc' # pc
    <3>1. /\ pc[r] \notin {"insert", "commit"}
          /\ pc'[r] \notin {"insert", "commit"}
          /\ \A t \in Requests \ {r} : pc'[t] = pc[t]
      BY <1>8, <2>3, StayAfterMove, StayAfterEnd
         DEF Receive, Retrieve, Score, Narrate, Validate, Acquire, Abandon
    <3> QED
      BY <1>2, <2>1, <3>1
  <2> QED
    BY <2>2, <2>3
<1> QED
  BY <1>4, <1>5, <1>6, <1>7, <1>8 DEF Step, Handle

LEMMA ProfilesKept ==
    ASSUME TypeOK, ProfileHasRows, NEW r \in Requests, Local(r), Step(r)
    PROVE  ProfileHasRows'
<1> USE RequestAssumption
<1>1. UserOf[r] \in Users /\ r # NoRequest
  OBVIOUS
<1>2. CASE Commit(r)
  <2>1. /\ profile' = [profile EXCEPT ![UserOf[r]] = r]
        /\ rows' = [rows EXCEPT ![r] = recs[r]]
    BY <1>2 DEF Commit
  <2>2. recs[r] # << >>
    BY <1>2 DEF Commit, Local, Progress, Validated, Saving, Valid
  <2>3. ASSUME NEW u \in Users, profile'[u] # NoRequest
        PROVE  UserOf[profile'[u]] = u /\ rows'[profile'[u]] # << >>
    BY <1>1, <2>1, <2>2, <2>3 DEF ProfileHasRows, TypeOK
  <2>4. ASSUME NEW s \in Requests, rows'[s] # << >>
        PROVE  profile'[UserOf[s]] # NoRequest
    BY <1>1, <2>1, <2>4 DEF ProfileHasRows, TypeOK
  <2> QED
    BY <2>3, <2>4 DEF ProfileHasRows
<1>3. CASE ~Commit(r)
  <2>1. profile' = profile /\ rows' = rows
    BY <1>3 DEF Step, Handle, Receive, Retrieve, Score, Narrate, Validate,
       Acquire, UpsertProfile, InsertRows, Respond, Fail, Abandon, Cancel,
       storeVars
  <2> QED
    BY <2>1 DEF ProfileHasRows
<1> QED
  BY <1>2, <1>3

LEMMA StepIInv ==
    ASSUME IInv, NEW r \in Requests, Step(r)
    PROVE  IInv'
<1>1. TypeOK /\ Local(r) /\ ConnectionsAccounted /\ UserLocksAccounted
      /\ ProfileHasRows
  BY DEF IInv
<1>2. ConnectionsAccounted' /\ conns' \in 0 .. PoolSize
  BY <1>1, ConnectionsKept
<1>3. TypeOK'
  BY <1>1, <1>2, GraphTypes, ControlTypes, StoreTypes DEF TypeOK, PCs, Replies
<1>4. ASSUME NEW s \in Requests
      PROVE  Local(s)'
  BY <1>1, StepLocal, OthersKeep DEF IInv
<1> QED
  BY <1>1, <1>2, <1>3, <1>4, UserLocksKept, ProfilesKept DEF IInv

LEMMA NextIInv == IInv /\ [Next]_vars => IInv'
<1> SUFFICES ASSUME IInv, [Next]_vars
             PROVE  IInv'
  OBVIOUS
<1>1. CASE Next
  BY <1>1, StepIInv DEF Next, Step
<1>2. CASE UNCHANGED vars
  <2>1. TypeOK' /\ ConnectionsAccounted' /\ UserLocksAccounted' /\ ProfileHasRows'
    BY <1>2 DEF vars, IInv, TypeOK, ConnectionsAccounted, UserLocksAccounted,
       ProfileHasRows
  <2>2. ASSUME NEW s \in Requests
        PROVE  Local(s)'
    BY <1>2 DEF vars, IInv, Local, Progress, Storage, Truth, Status, Valid
  <2> QED
    BY <2>1, <2>2 DEF IInv
<1> QED
  BY <1>1, <1>2

LEMMA InvariantIInv == Spec => []IInv
  BY InitIInv, NextIInv, PTL DEF Spec

-----------------------------------------------------------------------------
(***************************************************************************)
(* The state of every request, the pool and the store keep their types.    *)
(***************************************************************************)
THEOREM TypeCorrect == Spec => []TypeOK
<1>1. IInv => TypeOK
  BY DEF IInv
<1> QED
  BY <1>1, InvariantIInv, PTL

(***************************************************************************)
(* However requests end, the connections that are out are those of         *)
(* transactions under way, and a user's row is locked by the transaction   *)
(* that upserted it and until that ends.                                   *)
(***************************************************************************)
THEOREM SavesAreAccounted == Spec => []SavesAccounted
<1>1. IInv => SavesAccounted
  BY DEF IInv, SavesAccounted
<1> QED
  BY <1>1, InvariantIInv, PTL

(***************************************************************************)
(* The two tables that save_many writes agree: no profile without          *)
(* recommendations, no recommendations without a profile.                  *)
(***************************************************************************)
THEOREM TablesAgree == Spec => []ProfileHasRows
<1>1. IInv => ProfileHasRows
  BY DEF IInv
<1> QED
  BY <1>1, InvariantIInv, PTL

(***************************************************************************)
(* Only the whole of a round that validate_result passed is ever stored.   *)
(***************************************************************************)
THEOREM OnlyValidRoundsAreStored == Spec => []StoredIsOneValidRound
<1>1. IInv => StoredIsOneValidRound
  BY DEF IInv, Local, Storage, StoredIsOneValidRound
<1> QED
  BY <1>1, InvariantIInv, PTL

(***************************************************************************)
(* Status and retry count of a reply tell the number of narratives that    *)
(* generate_narrative has written for it, for any MAX_RETRY.               *)
(***************************************************************************)
THEOREM StatusIsTrue == Spec => []StatusTellsWork
<1>1. IInv => StatusTellsWork
  BY DEF IInv, Local, Status, StatusTellsWork
<1> QED
  BY <1>1, InvariantIInv, PTL

-----------------------------------------------------------------------------
(* The contract.                                                           *)

SavedSet == {r \in Requests : rows[r] # << >>}

LEMMA ContractInit == Init => Contract!Init
<1> SUFFICES ASSUME Init
             PROVE  Contract!Init
  OBVIOUS
<1>1. \A r \in Requests : rows[r] = << >>
  BY DEF Init
<1>2. {r \in Requests : rows[r] # << >>} = {}
  BY <1>1
<1> QED
  BY <1>2 DEF Init, Contract!Init

\* A commit saves; the end of a call that has a client replies; the client's
\* departure is an answer too; every other step is none of the contract's.
LEMMA StepContract ==
    ASSUME IInv, NEW r \in Requests, Step(r)
    PROVE  Contract!Next \/ UNCHANGED Contract!vars
<1>1. TypeOK /\ Local(r)
  BY DEF IInv
<1>2. CASE Commit(r)
  <2>1. /\ reply[r] \in {"none", "abandoned"} /\ r \notin SavedSet
    BY <1>1, <1>2 DEF Commit, Local, Truth, Storage, SavedSet
  <2>2. SavedSet' = SavedSet \union {r}
    <3>1. /\ rows'[r] # << >>
          /\ \A s \in Requests \ {r} : rows'[s] = rows[s]
      BY <1>1, <1>2, CommitLocal DEF OthersStay
    <3> QED
      BY <3>1 DEF SavedSet
  <2>3. Contract!Save(r)
    BY <1>2, <2>1, <2>2 DEF Commit, Contract!Save, SavedSet
  <2> QED
    BY <2>3 DEF Contract!Next
<1>3. ASSUME ~Commit(r)
      PROVE  rows' = rows /\ SavedSet' = SavedSet
  <2>1. rows' = rows
    BY <1>3 DEF Step, Handle, Receive, Retrieve, Score, Narrate, Validate,
       Acquire, UpsertProfile, InsertRows, Respond, Fail, Abandon, Cancel,
       storeVars
  <2> QED
    BY <2>1 DEF SavedSet
<1>4. CASE ~Commit(r) /\ reply' = reply
  BY <1>3, <1>4 DEF Contract!vars, SavedSet
<1>5. CASE ~Commit(r) /\ reply' # reply
  <2>1. PICK answer \in Replies \ {"none"} :
          /\ reply' = [reply EXCEPT ![r] = answer]
    <3>1. CASE \E answer \in Replies \ {"none"} : End(r, answer)
      BY <1>1, <1>5, <3>1 DEF End, TypeOK
    <3>2. Receive(r) \/ Respond(r) \/ Fail(r) \/ Validate(r)
          => reply' = reply \/ \E answer \in Replies \ {"none"} : End(r, answer)
      BY DEF Receive, Respond, Fail, Validate, ErrorsAt, Errors, Replies
    <3>3. Retrieve(r) \/ Score(r) \/ Narrate(r) \/ Acquire(r) \/ UpsertProfile(r)
          \/ InsertRows(r) \/ Cancel(r) => reply' = reply
      BY DEF Retrieve, Score, Narrate, Acquire, UpsertProfile, InsertRows, Cancel
    <3>4. CASE Abandon(r)
      BY <3>4 DEF Abandon, Replies
    <3> QED
      BY <1>5, <3>1, <3>2, <3>3, <3>4 DEF Step, Handle
  <2>2. reply'[r] = answer /\ answer \in Contract!Answers
    BY <1>1, <2>1 DEF TypeOK, Replies, Contract!Answers, Errors
  <2>3. reply[r] = "none"
    <3>1. Receive(r) \/ Respond(r) \/ Fail(r) \/ Validate(r) \/ Abandon(r)
      BY <1>5 DEF Step, Handle, Retrieve, Score, Narrate, Acquire,
         UpsertProfile, InsertRows, Cancel
    <3>2. CASE Abandon(r)
      BY <3>2 DEF Abandon
    <3>3. CASE \E code : End(r, code)
      BY <1>1, <1>5, <3>3 DEF End, TypeOK
    <3> QED
      BY <1>5, <3>1, <3>2, <3>3 DEF Receive, Respond, Fail, Validate
  <2>4. Local(r)'
    BY <1>1, StepLocal
  <2>5. /\ answer \in {"passed", "retried"} => r \in SavedSet
        /\ answer \in {"failed", "UNAUTHENTICATED", "INVALID_ARGUMENT"}
             => r \notin SavedSet
    BY <1>3, <1>5, <2>2, <2>4 DEF Local, Truth, SavedSet
  <2>6. Contract!Reply(r, answer)
    BY <1>3, <1>5, <2>1, <2>3, <2>5 DEF Contract!Reply, SavedSet
  <2> QED
    BY <2>2, <2>6 DEF Contract!Next
<1> QED
  BY <1>2, <1>4, <1>5

(***************************************************************************)
(* GetRecommendations keeps its contract for any number of requests: each  *)
(* gets one answer, a success is stored before it is answered, and what    *)
(* was answered as failed or rejected is not stored, then or later.        *)
(***************************************************************************)
THEOREM RequestsKeepTheContract == Spec => ImplementsContract
<1>1. IInv /\ [Next]_vars => [Contract!Next]_Contract!vars
  <2> SUFFICES ASSUME IInv, [Next]_vars
               PROVE  Contract!Next \/ UNCHANGED Contract!vars
    BY DEF Contract!vars
  <2>1. CASE Next
    BY <2>1, StepContract DEF Next, Step
  <2>2. CASE UNCHANGED vars
    BY <2>2 DEF vars, Contract!vars
  <2> QED
    BY <2>1, <2>2
<1> QED
  BY <1>1, ContractInit, InvariantIInv, PTL
     DEF Spec, ImplementsContract, Contract!Spec

-----------------------------------------------------------------------------
(* What the end of every handler rests on besides fairness: somebody can   *)
(* always go on, and nobody goes back.                                     *)

\* The guards of Handle(r), written out.
CanGoOn(r) ==
    \/ pc[r] \in {"narrate", "insert", "commit", "committed"}
    \/ pc[r] \in {"retrieve", "score", "acquire"} /\ conns > 0
    \/ pc[r] = "upsert" /\ userLock[UserOf[r]] = NoRequest

SomeoneGoesOn ==
    \A r \in Requests : pc[r] \in Running =>
        \E q \in Requests : CanGoOn(q) /\ (q = r \/ pc[q] \in Saving)

(***************************************************************************)
(* Handlers never all wait for each other, however small the pool: of one  *)
(* that is not done, it or one inside save_many can go on.  Whoever waits  *)
(* for the row of a user has its connection already, and whoever has the   *)
(* row waits for nothing, so a pool full of transactions of one user       *)
(* empties itself.                                                         *)
(***************************************************************************)
THEOREM NoCircleOfWaits == Spec => []SomeoneGoesOn
<1>1. ASSUME IInv, NEW r \in Requests, pc[r] \in Saving
      PROVE  \E q \in Requests : CanGoOn(q) /\ pc[q] \in Saving
  <2>1. CASE pc[r] = "upsert" /\ userLock[UserOf[r]] # NoRequest
    <3> DEFINE h == userLock[UserOf[r]]
    <3>1. h \in Requests /\ UserOf[r] \in Users
      BY <1>1, <2>1, RequestAssumption DEF IInv, TypeOK
    <3>2. pc[h] \in {"insert", "commit"}
      BY <1>1, <3>1 DEF IInv, UserLocksAccounted
    <3> QED
      BY <3>1, <3>2 DEF CanGoOn, Saving
  <2>2. CASE ~(pc[r] = "upsert" /\ userLock[UserOf[r]] # NoRequest)
    BY <1>1, <2>2 DEF CanGoOn, Saving
  <2> QED
    BY <2>1, <2>2
<1>2. ASSUME IInv, ~(conns > 0)
      PROVE  \E q \in Requests : CanGoOn(q) /\ pc[q] \in Saving
  <2>1. Cardinality(InSave) = PoolSize
    <3>1. conns + Cardinality(InSave) = PoolSize /\ conns \in 0 .. PoolSize
      BY <1>2 DEF IInv, TypeOK, ConnectionsAccounted, InSave
    <3> QED
      BY <1>2, <3>1, InSaveFinite, RequestAssumption, SMT
  <2>2. InSave # {}
    BY <2>1, RequestAssumption, FS_EmptySet
  <2> QED
    BY <1>1, <1>2, <2>2 DEF InSave
<1>3. IInv => SomeoneGoesOn
  <2> SUFFICES ASSUME IInv, NEW r \in Requests, pc[r] \in Running
               PROVE  \E q \in Requests : CanGoOn(q) /\ (q = r \/ pc[q] \in Saving)
    BY DEF SomeoneGoesOn
  <2>1. CASE pc[r] \in Saving
    BY <1>1, <2>1
  <2>2. CASE pc[r] \in {"retrieve", "score", "acquire"} /\ ~(conns > 0)
    BY <1>2, <2>2
  <2>3. CASE pc[r] \in {"retrieve", "score", "acquire"} /\ conns > 0
    BY <2>3 DEF CanGoOn
  <2>4. CASE pc[r] = "narrate"
    BY <2>4 DEF CanGoOn
  <2> QED
    BY <2>1, <2>2, <2>3, <2>4 DEF Running
<1> QED
  BY <1>3, InvariantIInv, PTL

Place(p) ==
    CASE p = "idle" -> 0 [] p = "retrieve" -> 1 [] p = "score" -> 2 [] p = "narrate" -> 3
      [] p = "acquire" -> 4 [] p = "upsert" -> 5 [] p = "insert" -> 6 [] p = "commit" -> 7
      [] p = "committed" -> 8 [] OTHER -> 9

\* A step takes a request to a later place, to its next round or to the next
\* text of its round, or leaves it where it is.
Ahead(r) ==
    \/ Place(pc[r]) < Place(pc'[r])
    \/ /\ pc'[r] = pc[r] /\ scored'[r] = scored[r]
       /\ \/ retries[r] < retries'[r]
          \/ retries'[r] = retries[r] /\ Len(recs[r]) < Len(recs'[r])
          \/ retries'[r] = retries[r] /\ recs'[r] = recs[r]

NobodyGoesBack == [][\A r \in Requests : Ahead(r)]_vars

\* What bounds the rounds and the texts of a round.
LoopBounded ==
    \A r \in Requests : /\ retries[r] <= MaxRetry
                        /\ pc[r] = "narrate" => Len(recs[r]) <= Len(scored[r])

(***************************************************************************)
(* The one loop of the graph, from validate_result back to the narrative,  *)
(* is the only way back, and each turn of it counts: with at most MAX_RETRY *)
(* rounds of at most as many texts as candidates, a handler takes finitely *)
(* many steps, whatever texts the model writes.                            *)
(***************************************************************************)
THEOREM HandlersOnlyGoOn == Spec => NobodyGoesBack /\ []LoopBounded
<1>1. ASSUME IInv, NEW r \in Requests, Step(r)
      PROVE  \A q \in Requests : Ahead(q)
  <2>1. OthersStay(r)
    BY <1>1, StepLocal DEF IInv
  <2>2. \A q \in Requests \ {r} : Ahead(q)
    BY <2>1 DEF OthersStay, Ahead
  <2>3. Ahead(r)
    <3>1. CASE Receive(r)
      <4>1. pc[r] = "idle" /\ pc'[r] \in {"retrieve", "ended"}
        BY <3>1, <1>1, StayAfterMove, StayAfterEnd DEF Receive, IInv
      <4> QED
        BY <4>1, SMT DEF Ahead, Place
    <3>2. CASE Narrate(r)
      <4>1. recs[r] \in Seq(Recommendation) /\ Len(recs'[r]) = Len(recs[r]) + 1
        <5>1. PICK text \in {"good", "short"} :
                 recs' = [recs EXCEPT ![r] = Append(@,
                     [text |-> text, price |-> scored[r][Len(@) + 1]])]
          BY <3>2 DEF Narrate
        <5>2. recs[r] \in Seq(Recommendation)
          BY <1>1 DEF IInv, TypeOK
        <5> QED
          BY <1>1, <5>1, <5>2, SMT DEF IInv, TypeOK
      <4>2. Len(recs[r]) < Len(recs'[r])
        BY <4>1, SMT
      <4> QED
        BY <3>2, <4>2 DEF Narrate, Ahead
    <3>3. CASE Validate(r)
      <4>1. CASE Move(r, "acquire")
        <5>1. pc[r] = "narrate" /\ pc'[r] = "acquire"
          BY <3>3, <4>1, <1>1, StayAfterMove DEF Validate, IInv
        <5> QED
          BY <5>1, SMT DEF Ahead, Place
      <4>2. CASE End(r, "failed")
        <5>1. pc[r] = "narrate" /\ pc'[r] = "ended"
          BY <3>3, <4>2, <1>1, StayAfterEnd DEF Validate, IInv
        <5> QED
          BY <5>1, SMT DEF Ahead, Place
      <4>3. CASE retries' = [retries EXCEPT ![r] = @ + 1] /\ UNCHANGED <<pc, reply>>
        <5>1. retries[r] < retries'[r]
          BY <1>1, <4>3, SMT DEF IInv, TypeOK
        <5> QED
          BY <3>3, <4>3, <5>1 DEF Validate, Ahead
      <4> QED
        BY <3>3, <4>1, <4>2, <4>3 DEF Validate
    <3>4. CASE Abandon(r)
      BY <3>4 DEF Abandon, graphVars, Ahead
    <3>5. CASE \/ Retrieve(r) \/ Score(r) \/ Acquire(r) \/ UpsertProfile(r)
               \/ InsertRows(r) \/ Commit(r) \/ Respond(r)
      <4>1. \/ pc[r] = "retrieve" /\ pc'[r] = "score"
            \/ pc[r] = "score" /\ pc'[r] = "narrate"
            \/ pc[r] = "acquire" /\ pc'[r] = "upsert"
            \/ pc[r] = "upsert" /\ pc'[r] = "insert"
            \/ pc[r] = "insert" /\ pc'[r] = "commit"
            \/ pc[r] = "commit" /\ pc'[r] = "committed"
            \/ pc[r] = "committed" /\ pc'[r] = "ended"
        BY <3>5, <1>1, StayAfterMove, StayAfterEnd
           DEF Retrieve, Score, Acquire, UpsertProfile, InsertRows, Commit, Respond, IInv
      <4> QED
        BY <4>1, SMT DEF Ahead, Place
    <3>6. CASE Fail(r) \/ Cancel(r)
      <4>1. pc[r] \in Running /\ pc'[r] = "ended"
        BY <3>6, <1>1, StayAfterMove, StayAfterEnd DEF Fail, Cancel, IInv
      <4> QED
        BY <4>1, SMT DEF Ahead, Place, Running, Saving
    <3> QED
      BY <1>1, <3>1, <3>2, <3>3, <3>4, <3>5, <3>6 DEF Step, Handle
  <2> QED
    BY <2>2, <2>3
<1>2. IInv /\ [Next]_vars => [\A r \in Requests : Ahead(r)]_vars
  BY <1>1 DEF Next, Step
<1>3. IInv => LoopBounded
  BY SMT DEF IInv, TypeOK, Local, Progress, LoopBounded
<1> QED
  BY <1>2, <1>3, InvariantIInv, PTL DEF Spec, NobodyGoesBack
=============================================================================
