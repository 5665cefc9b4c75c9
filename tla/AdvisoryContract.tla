--------------------------- MODULE AdvisoryContract ---------------------------
(***************************************************************************)
(* What GetRecommendations promises its client, and nothing of how: each   *)
(* request gets one reply, and a reply of success tells the truth about    *)
(* the store.  A client may go away first; its result may be stored still. *)
(***************************************************************************)
CONSTANTS
    Requests,       \* calls of GetRecommendations
    Errors          \* the status codes of a failed call

VARIABLES
    reply,          \* what each client has got
    saved           \* the requests whose recommendations are stored

vars == <<reply, saved>>

Init ==
    /\ reply = [r \in Requests |-> "none"]
    /\ saved = {}

\* The result of a request is stored, once, before any reply to it.
Save(r) ==
    /\ reply[r] \in {"none", "abandoned"}
    /\ r \notin saved
    /\ saved' = saved \union {r}
    /\ UNCHANGED reply

\* An error says nothing of the store: a commit may have got through.
Reply(r, answer) ==
    /\ reply[r] = "none"
    /\ answer \in {"passed", "retried"} => r \in saved
    /\ answer \in {"failed", "UNAUTHENTICATED", "INVALID_ARGUMENT"} => r \notin saved
    /\ reply' = [reply EXCEPT ![r] = answer]
    /\ UNCHANGED saved

Answers == {"passed", "retried", "failed", "UNAUTHENTICATED",
            "INVALID_ARGUMENT", "abandoned"} \union Errors

Next ==
    \/ \E r \in Requests : Save(r)
    \/ \E r \in Requests : \E answer \in Answers : Reply(r, answer)

Spec == Init /\ [][Next]_vars
=============================================================================
