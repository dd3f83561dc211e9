---------------------------- MODULE FetchService ----------------------------
(***************************************************************************)
(* What the download engine promises its callers (vfs_fetch.h), without    *)
(* workers, priorities, bundles, budgets or a queue.                       *)
(*                                                                         *)
(* A blob that is asked for has at most one request under way, whoever     *)
(* asks.  A request is answered once and for good: done when the blob is   *)
(* whole in the store, failed, or abandoned with all the others when the   *)
(* engine is stopped.  The store is only touched where a request is under  *)
(* way.  A caller that waits is told yes when all it waits for is done,    *)
(* and no only for a reason.  FetchEngine is shown to implement this.      *)
(***************************************************************************)
CONSTANTS Clients, Tails

VARIABLES
    stopping,   \* the engine was told to stop, and not started again
    blob,       \* request -> the tail it is for
    result,     \* request -> what came of it
    store,      \* tail -> what the store holds of it
    wanted,     \* client -> the tails of its call
    awaits,     \* client -> the requests its call waits for
    answer      \* client -> what it was told

vars == <<stopping, blob, result, store, wanted, awaits, answer>>

File == {"absent", "partial", "whole"}
Pending == {r \in DOMAIN result : result[r] = "pending"}

Init ==
    /\ stopping = FALSE
    /\ DOMAIN result = {} /\ DOMAIN blob = {}
    /\ store = [t \in Tails |-> "absent"]
    /\ wanted = [c \in Clients |-> {}]
    /\ awaits = [c \in Clients |-> {}]
    /\ answer = [c \in Clients |-> "none"]

\* Requests are only added, each for a tail that has none under way.
Grow ==
    /\ \A r \in DOMAIN result : /\ r \in DOMAIN result'
                                /\ result'[r] = result[r]
                                /\ blob'[r] = blob[r]
    /\ DOMAIN blob' = DOMAIN result'
    /\ DOMAIN result' \ DOMAIN result \subseteq Pending'
    /\ \A q, r \in Pending' : blob'[q] = blob'[r] => q = r

\* A call finds each tail it wants in the store, or depends on a request for
\* it.  It may wait, with a timeout or without, or leave it at that.
Ask(c) ==
    /\ answer[c] = "none"
    /\ Grow
    /\ \E S \in SUBSET Tails, R \in SUBSET Pending' :
       /\ \A t \in S : store[t] # "absent" \/ \E r \in R : blob'[r] = t
       /\ \A r \in R : blob'[r] \in S
       /\ wanted' = [wanted EXCEPT ![c] = S]
       /\ \/ /\ \E a \in {"waits", "timed"} : answer' = [answer EXCEPT ![c] = a]
             /\ awaits' = [awaits EXCEPT ![c] = R]
          \/ /\ \E a \in {"left", "yes"} : /\ a = "yes" => R = {}
                                          /\ answer' = [answer EXCEPT ![c] = a]
             /\ UNCHANGED awaits
    /\ UNCHANGED <<stopping, store>>

\* A call is turned away: the engine does not run.
Refuse(c) ==
    /\ answer[c] = "none"
    /\ \E S \in SUBSET Tails : wanted' = [wanted EXCEPT ![c] = S]
    /\ answer' = [answer EXCEPT ![c] = "no"]
    /\ UNCHANGED <<stopping, blob, result, store, awaits>>

\* Yes means that all the call depends on is done, unless a stop cut it short.
Yes(c) ==
    /\ answer[c] \in {"waits", "timed"}
    /\ stopping \/ \A r \in awaits[c] : result[r] = "done"
    /\ answer' = [answer EXCEPT ![c] = "yes"]

\* No means that something failed, that the engine stops, or a timeout.
No(c) ==
    /\ \/ answer[c] = "timed"
       \/ answer[c] = "waits" /\ (stopping \/ \E r \in awaits[c] : result[r] = "failed")
    /\ answer' = [answer EXCEPT ![c] = "no"]

Tell(c) ==
    /\ Yes(c) \/ No(c)
    /\ awaits' = [awaits EXCEPT ![c] = {}]
    /\ UNCHANGED <<stopping, blob, result, store, wanted>>

Return(c) ==
    /\ answer[c] \in {"yes", "no", "left"}
    /\ wanted' = [wanted EXCEPT ![c] = {}]
    /\ answer' = [answer EXCEPT ![c] = "none"]
    /\ UNCHANGED <<stopping, blob, result, store, awaits>>

\* The store changes only where a request is under way.
Write ==
    /\ \E r \in Pending, f \in File : store' = [store EXCEPT ![blob[r]] = f]
    /\ UNCHANGED <<stopping, blob, result, wanted, awaits, answer>>

\* Requests end together when one transfer brought all their blobs.
Finish(R, as) ==
    /\ result' = [r \in DOMAIN result |-> IF r \in R THEN as ELSE result[r]]
    /\ UNCHANGED <<blob, store, wanted, awaits, answer>>

Deliver ==
    /\ \E R \in SUBSET Pending :
       /\ \A r \in R : store[blob[r]] = "whole"
       /\ Finish(R, "done")
    /\ UNCHANGED stopping

Fail ==
    /\ \E r \in Pending : Finish({r}, "failed")
    /\ UNCHANGED stopping

\* A stop abandons what is under way; a start begins anew.
Abandon == stopping /\ Finish(Pending, "abandoned") /\ UNCHANGED stopping

Switch ==
    /\ stopping' \in BOOLEAN
    /\ UNCHANGED <<blob, result, store, wanted, awaits, answer>>

Next ==
    \/ Switch \/ Write \/ Fail \/ Deliver \/ Abandon
    \/ \E c \in Clients : Return(c) \/ Tell(c) \/ Refuse(c) \/ Ask(c)

Spec == Init /\ [][Next]_vars
=============================================================================
