--------------------------- MODULE MCFetchEngine ---------------------------
(***************************************************************************)
(* Small instances of FetchEngine for TLC: two tails, of which the first   *)
(* is as large as the whole budget or as small as the second.              *)
(***************************************************************************)
EXTENDS FetchEngine, TLC

Sizes == [t \in Tails |-> IF t = 1 THEN 2 ELSE 1]
SmallSizes == [t \in Tails |-> 1]

Req(kind, tails, prio) == [kind |-> kind, tails |-> tails, prio |-> prio]

Blobs == {Req("blob", {t}, Demand) : t \in Tails}

\* A background batch, with demand landing on the same tails.
BatchRequests == Blobs \cup {Req("batch", Tails, 1)}

\* A batch of sweeps, one of them requested before and forgotten, and demand
\* that joins it while it runs.
MixedRequests ==
    Blobs \cup {Req("batch", Tails, Sweep), Req("queue", {2}, Sweep)}

\* A batch of sweeps, demand that waits for good, demand that gives up.
LiveRequests ==
    {Req("batch", Tails, Sweep), Req("blob", {1}, Demand),
     Req("timed", {2}, Demand)}
=============================================================================
