---------------------------- MODULE ScriptQueue ----------------------------
(***************************************************************************)
(* The marshaling queue of the script runtime                              *)
(* (src/Assistant/script/commandqueue.cpp).  A script's worker thread      *)
(* allocates a command record, pushes a node that snapshots it and waits;  *)
(* the main thread drains the queue, executes and copies the result back.  *)
(* A node is known by its address, which the heap may give out again.      *)
(*                                                                         *)
(* One action is one critical section of s_QueueMutex or of a node's       *)
(* mutex, or one step taken outside both.  The module has no specification *)
(* of its own: ScriptRuntime runs its actions on the worker threads and on *)
(* the main thread.                                                        *)
(***************************************************************************)
EXTENDS Naturals, Sequences, FiniteSets, SequencesExt

CONSTANTS
    Scripts,    \* the script files; each has at most one worker at a time
    Nodes,      \* heap addresses a QUEUE_NODE can get
    NoNode,     \* nullptr
    Capacity,   \* s_Capacity
    Budget,     \* nodes one ScriptQueue_Drain executes (64)
    MaxCalls    \* bound: calls one script makes

ASSUME ScriptQueueAssumption ==
    /\ Capacity \in Nat \ {0} /\ Budget \in Nat \ {0} /\ MaxCalls \in Nat
    /\ NoNode \notin Nodes

VARIABLES
    queue,      \* s_Queue: the addresses pushed, oldest first
    retired,    \* s_Retired: the addresses completed and not yet deleted
    shutdown,   \* s_Shutdown
    node,       \* address -> the QUEUE_NODE there, or Unallocated
    call,       \* script -> its command record and where its Exec is
    stop,       \* script -> m_TerminatePending, which the cancel hook polls
    drain,      \* where ScriptQueue_Drain is, its node and its budget
    late        \* (history) script -> calls executed after its stop

queueVars == <<queue, retired, shutdown, node, call, stop, drain, late>>

\* A record's no tells the calls of a script apart; ran (history) says whether
\* the main thread has executed this one.
Call == [pc : {"none", "push", "wait", "scan", "read"}, no : 0..MaxCalls,
         node : Nodes \cup {NoNode}, dropped : BOOLEAN, ran : BOOLEAN]
Unallocated == [live |-> FALSE]
Node == {Unallocated} \cup
        [live : {TRUE}, owner : Scripts, no : 1..MaxCalls,
         done : BOOLEAN, ack : BOOLEAN, abandoned : BOOLEAN]
DrainPc == {"off", "pop", "exec", "complete", "park", "last", "erase"}

QueueTypeOK ==
    /\ queue \in Seq(Nodes) /\ retired \subseteq Nodes /\ shutdown \in BOOLEAN
    /\ node \in [Nodes -> Node] /\ call \in [Scripts -> Call]
    /\ stop \in [Scripts -> BOOLEAN]
    /\ drain \in [pc : DrainPc, node : Nodes \cup {NoNode}, left : 0..Budget]
    /\ late \in [Scripts -> 0..MaxCalls]

QueueInit ==
    /\ queue = <<>> /\ retired = {} /\ shutdown = FALSE
    /\ node = [a \in Nodes |-> Unallocated]
    /\ call = [s \in Scripts |->
                 [pc |-> "none", no |-> 0, node |-> NoNode,
                  dropped |-> FALSE, ran |-> FALSE]]
    /\ stop = [s \in Scripts |-> FALSE]
    /\ drain = [pc |-> "off", node |-> NoNode, left |-> 0]
    /\ late = [s \in Scripts |-> 0]

\* Exec has not returned.  At "read" it has, and the record is the script's.
InExec(s) == call[s].pc \in {"push", "wait", "scan"}

\* reclaim_locked, over the nodes nd and the retired list R: a node whose
\* waiter has acknowledged or abandoned it is deleted.
Reclaimable(nd, R) == {a \in R : nd[a].done /\ (nd[a].ack \/ nd[a].abandoned)}
Reclaim(nd, R) ==
    /\ retired' = R \ Reclaimable(nd, R)
    /\ node' = [a \in Nodes |-> IF a \in Reclaimable(nd, R)
                                THEN Unallocated ELSE nd[a]]

\* complete_node: done, the waiter wakes up.
Done(nd, A) == [a \in Nodes |-> IF a \in A THEN [nd[a] EXCEPT !.done = TRUE] ELSE nd[a]]

\* complete_node on nodes that are refused: the records of their owners, who
\* are all still in Exec, read dropped.
\* (mutation: the record keeps reading as a result)
RefusedSilently(A) == call
Refused(A) == [s \in Scripts |-> IF \E a \in A : node[a].owner = s
                                 THEN [call[s] EXCEPT !.dropped = TRUE] ELSE call[s]]

-----------------------------------------------------------------------------
(***************************************************************************)
(* ScriptQueue_Exec, on a script's worker thread                           *)
(***************************************************************************)

\* The cancel check before the call.
\* (mutation: a call is only cancelled while it waits)
NeverRefuses(s) == FALSE
Refuses(s) == stop[s]

\* A new record.  A stop that is already pending refuses it.
ExecBegin(s) ==
    /\ call[s].pc = "none" /\ call[s].no < MaxCalls
    /\ call' = [call EXCEPT ![s] =
                  [pc |-> IF Refuses(s) THEN "read" ELSE "push", no |-> @.no + 1,
                   node |-> NoNode, dropped |-> Refuses(s), ran |-> FALSE]]
    /\ IF Refuses(s) THEN UNCHANGED <<node, retired>> ELSE Reclaim(node, retired)
    /\ UNCHANGED <<queue, shutdown, stop, drain, late>>

\* The new node: a snapshot of the record of s.
Allocated(a, s) == [live |-> TRUE, owner |-> s, no |-> call[s].no,
                    done |-> FALSE, ack |-> FALSE, abandoned |-> FALSE]

ExecPush(s) ==
    /\ call[s].pc = "push" /\ ~shutdown /\ Len(queue) < Capacity
    /\ \E a \in {b \in Nodes : ~node[b].live} :
         /\ queue' = Append(queue, a)
         /\ node' = [node EXCEPT ![a] = Allocated(a, s)]
         /\ call' = [call EXCEPT ![s].pc = "wait", ![s].node = a]
    /\ UNCHANGED <<retired, shutdown, stop, drain, late>>

\* drop_oldest_locked makes room in a full queue.
ExecPushFull(s) ==
    /\ call[s].pc = "push" /\ ~shutdown /\ Len(queue) >= Capacity
    /\ \E a \in {b \in Nodes : ~node[b].live} :
         LET victim == Head(queue)
         IN /\ queue' = Append(Tail(queue), a)
            /\ retired' = retired \cup {victim}
            /\ node' = [Done(node, {victim}) EXCEPT ![a] = Allocated(a, s)]
            /\ call' = [Refused({victim}) EXCEPT ![s].pc = "wait", ![s].node = a]
    /\ UNCHANGED <<shutdown, stop, drain, late>>

\* A queue that is shut takes nothing: the node is deleted again.
ExecRefused(s) ==
    /\ call[s].pc = "push" /\ shutdown
    /\ call' = [call EXCEPT ![s].pc = "read", ![s].dropped = TRUE]
    /\ UNCHANGED <<queue, retired, shutdown, node, stop, drain, late>>

\* The waiter sees the node done and acknowledges it.
ExecDone(s) ==
    /\ call[s].pc = "wait" /\ node[call[s].node].done
    /\ node' = [node EXCEPT ![call[s].node].ack = TRUE]
    /\ call' = [call EXCEPT ![s].pc = "read"]
    /\ UNCHANGED <<queue, retired, shutdown, stop, drain, late>>

\* The wait ends without a result: a timeout, or a stop the cancel hook sees.
ExecAbandon(s) ==
    /\ call[s].pc = "wait" /\ ~node[call[s].node].done
    /\ node' = [node EXCEPT ![call[s].node].abandoned = TRUE]
    /\ call' = [call EXCEPT ![s].pc = "scan", ![s].dropped = TRUE]
    /\ UNCHANGED <<queue, retired, shutdown, stop, drain, late>>

\* (mutation: the node is deleted and left in the queue)
StillQueued(q, a) == q
Unqueued(q, a) == RemoveFirst(q, a)

\* A waiter that gave up deletes the node if its address is in the queue.
ExecScan(s) ==
    /\ call[s].pc = "scan"
    /\ LET a == call[s].node
       IN /\ queue' = Unqueued(queue, a)
          /\ node' = IF a \in ToSet(queue)
                     THEN [node EXCEPT ![a] = Unallocated] ELSE node
    /\ call' = [call EXCEPT ![s].pc = "read"]
    /\ UNCHANGED <<retired, shutdown, stop, drain, late>>

\* The native has read the results: the record is deleted.
ExecRead(s) ==
    /\ call[s].pc = "read"
    /\ call' = [call EXCEPT ![s].pc = "none", ![s].node = NoNode, ![s].dropped = FALSE,
                            ![s].ran = FALSE]
    /\ UNCHANGED <<queue, retired, shutdown, node, stop, drain, late>>

-----------------------------------------------------------------------------
(***************************************************************************)
(* ScriptQueue_Drain and ScriptQueue_Shutdown, on the main thread          *)
(***************************************************************************)

DrainBegin ==
    /\ drain.pc = "off"
    /\ drain' = [pc |-> "pop", node |-> NoNode, left |-> Budget]
    /\ UNCHANGED <<queue, retired, shutdown, node, call, stop, late>>

\* (mutation: the budget is not looked at)
NothingLeft == queue = <<>>
\* (mutation: the last of the budget is not used)
AlmostSpent == queue = <<>> \/ drain.left <= 1
Exhausted == queue = <<>> \/ drain.left = 0

DrainPop ==
    /\ drain.pc = "pop" /\ ~Exhausted
    /\ queue' = Tail(queue)
    /\ drain' = [drain EXCEPT !.pc = "exec", !.node = Head(queue)]
    /\ Reclaim(node, retired)
    /\ UNCHANGED <<shutdown, call, stop, late>>

DrainStop ==
    /\ drain.pc = "pop" /\ Exhausted
    /\ drain' = [drain EXCEPT !.pc = "last"]
    /\ UNCHANGED <<queue, retired, shutdown, node, call, stop, late>>

\* ScriptCommand_Execute.  (What a command does to other scripts is in
\* ScriptRuntime.)
DrainExecute ==
    /\ drain.pc = "exec"
    /\ LET s == node[drain.node].owner
       IN /\ call' = IF call[s].no = node[drain.node].no /\ call[s].pc # "none"
                     THEN [call EXCEPT ![s].ran = TRUE] ELSE call
          /\ late' = IF stop[s] THEN [late EXCEPT ![s] = @ + 1] ELSE late
    /\ drain' = [drain EXCEPT !.pc = "complete"]
    /\ UNCHANGED <<queue, retired, shutdown, node, stop>>

(***************************************************************************)
(* complete_node.  The result goes to the caller's record, unless the      *)
(* waiter abandoned the node: then the record is marked dropped without a  *)
(* look at whether Exec has returned.  When it has, the write is lost or   *)
(* hits the record the script has there by now.                            *)
(***************************************************************************)
DrainComplete ==
    /\ drain.pc = "complete"
    /\ LET n == node[drain.node]
       IN \/ /\ ~n.abandoned
             /\ call' = [call EXCEPT ![n.owner].dropped = FALSE]
          \/ n.abandoned /\ call' = call
          \/ /\ n.abandoned /\ call[n.owner].pc # "none"
             /\ call' = [call EXCEPT ![n.owner].dropped = TRUE]
    /\ node' = Done(node, {drain.node})
    /\ drain' = [drain EXCEPT !.pc = "park"]
    /\ UNCHANGED <<queue, retired, shutdown, stop, late>>

DrainPark ==
    /\ drain.pc = "park"
    /\ Reclaim(node, retired \cup {drain.node})
    /\ drain' = [pc |-> "pop", node |-> NoNode, left |-> drain.left - 1]
    /\ UNCHANGED <<queue, shutdown, call, stop, late>>

\* The last reclaim_locked, which runs without s_QueueMutex: it finds a node
\* to delete, and deletes it, while a worker may be in reclaim_locked too.
LastLook ==
    /\ drain.pc = "last"
    /\ \E a \in Reclaimable(node, retired) :
          drain' = [drain EXCEPT !.pc = "erase", !.node = a]
    /\ UNCHANGED <<queue, retired, shutdown, node, call, stop, late>>

LastErase ==
    /\ drain.pc = "erase"
    /\ retired' = retired \ {drain.node}
    /\ node' = [node EXCEPT ![drain.node] = Unallocated]
    /\ drain' = [drain EXCEPT !.pc = "last", !.node = NoNode]
    /\ UNCHANGED <<queue, shutdown, call, stop, late>>

DrainEnd ==
    /\ drain.pc = "last" /\ Reclaimable(node, retired) = {}
    /\ drain' = [drain EXCEPT !.pc = "off", !.left = 0]
    /\ UNCHANGED <<queue, retired, shutdown, node, call, stop, late>>

\* Every pending node is refused; the queue takes none from now on.
Shutdown ==
    /\ shutdown' = TRUE /\ queue' = <<>>
    /\ Reclaim(Done(node, ToSet(queue)), retired \cup ToSet(queue))
    /\ call' = Refused(ToSet(queue))
    /\ UNCHANGED <<stop, drain, late>>

-----------------------------------------------------------------------------
(***************************************************************************)
(* What must not happen to memory.  From a state where it has, the program *)
(* is undefined: ScriptRuntime takes no further step.                      *)
(***************************************************************************)

\* The drain's last pass is about to delete a node that a worker's pass has
\* deleted since it looked.
DoubleDelete == drain.pc = "erase" /\ drain.node \notin retired

\* A worker that waits on a node has it deleted under it.
NodeStolen == \E s \in Scripts :
    /\ call[s].pc = "wait"
    /\ LET n == node[call[s].node]
       IN ~n.live \/ n.owner # s \/ n.no # call[s].no
=============================================================================
