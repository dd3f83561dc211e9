--------------------------- MODULE ScriptRuntime ---------------------------
(***************************************************************************)
(* The script runtime of the assistant: the command queue, the handles and *)
(* worker threads of scripthandle.cpp, and the main thread that drains the *)
(* queue, ticks the manager and joins the workers when the client leaves   *)
(* the game (assistantui.cpp, AssistantWindow.cpp).                        *)
(***************************************************************************)
EXTENDS ScriptQueue

CONSTANTS
    MaxHandles,     \* SCRIPT_MAX_CONCURRENT
    MaxOps,         \* bound: manager operations of the user and of commands
    NoScript,       \* no script
    Stuck           \* scripts that may stay in a native call for ever

ASSUME ScriptRuntimeAssumption ==
    /\ MaxHandles \in Nat \ {0} /\ MaxOps \in Nat
    /\ NoScript \notin Scripts /\ Stuck \subseteq Scripts

VARIABLES
    handle,     \* script -> its CScriptHandle, or NoHandle
    thread,     \* script -> where its worker thread is in RunEngine
    paused,     \* script -> the pause flag of its engine
    main,       \* where the main thread is
    elapsed,    \* whether g_Ticks has moved far enough since a Join began
    ops         \* (bound) operations left

runtimeVars == <<handle, thread, paused, main, elapsed, ops>>
vars == <<queueVars, runtimeVars>>

NoHandle == [state |-> "none"]
Handle == {NoHandle} \cup
          [state : {"RUNNING", "FINISHED", "FAILED", "ZOMBIE"},
           paused : BOOLEAN, joinable : BOOLEAN]
ThreadPc == {"off", "begin", "setup", "js", "clear", "settle", "exit"}
MainPc == {"frame", "drain", "tick", "play", "end", "poke", "again", "away"}

TypeOK ==
    /\ QueueTypeOK
    /\ handle \in [Scripts -> Handle] /\ thread \in [Scripts -> ThreadPc]
    /\ paused \in [Scripts -> BOOLEAN]
    /\ main \in [pc : MainPc, scan : SUBSET Scripts, term : SUBSET Scripts,
                 join : SUBSET Scripts, one : Scripts \cup {NoScript},
                 delete : BOOLEAN, then : MainPc, back : MainPc]
    /\ elapsed \in BOOLEAN /\ ops \in 0..MaxOps

Init ==
    /\ QueueInit
    /\ handle = [s \in Scripts |-> NoHandle]
    /\ thread = [s \in Scripts |-> "off"]
    /\ paused = [s \in Scripts |-> FALSE]
    /\ main = [pc |-> "frame", scan |-> {}, term |-> {}, join |-> {},
               one |-> NoScript, delete |-> FALSE,
               then |-> "frame", back |-> "frame"]
    /\ elapsed = FALSE /\ ops = MaxOps

There == {s \in Scripts : handle[s] # NoHandle}
Ended(s) == handle[s].state \in {"FINISHED", "FAILED"}
\* m_Engine of s is set; the engine object is on the worker's stack.
Published(s) == thread[s] \in {"setup", "js", "clear"}
EngineLives(s) == thread[s] \in {"setup", "js", "clear", "settle", "exit"}

\* Terminate uses an engine pointer that it loaded before the worker left.
EngineGone == main.pc = "poke" /\ ~EngineLives(main.one)
Broken == DoubleDelete \/ NodeStolen \/ EngineGone

-----------------------------------------------------------------------------
(***************************************************************************)
(* CScriptHandle::RunEngine, on the worker thread                          *)
(***************************************************************************)

\* A terminate that raced the start: the run is over before it began.
\* (mutation: the early return forgets the state)
StillRunning(h) == h
NeverRan(h) == [h EXCEPT !.state = "FINISHED"]

Begin(s) ==
    /\ thread[s] = "begin"
    /\ IF stop[s]
       THEN /\ handle' = [handle EXCEPT ![s] = NeverRan(@)]
            /\ thread' = [thread EXCEPT ![s] = "off"]
       ELSE /\ thread' = [thread EXCEPT ![s] = "setup"]
            /\ UNCHANGED handle
    /\ paused' = [paused EXCEPT ![s] = FALSE]
    /\ UNCHANGED <<queueVars, main, elapsed, ops>>

Setup(s) ==
    /\ thread[s] = "setup"
    /\ \/ thread' = [thread EXCEPT ![s] = "js"] /\ UNCHANGED handle
       \/ /\ thread' = [thread EXCEPT ![s] = "clear"]
          /\ handle' = [handle EXCEPT ![s].state = "FAILED"]
    /\ UNCHANGED <<queueVars, paused, main, elapsed, ops>>

\* In the script's code: the interrupt handler and the pause gate hold a
\* paused script unless a stop is pending.
InCode(s) == thread[s] = "js" /\ call[s].pc = "none" /\ (paused[s] => stop[s])

\* The code makes a marshaled call.
Native(s) ==
    /\ InCode(s)
    /\ ExecBegin(s)
    /\ UNCHANGED runtimeVars

\* Evaluate, or the call of the script's function, fails: an error, or the
\* uncatchable "interrupted".
Fail(s) ==
    /\ InCode(s)
    /\ thread' = [thread EXCEPT ![s] = "clear"]
    /\ handle' = [handle EXCEPT ![s].state = "FAILED"]
    /\ UNCHANGED <<queueVars, paused, main, elapsed, ops>>

Return(s) ==
    /\ InCode(s)
    /\ thread' = [thread EXCEPT ![s] = "clear"]
    /\ UNCHANGED <<queueVars, handle, paused, main, elapsed, ops>>

Clear(s) ==
    /\ thread[s] = "clear"
    /\ thread' = [thread EXCEPT ![s] = "settle"]
    /\ UNCHANGED <<queueVars, handle, paused, main, elapsed, ops>>

Settle(s) ==
    /\ thread[s] = "settle"
    /\ thread' = [thread EXCEPT ![s] = "exit"]
    /\ handle' = [handle EXCEPT ![s].state = IF @ = "FAILED" THEN @ ELSE "FINISHED"]
    /\ UNCHANGED <<queueVars, paused, main, elapsed, ops>>

Exit(s) ==
    /\ thread[s] = "exit"
    /\ thread' = [thread EXCEPT ![s] = "off"]
    /\ UNCHANGED <<queueVars, handle, paused, main, elapsed, ops>>

\* The cancel check inside a wait.
Cancelled(s) == stop[s]

\* The steps of a call that the thread takes by itself.
InCall(s) ==
    /\ \/ ExecPush(s) \/ ExecPushFull(s) \/ ExecRefused(s)
       \/ ExecDone(s) \/ ExecScan(s) \/ ExecRead(s)
       \/ Cancelled(s) /\ ExecAbandon(s)
    /\ UNCHANGED runtimeVars

Timeout(s) == ~Cancelled(s) /\ ExecAbandon(s) /\ UNCHANGED runtimeVars

-----------------------------------------------------------------------------
(***************************************************************************)
(* The manager, on the main thread                                         *)
(***************************************************************************)

\* Terminate the scripts of T, then Join those of J and, when del, delete
\* their handles; then go on at then.
End(T, J, del, then) ==
    /\ main' = [main EXCEPT !.pc = "end", !.term = T, !.join = J,
                            !.delete = del, !.then = then]
    /\ elapsed' = FALSE

\* The flag of the handle first; a live engine is told through its pointer.
Terminate ==
    /\ main.pc = "end"
    /\ \E s \in main.term :
         /\ stop' = [stop EXCEPT ![s] = TRUE]
         /\ handle' = [handle EXCEPT ![s].paused = IF Published(s) THEN @ ELSE FALSE]
         /\ main' = [main EXCEPT !.term = @ \ {s}, !.one = s,
                                 !.pc = IF Published(s) THEN "poke" ELSE "end"]
    /\ UNCHANGED <<queue, retired, shutdown, node, call, drain, late,
                   thread, paused, elapsed, ops>>

Poke ==
    /\ main.pc = "poke"
    /\ paused' = [paused EXCEPT ![main.one] = FALSE]
    /\ handle' = [handle EXCEPT ![main.one].paused = FALSE]
    /\ main' = [main EXCEPT !.pc = "end"]
    /\ UNCHANGED <<queueVars, thread, elapsed, ops>>

\* The worker is gone: std::thread::join.
\* (mutation: the state is polled, the thread is not joined)
LeftSoon(s) == TRUE
Left(s) == thread[s] = "off"

\* Join polls the state and gives up when g_Ticks has moved far enough.
Join ==
    /\ main.pc = "end" /\ main.term = {}
    /\ \E s \in main.join :
         \/ /\ ~handle[s].joinable
            /\ main' = [main EXCEPT !.join = @ \ {s}]
            /\ UNCHANGED handle
         \/ /\ handle[s].joinable /\ handle[s].state # "RUNNING" /\ Left(s)
            /\ main' = [main EXCEPT !.join = @ \ {s}]
            /\ handle' = [handle EXCEPT ![s].joinable = FALSE]
         \/ /\ handle[s].joinable /\ handle[s].state = "RUNNING"
            /\ IF elapsed
               THEN /\ handle' = [handle EXCEPT ![s].state = "ZOMBIE", ![s].joinable = FALSE]
                    /\ main' = [main EXCEPT !.join = @ \ {s}]
               ELSE UNCHANGED <<handle, main>>
    /\ UNCHANGED <<queueVars, thread, paused, elapsed, ops>>

EndDone ==
    /\ main.pc = "end" /\ main.term = {} /\ main.join = {}
    /\ main' = [main EXCEPT !.pc = main.then, !.delete = FALSE, !.then = "frame",
                            !.one = IF main.then = "play" THEN @ ELSE NoScript]
    /\ handle' = IF main.delete THEN [handle EXCEPT ![main.one] = NoHandle] ELSE handle
    /\ UNCHANGED <<queueVars, thread, paused, elapsed, ops>>

\* ~CScriptHandle
Delete(s, then) == End({s}, {s}, TRUE, then)

(***************************************************************************)
(* RunFile(main.one): a handle of the file whose run is over is deleted, a *)
(* running one is returned; the cap; a new handle and its thread.          *)
(***************************************************************************)
Play ==
    /\ main.pc = "play"
    /\ LET s == main.one
       IN IF s \in There /\ handle[s].state # "RUNNING"
          THEN Delete(s, "play") /\ UNCHANGED <<handle, thread, stop, late>>
          ELSE /\ main' = [main EXCEPT !.pc = main.back, !.back = "frame", !.one = NoScript]
               /\ UNCHANGED elapsed
               /\ IF s \in There \/ Cardinality(There) >= MaxHandles
                  THEN UNCHANGED <<handle, thread, stop, late>>
                  ELSE /\ handle' = [handle EXCEPT ![s] =
                            [state |-> "RUNNING", paused |-> FALSE, joinable |-> TRUE]]
                       /\ thread' = [thread EXCEPT ![s] = "begin"]
                       /\ stop' = [stop EXCEPT ![s] = FALSE]
                       /\ late' = [late EXCEPT ![s] = 0]
    /\ UNCHANGED <<queue, retired, shutdown, node, call, drain, paused, ops>>

\* What the user or a command asks of the manager.
Ask(back) ==
    /\ ops > 0 /\ ops' = ops - 1
    /\ \/ \E s \in Scripts :
             /\ main' = [main EXCEPT !.pc = "play", !.one = s, !.back = back]
             /\ UNCHANGED elapsed
       \/ \E T \in {{s} : s \in There} \cup {There} :
             T # {} /\ End(T, {}, FALSE, back)

UserAsks ==
    /\ main.pc = "frame" /\ Ask("frame")
    /\ UNCHANGED <<queueVars, handle, thread, paused>>

\* TogglePauseFile: the engine hears of it only if it is there already.  (SetPaused
\* loads the engine's pointer and uses it later, as Terminate does: see EngineGone.
\* One step here, for a run ends at such a use.)
TogglePause(s) ==
    /\ main.pc = "frame" /\ ops > 0 /\ ops' = ops - 1
    /\ s \in There /\ handle[s].state = "RUNNING"
    /\ handle' = [handle EXCEPT ![s].paused = ~@]
    /\ paused' = IF Published(s) THEN [paused EXCEPT ![s] = ~handle[s].paused] ELSE paused
    /\ UNCHANGED <<queueVars, thread, main, elapsed>>

-----------------------------------------------------------------------------
(***************************************************************************)
(* The frame: drain, tick; and the game stage left and entered             *)
(***************************************************************************)

Frame ==
    /\ main.pc = "frame" /\ DrainBegin
    /\ main' = [main EXCEPT !.pc = "drain"]
    /\ elapsed' = TRUE
    /\ UNCHANGED <<handle, thread, paused, ops>>

DrainStep ==
    /\ main.pc = "drain"
    /\ DrainPop \/ DrainStop \/ DrainComplete \/ DrainPark \/ LastLook \/ LastErase
    /\ UNCHANGED runtimeVars

\* A command runs; some ask the manager for something.
Execute ==
    /\ main.pc = "drain" /\ DrainExecute
    /\ \/ UNCHANGED <<main, elapsed, ops>>
       \/ Ask("drain")
    /\ UNCHANGED <<handle, thread, paused>>

DrainOver ==
    /\ main.pc = "drain" /\ DrainEnd
    /\ main' = [main EXCEPT !.pc = "tick", !.scan = There]
    /\ UNCHANGED <<handle, thread, paused, elapsed, ops>>

\* CScriptManager::Tick looks at every handle once and deletes the ended ones.
Tick ==
    /\ main.pc = "tick"
    /\ \/ \E s \in main.scan \ {t \in Scripts : Ended(t)} :
             main' = [main EXCEPT !.scan = @ \ {s}] /\ UNCHANGED elapsed
       \/ \E s \in main.scan :
             Ended(s) /\ Delete(s, "tick")
       \/ /\ main.scan = {}
          /\ main' = [main EXCEPT !.pc = "frame"] /\ UNCHANGED elapsed
    /\ UNCHANGED <<queueVars, handle, thread, paused, ops>>

\* AssistantUI_Shutdown: the queue first, then StopAll, twice.
Leave ==
    /\ main.pc = "frame" /\ ops > 0 /\ ops' = ops - 1
    /\ Shutdown
    /\ End(There, There, FALSE, "again")
    /\ UNCHANGED <<handle, thread, paused>>

StopAllAgain ==
    /\ main.pc = "again"
    /\ End(There, There, FALSE, "away")
    /\ UNCHANGED <<queueVars, handle, thread, paused, ops>>

\* AssistantUI_Init, when the client is at the game stage again.
Enter ==
    /\ main.pc = "away"
    /\ main' = [main EXCEPT !.pc = "frame"]
    /\ UNCHANGED <<queueVars, handle, thread, paused, elapsed, ops>>

-----------------------------------------------------------------------------
WorkerStep(s) ==
    Begin(s) \/ Setup(s) \/ Clear(s) \/ Settle(s) \/ Exit(s) \/ InCall(s)
        \/ (stop[s] /\ Fail(s))
MainStep ==
    \/ Frame \/ DrainStep \/ Execute \/ DrainOver \/ Tick
    \/ Play \/ Terminate \/ Poke \/ Join \/ EndDone \/ StopAllAgain

Next ==
    /\ ~Broken
    /\ \/ MainStep \/ UserAsks \/ Leave \/ Enter
       \/ \E s \in Scripts : \/ WorkerStep(s) \/ Native(s) \/ Timeout(s)
                             \/ Fail(s) \/ Return(s) \/ TogglePause(s)

Spec == Init /\ [][Next]_vars

(***************************************************************************)
(* The main loop runs, the threads run, and a script that is to stop       *)
(* notices; nothing makes a script end, a wait time out or a user act.     *)
(***************************************************************************)
FairSpec ==
    /\ Spec
    /\ WF_vars(~Broken /\ MainStep)
    /\ \A s \in Scripts \ Stuck : WF_vars(~Broken /\ WorkerStep(s))

-----------------------------------------------------------------------------
(***************************************************************************)
(* Properties                                                              *)
(***************************************************************************)

\* Memory: a node that is allocated is in the queue, in the retired list or in
\* the drain's hands, in one of them and once: nodes are neither leaked nor
\* found by two owners, whoever abandons, drops, scans or refuses
\* (commandqueue.cpp: s_Queue, s_Retired, reclaim_locked).  And no request is
\* lost: a worker that waits on a node which is not done has it in the queue or
\* in the drain's hands, so the next drains get to it.
NodesAccounted ==
    LET held == IF drain.pc \in {"exec", "complete", "park"} THEN {drain.node} ELSE {}
        listed == {queue[i] : i \in 1..Len(queue)}
    IN ~Broken =>
       /\ Cardinality(listed) = Len(queue)
       /\ listed \cap retired = {} /\ held \cap (listed \cup retired) = {}
       /\ listed \cup retired \cup held = {a \in Nodes : node[a].live}
       /\ \A s \in Scripts : call[s].pc = "wait" /\ ~node[call[s].node].done =>
             call[s].node \in listed \cup held

\* A call whose record does not read dropped was executed by the main thread:
\* neither a drop, a refusal nor the completion of the script's earlier call
\* can pass for its result.
OkMeansRan == \A s \in Scripts :
    call[s].pc = "read" /\ ~call[s].dropped => call[s].ran

\* A script that was told to stop changes the game by at most the one command
\* that it had marshaled (apiscript.cpp, the pause gate and the cancel hook;
\* commandqueue.cpp, the cancel check of Exec).
StopHolds == \A s \in Scripts : late[s] <= 1

\* A handle is not deleted before its worker has left: the thread uses it to
\* the end of RunEngine.  Join's bounded wait may give up on a RUNNING worker
\* and ~CScriptHandle then deletes the handle all the same, so this rests on
\* the wait never giving up while the main thread is the one that waits.
HandleOutlivesThread == \A s \in Scripts : thread[s] # "off" => handle[s] # NoHandle

\* A marshaled call returns to the script, by its result, a drop or a stop.
CallsReturn == \A s \in Scripts : InExec(s) ~> (~InExec(s) \/ Broken)

\* The main thread gets out of Terminate and Join: a worker that waits for the
\* main thread to drain the queue does not keep it waiting.  (Violated when a
\* native call may take for ever, Stuck # {}: scripthandle.h says of Join that
\* "the caller never blocks forever", but the clock it reads is moved by the
\* thread that waits.)
JoinReturns == main.pc = "end" ~> (main.pc # "end" \/ Broken)
=============================================================================
