------------------------ MODULE ScriptRuntimeProofs ------------------------
(***************************************************************************)
(* Proofs about ScriptRuntime and its queue, for any number of scripts,    *)
(* node addresses, calls and operations.                                   *)
(*                                                                         *)
(* HInv, the handles: no script handle is deleted under its worker thread. *)
(* The deletion rests on Join, and Join may give up; the proof is that it  *)
(* never does, because the clock it reads stands still while the main      *)
(* thread waits.                                                           *)
(*                                                                         *)
(* QInv, the queue: every node is in one place (Placed), what a node's     *)
(* place says of the call it is of (Stages), and what a record tells       *)
(* (Results).  It holds to the end also of a run in which an address that  *)
(* the heap gave out again breaks the program (Broken).                    *)
(*                                                                         *)
(* SInv, the stop: of a script that is to stop at most one command is      *)
(* under way or has been executed since.                                   *)
(***************************************************************************)
EXTENDS ScriptRuntime, TLAPS, FiniteSetTheorems, SequenceTheorems

Ending == main.pc \in {"end", "poke"}

\* The part of the types that the proof needs.  After an end the main thread
\* goes anywhere but into another one.
HandleTypes ==
    /\ handle \in [Scripts -> Handle]
    /\ thread \in [Scripts -> ThreadPc]
    /\ main \in [pc : MainPc, scan : SUBSET Scripts, term : SUBSET Scripts,
                 join : SUBSET Scripts, one : Scripts \cup {NoScript},
                 delete : BOOLEAN, then : MainPc \ {"end", "poke"},
                 back : MainPc \ {"end", "poke"}]

\* The clock stands while the main thread ends scripts.
ClockStands == Ending => ~elapsed

\* A handle whose thread was joined has none.
JoinedIsGone ==
    \A s \in Scripts : handle[s] # NoHandle /\ ~handle[s].joinable => thread[s] = "off"

\* What is to be deleted is terminated first, and joined.
DeleteJoins ==
    Ending /\ main.delete =>
        \E s \in Scripts :
            /\ handle[s] # NoHandle
            /\ main.term = {s} \/ (main.term = {} /\ main.one = s)
            /\ main.join = {s} \/ (main.join = {} /\ ~handle[s].joinable)

HInv == HandleTypes /\ ClockStands /\ JoinedIsGone /\ HandleOutlivesThread /\ DeleteJoins

\* A handle that changes its state, its pause flag or its thread is a handle.
LEMMA HandleUpdates ==
    ASSUME NEW h \in Handle, h # NoHandle
    PROVE  /\ \A st \in {"RUNNING", "FINISHED", "FAILED", "ZOMBIE"} :
                LET k == [h EXCEPT !.state = st]
                IN k \in Handle /\ k # NoHandle /\ k.joinable = h.joinable
           /\ \A b \in BOOLEAN :
                LET k == [h EXCEPT !.paused = b]
                IN k \in Handle /\ k # NoHandle /\ k.joinable = h.joinable
           /\ LET k == [h EXCEPT !.joinable = FALSE]
              IN k \in Handle /\ k # NoHandle /\ ~k.joinable
BY DEF Handle, NoHandle

\* Nothing happens to what does not exist.
LEMMA NoHandleStays ==
    /\ NoHandle \in Handle
    /\ \A b : [NoHandle EXCEPT !.paused = b] = NoHandle
    /\ [NoHandle EXCEPT !.joinable = FALSE] = NoHandle
BY DEF Handle, NoHandle

LEMMA HandleInit == Init => HInv
BY DEF Init, QueueInit, HInv, HandleTypes, ClockStands, Ending, JoinedIsGone,
       HandleOutlivesThread, DeleteJoins, NoHandle, Handle, ThreadPc, MainPc

\* A worker moves on and leaves its handle in place.
LEMMA WorkerKeeps ==
    ASSUME HInv, NEW s \in Scripts, thread[s] # "off",
           NEW p \in ThreadPc, thread' = [thread EXCEPT ![s] = p],
           \/ handle' = handle
           \/ \E st \in {"FINISHED", "FAILED"} :
                 handle' = [handle EXCEPT ![s].state = st],
           UNCHANGED <<main, elapsed>>
    PROVE  HInv'
<1>1. handle[s] \in Handle /\ handle[s] # NoHandle
    BY DEF HInv, HandleTypes, HandleOutlivesThread
<1>2. \A t \in Scripts :
        /\ handle'[t] \in Handle
        /\ handle'[t] = NoHandle <=> handle[t] = NoHandle
        /\ handle[t] # NoHandle => handle'[t].joinable = handle[t].joinable
    <2>1. CASE handle' = handle
        BY <2>1 DEF HInv, HandleTypes
    <2>2. CASE \E st \in {"FINISHED", "FAILED"} :
                  handle' = [handle EXCEPT ![s].state = st]
        <3>1. PICK st \in {"FINISHED", "FAILED"} :
                 handle' = [handle EXCEPT ![s] = [handle[s] EXCEPT !.state = st]]
            BY <2>2
        <3> DEFINE k == [handle[s] EXCEPT !.state = st]
        <3>2. k \in Handle /\ k # NoHandle /\ k.joinable = handle[s].joinable
            BY <1>1, HandleUpdates
        <3>3. /\ handle'[s] = k
              /\ \A t \in Scripts \ {s} : handle'[t] = handle[t]
            BY <3>1 DEF HInv, HandleTypes
        <3> HIDE DEF k
        <3> QED
            BY <1>1, <3>2, <3>3 DEF HInv, HandleTypes
    <2> QED
        BY <2>1, <2>2
<1>3. HandleTypes'
    <2>1. handle' \in [Scripts -> Handle]
        BY <1>2 DEF HInv, HandleTypes
    <2> QED
        BY <2>1 DEF HInv, HandleTypes
<1>4. JoinedIsGone' /\ HandleOutlivesThread'
    BY <1>1, <1>2 DEF HInv, HandleTypes, JoinedIsGone, HandleOutlivesThread
<1>5. ClockStands' /\ DeleteJoins'
    BY <1>2 DEF HInv, ClockStands, DeleteJoins, Ending
<1> QED
    BY <1>3, <1>4, <1>5 DEF HInv

LEMMA Unmoved ==
    ASSUME HInv, UNCHANGED <<handle, thread, main, elapsed>>
    PROVE  HInv'
BY DEF HInv, HandleTypes, ClockStands, JoinedIsGone, HandleOutlivesThread,
       DeleteJoins, Ending

\* The main thread goes somewhere else than into an end.
LEMMA MainMoves ==
    ASSUME HInv, UNCHANGED <<handle, thread>>, HandleTypes', main'.pc \notin {"end", "poke"}
    PROVE  HInv'
BY DEF HInv, ClockStands, JoinedIsGone, HandleOutlivesThread, DeleteJoins, Ending

\* It goes into an end: the clock is read, and a handle that is to be deleted
\* is among those to terminate and to join.
LEMMA EndBegins ==
    ASSUME HInv, UNCHANGED <<handle, thread>>,
           NEW T \in SUBSET Scripts, NEW J \in SUBSET Scripts, NEW del \in BOOLEAN,
           NEW then \in MainPc \ {"end", "poke"},
           End(T, J, del, then),
           del => \E s \in There : T = {s} /\ J = {s}
    PROVE  HInv'
<1>1. /\ main'.term = T /\ main'.join = J /\ main'.delete = del
      /\ ~elapsed' /\ HandleTypes'
    <2>1. main' = [main EXCEPT !.pc = "end", !.term = T, !.join = J,
                               !.delete = del, !.then = then]
        BY DEF End
    <2>2. main'.term = T /\ main'.join = J /\ main'.delete = del /\ ~elapsed'
        BY <2>1 DEF HInv, HandleTypes, End
    <2>3. "end" \in MainPc
        BY DEF MainPc
    <2>4. HandleTypes'
        BY <2>1, <2>3 DEF HInv, HandleTypes
    <2> QED
        BY <2>2, <2>4
<1>2. ClockStands' /\ JoinedIsGone' /\ HandleOutlivesThread'
    BY <1>1 DEF HInv, ClockStands, JoinedIsGone, HandleOutlivesThread
<1>3. DeleteJoins'
    <2>1. CASE del
        <3>1. PICK s \in There : T = {s} /\ J = {s}
            BY <2>1
        <3>2. s \in Scripts /\ handle'[s] # NoHandle
            BY DEF There
        <3>3. main'.term = {s} /\ main'.join = {s}
            BY <1>1, <3>1
        <3> QED
            BY <3>2, <3>3 DEF DeleteJoins
    <2>2. CASE ~del
        <3>1. main'.delete = FALSE
            BY <1>1, <2>2
        <3> QED
            BY <3>1 DEF DeleteJoins
    <2> QED
        BY <2>1, <2>2
<1> QED
    BY <1>1, <1>2, <1>3 DEF HInv

LEMMA AskKeeps ==
    ASSUME HInv, UNCHANGED <<handle, thread>>, NEW back \in {"frame", "drain"}, Ask(back)
    PROVE  HInv'
<1>1. CASE \E s \in Scripts :
             main' = [main EXCEPT !.pc = "play", !.one = s, !.back = back]
    <2>1. HandleTypes' /\ main'.pc = "play"
        BY <1>1 DEF HInv, HandleTypes, MainPc
    <2> QED
        BY <2>1, MainMoves
<1>2. CASE \E T \in {{s} : s \in There} \cup {There} : End(T, {}, FALSE, back)
    <2>1. PICK T \in {{s} : s \in There} \cup {There} : End(T, {}, FALSE, back)
        BY <1>2
    <2>2. T \in SUBSET Scripts /\ back \in MainPc \ {"end", "poke"}
        BY DEF There, MainPc
    <2> QED
        BY <2>1, <2>2, EndBegins
<1> QED
    BY <1>1, <1>2 DEF Ask

\* A change of a pause flag.
LEMMA PauseKeeps ==
    ASSUME HInv, NEW s, NEW b \in BOOLEAN,
           handle' = [handle EXCEPT ![s] = [@ EXCEPT !.paused = b]], UNCHANGED thread
    PROVE  /\ handle' \in [Scripts -> Handle]
           /\ JoinedIsGone' /\ HandleOutlivesThread'
           /\ \A t \in Scripts :
                /\ (handle'[t] # NoHandle) = (handle[t] # NoHandle)
                /\ handle[t] # NoHandle => handle'[t].joinable = handle[t].joinable
<1>1. \A t \in Scripts :
        /\ handle'[t] \in Handle
        /\ (handle'[t] # NoHandle) = (handle[t] # NoHandle)
        /\ handle[t] # NoHandle => handle'[t].joinable = handle[t].joinable
    <2> SUFFICES ASSUME NEW t \in Scripts
                 PROVE  /\ handle'[t] \in Handle
                        /\ (handle'[t] # NoHandle) = (handle[t] # NoHandle)
                        /\ handle[t] # NoHandle => handle'[t].joinable = handle[t].joinable
        OBVIOUS
    <2>1. handle[t] \in Handle
        BY DEF HInv, HandleTypes
    <2>2. CASE t # s
        BY <2>1, <2>2 DEF HInv, HandleTypes
    <2>3. CASE t = s
        <3> DEFINE k == [handle[t] EXCEPT !.paused = b]
        <3>1. handle'[t] = k
            BY <2>3 DEF HInv, HandleTypes
        <3>2. CASE handle[t] = NoHandle
            BY <3>1, <3>2, NoHandleStays
        <3>3. CASE handle[t] # NoHandle
            <4>1. k \in Handle /\ k # NoHandle /\ k.joinable = handle[t].joinable
                BY <2>1, <3>3, HandleUpdates
            <4> QED
                BY <3>1, <3>3, <4>1
        <3> QED
            BY <3>2, <3>3
    <2> QED
        BY <2>2, <2>3
<1>2. handle' \in [Scripts -> Handle]
    BY <1>1 DEF HInv, HandleTypes
<1>3. JoinedIsGone' /\ HandleOutlivesThread'
    BY <1>1 DEF HInv, JoinedIsGone, HandleOutlivesThread
<1> QED
    BY <1>1, <1>2, <1>3

-----------------------------------------------------------------------------
(***************************************************************************)
(* The steps of the main thread that touch handles                         *)
(***************************************************************************)

LEMMA TerminateKeeps == HInv /\ Terminate => HInv'
<1> SUFFICES ASSUME HInv, Terminate PROVE HInv'
    OBVIOUS
<1>1. PICK s \in main.term :
        /\ handle' = [handle EXCEPT ![s].paused = IF Published(s) THEN @ ELSE FALSE]
        /\ main' = [main EXCEPT !.term = @ \ {s}, !.one = s,
                                !.pc = IF Published(s) THEN "poke" ELSE "end"]
        /\ UNCHANGED <<thread, elapsed>>
    BY DEF Terminate
<1>2. s \in Scripts /\ main.pc = "end"
    BY DEF HInv, HandleTypes, Terminate
<1>3. HandleTypes' /\ JoinedIsGone' /\ HandleOutlivesThread'
      /\ \A t \in Scripts :
           /\ (handle'[t] # NoHandle) = (handle[t] # NoHandle)
           /\ handle[t] # NoHandle => handle'[t].joinable = handle[t].joinable
    <2>1. main' \in [pc : MainPc, scan : SUBSET Scripts, term : SUBSET Scripts,
                 join : SUBSET Scripts, one : Scripts \cup {NoScript},
                 delete : BOOLEAN, then : MainPc \ {"end", "poke"},
                 back : MainPc \ {"end", "poke"}]
        BY <1>1, <1>2 DEF HInv, HandleTypes, MainPc
    <2>2. CASE Published(s)
        <3>1. handle' = handle
            BY <1>1, <2>2, Z3 DEF HInv, HandleTypes, Handle, NoHandle
        <3> QED
            BY <1>1, <2>1, <3>1 DEF HInv, HandleTypes, JoinedIsGone, HandleOutlivesThread
    <2>3. CASE ~Published(s)
        <3>1. handle' = [handle EXCEPT ![s] = [@ EXCEPT !.paused = FALSE]]
            BY <1>1, <2>3
        <3> QED
            BY <1>1, <2>1, <3>1, PauseKeeps DEF HInv, HandleTypes
    <2> QED
        BY <2>2, <2>3
<1>4. ClockStands'
    BY <1>1, <1>2 DEF HInv, ClockStands, Ending
<1>5. ASSUME main'.delete
      PROVE  \E t \in Scripts :
                /\ handle'[t] # NoHandle
                /\ main'.term = {t} \/ (main'.term = {} /\ main'.one = t)
                /\ main'.join = {t} \/ (main'.join = {} /\ ~handle'[t].joinable)
    <2>1. /\ main'.term = main.term \ {s} /\ main'.one = s
          /\ main'.delete = main.delete /\ main'.join = main.join
        BY <1>1 DEF HInv, HandleTypes
    <2>2. PICK t \in Scripts :
             /\ handle[t] # NoHandle
             /\ main.term = {t} \/ (main.term = {} /\ main.one = t)
             /\ main.join = {t} \/ (main.join = {} /\ ~handle[t].joinable)
        BY <1>2, <1>5, <2>1 DEF HInv, DeleteJoins, Ending
    <2>3. t = s
        BY <2>2
    <2> QED
        BY <1>3, <2>1, <2>2, <2>3
<1> QED
    BY <1>3, <1>4, <1>5 DEF HInv, DeleteJoins

LEMMA PokeKeeps == HInv /\ Poke => HInv'
<1> SUFFICES ASSUME HInv, Poke PROVE HInv'
    OBVIOUS
<1>1. /\ main.pc = "poke" /\ UNCHANGED <<thread, elapsed>>
      /\ handle' = [handle EXCEPT ![main.one] = [@ EXCEPT !.paused = FALSE]]
      /\ main' = [main EXCEPT !.pc = "end"]
    BY DEF Poke
<1>2. /\ handle' \in [Scripts -> Handle]
      /\ JoinedIsGone' /\ HandleOutlivesThread'
      /\ \A t \in Scripts :
           /\ (handle'[t] # NoHandle) = (handle[t] # NoHandle)
           /\ handle[t] # NoHandle => handle'[t].joinable = handle[t].joinable
    BY <1>1, PauseKeeps
<1>3. HandleTypes' /\ ClockStands'
    BY <1>1, <1>2 DEF HInv, HandleTypes, ClockStands, Ending, MainPc
<1>4. DeleteJoins'
    BY <1>1, <1>2 DEF HInv, HandleTypes, DeleteJoins, Ending
<1> QED
    BY <1>2, <1>3, <1>4 DEF HInv

LEMMA JoinKeeps == HInv /\ Join => HInv'
<1> SUFFICES ASSUME HInv, Join PROVE HInv'
    OBVIOUS
<1>1. PICK s \in main.join :
        \/ /\ ~handle[s].joinable
           /\ main' = [main EXCEPT !.join = @ \ {s}]
           /\ UNCHANGED handle
        \/ /\ handle[s].joinable /\ Left(s)
           /\ main' = [main EXCEPT !.join = @ \ {s}]
           /\ handle' = [handle EXCEPT ![s] = [@ EXCEPT !.joinable = FALSE]]
        \/ UNCHANGED <<handle, main>>
    BY DEF Join, HInv, ClockStands, Ending
<1>2. s \in Scripts /\ main.pc = "end" /\ main.term = {} /\ UNCHANGED <<thread, elapsed>>
    BY DEF HInv, HandleTypes, Join
<1>3. CASE UNCHANGED <<handle, main>>
    BY <1>2, <1>3, Unmoved
<1>4. ASSUME main' = [main EXCEPT !.join = @ \ {s}],
             handle' \in [Scripts -> Handle],
             \A t \in Scripts \ {s} : handle'[t] = handle[t],
             handle[s] # NoHandle => handle'[s] # NoHandle /\ ~handle'[s].joinable,
             handle'[s] # NoHandle => ~handle'[s].joinable /\ (handle'[s] = handle[s] \/ Left(s))
      PROVE  HInv'
    <2>1. HandleTypes' /\ ClockStands'
        BY <1>2, <1>4 DEF HInv, HandleTypes, ClockStands, Ending
    <2>2. JoinedIsGone' /\ HandleOutlivesThread'
        BY <1>2, <1>4 DEF HInv, JoinedIsGone, HandleOutlivesThread, Left
    <2>3. /\ main'.term = main.term /\ main'.one = main.one /\ main'.pc = main.pc
          /\ main'.delete = main.delete /\ main'.join = main.join \ {s}
        BY <1>4 DEF HInv, HandleTypes
    <2>4. DeleteJoins'
        BY <1>2, <1>4, <2>3 DEF HInv, DeleteJoins, Ending
    <2> QED
        BY <2>1, <2>2, <2>4 DEF HInv
<1>5. CASE ~handle[s].joinable /\ main' = [main EXCEPT !.join = @ \ {s}] /\ UNCHANGED handle
    BY <1>4, <1>5 DEF HInv, HandleTypes
<1>6. CASE /\ handle[s].joinable /\ Left(s)
           /\ main' = [main EXCEPT !.join = @ \ {s}]
           /\ handle' = [handle EXCEPT ![s] = [@ EXCEPT !.joinable = FALSE]]
    <2> DEFINE k == [handle[s] EXCEPT !.joinable = FALSE]
    <2>1. handle'[s] = k /\ \A t \in Scripts \ {s} : handle'[t] = handle[t]
        BY <1>2, <1>6 DEF HInv, HandleTypes
    <2>2. handle[s] \in Handle
        BY <1>2 DEF HInv, HandleTypes
    <2>3. /\ handle[s] # NoHandle => k \in Handle /\ k # NoHandle /\ ~k.joinable
          /\ handle[s] = NoHandle => k = NoHandle
        BY <2>2, HandleUpdates, NoHandleStays
    <2>4. k \in Handle
        BY <2>2, <2>3
    <2>5. handle' \in [Scripts -> Handle]
        BY <1>6, <2>1, <2>4 DEF HInv, HandleTypes
    <2> HIDE DEF k
    <2> QED
        BY <1>4, <1>6, <2>1, <2>3, <2>5
<1> QED
    BY <1>1, <1>3, <1>5, <1>6

LEMMA EndDoneKeeps == HInv /\ EndDone => HInv'
<1> SUFFICES ASSUME HInv, EndDone PROVE HInv'
    OBVIOUS
<1>1. /\ main.pc = "end" /\ main.term = {} /\ main.join = {}
      /\ UNCHANGED thread
      /\ handle' = IF main.delete THEN [handle EXCEPT ![main.one] = NoHandle] ELSE handle
      /\ main' = [main EXCEPT !.pc = main.then, !.delete = FALSE, !.then = "frame",
                              !.one = IF main.then = "play" THEN @ ELSE NoScript]
    BY DEF EndDone
<1>2. /\ main' \in [pc : MainPc, scan : SUBSET Scripts, term : SUBSET Scripts,
                 join : SUBSET Scripts, one : Scripts \cup {NoScript},
                 delete : BOOLEAN, then : MainPc \ {"end", "poke"},
                 back : MainPc \ {"end", "poke"}]
      /\ main'.pc \notin {"end", "poke"}
    BY <1>1 DEF HInv, HandleTypes, MainPc
<1>3. CASE ~main.delete
    BY <1>1, <1>2, <1>3, MainMoves DEF HInv, HandleTypes
<1>4. CASE main.delete
    <2>1. handle[main.one] # NoHandle => thread[main.one] = "off"
        BY <1>1, <1>4 DEF HInv, DeleteJoins, JoinedIsGone, Ending
    <2>2. /\ handle' \in [Scripts -> Handle]
          /\ \A t \in Scripts : handle'[t] = IF t = main.one THEN NoHandle ELSE handle[t]
        BY <1>1, <1>4, NoHandleStays DEF HInv, HandleTypes
    <2>3. JoinedIsGone' /\ HandleOutlivesThread'
        BY <1>1, <2>1, <2>2 DEF HInv, JoinedIsGone, HandleOutlivesThread
    <2> QED
        BY <1>1, <1>2, <2>2, <2>3
           DEF HInv, HandleTypes, ClockStands, DeleteJoins, Ending
<1> QED
    BY <1>3, <1>4

LEMMA PlayKeeps == HInv /\ Play => HInv'
<1> SUFFICES ASSUME HInv, Play PROVE HInv'
    OBVIOUS
<1> DEFINE s == main.one
<1>1. CASE /\ s \in There /\ handle[s].state # "RUNNING"
           /\ Delete(s, "play") /\ UNCHANGED <<handle, thread>>
    <2>1. s \in Scripts /\ "play" \in MainPc \ {"end", "poke"}
        BY <1>1 DEF There, MainPc
    <2>2. End({s}, {s}, TRUE, "play")
        BY <1>1 DEF Delete
    <2>3. \E t \in There : {s} = {t} /\ {s} = {t}
        BY <1>1
    <2> HIDE DEF s
    <2> QED
        BY <1>1, <2>1, <2>2, <2>3, EndBegins
<1>2. ASSUME main' = [main EXCEPT !.pc = main.back, !.back = "frame", !.one = NoScript],
             UNCHANGED <<handle, thread>>
      PROVE  HInv'
    <2>1. HandleTypes' /\ main'.pc \notin {"end", "poke"}
        BY <1>2 DEF HInv, HandleTypes, MainPc
    <2> QED
        BY <1>2, <2>1, MainMoves
<1>3. ASSUME main' = [main EXCEPT !.pc = main.back, !.back = "frame", !.one = NoScript],
             s \notin There,
             handle' = [handle EXCEPT ![s] =
                           [state |-> "RUNNING", paused |-> FALSE, joinable |-> TRUE]],
             thread' = [thread EXCEPT ![s] = "begin"]
      PROVE  HInv'
    <2> DEFINE k == [state |-> "RUNNING", paused |-> FALSE, joinable |-> TRUE]
    <2>1. k \in Handle /\ k # NoHandle /\ k.joinable
        BY DEF Handle, NoHandle
    <2>2. handle' = [handle EXCEPT ![s] = k]
        BY <1>3
    <2> HIDE DEF k
    <2>3. /\ main' \in [pc : MainPc, scan : SUBSET Scripts, term : SUBSET Scripts,
                 join : SUBSET Scripts, one : Scripts \cup {NoScript},
                 delete : BOOLEAN, then : MainPc \ {"end", "poke"},
                 back : MainPc \ {"end", "poke"}]
          /\ main'.pc \notin {"end", "poke"}
        BY <1>3 DEF HInv, HandleTypes, MainPc
    <2>4. handle' \in [Scripts -> Handle] /\ thread' \in [Scripts -> ThreadPc]
        <3>1. handle' \in [Scripts -> Handle]
            BY <2>1, <2>2 DEF HInv, HandleTypes
        <3>2. thread' \in [Scripts -> ThreadPc]
            BY <1>3 DEF HInv, HandleTypes, ThreadPc
        <3> QED
            BY <3>1, <3>2
    <2>5. JoinedIsGone' /\ HandleOutlivesThread'
        BY <1>3, <2>1, <2>2 DEF HInv, HandleTypes, JoinedIsGone, HandleOutlivesThread
    <2> QED
        BY <2>3, <2>4, <2>5 DEF HInv, HandleTypes, ClockStands, DeleteJoins, Ending
<1> QED
    BY <1>1, <1>2, <1>3 DEF Play

LEMMA TogglePauseKeeps == ASSUME HInv, NEW s \in Scripts, TogglePause(s) PROVE HInv'
<1>1. /\ handle[s] # NoHandle /\ UNCHANGED <<thread, main, elapsed>>
      /\ handle' = [handle EXCEPT ![s] = [@ EXCEPT !.paused = ~handle[s].paused]]
    BY DEF TogglePause, There
<1>2. (~handle[s].paused) \in BOOLEAN
    OBVIOUS
<1>3. /\ handle' \in [Scripts -> Handle]
      /\ JoinedIsGone' /\ HandleOutlivesThread'
      /\ \A t \in Scripts :
           /\ (handle'[t] # NoHandle) = (handle[t] # NoHandle)
           /\ handle[t] # NoHandle => handle'[t].joinable = handle[t].joinable
    BY <1>1, <1>2, PauseKeeps
<1> QED
    BY <1>1, <1>3 DEF HInv, HandleTypes, ClockStands, DeleteJoins, Ending

LEMMA TickKeeps == HInv /\ Tick => HInv'
<1> SUFFICES ASSUME HInv, Tick PROVE HInv'
    OBVIOUS
<1>1. main.pc = "tick" /\ UNCHANGED <<handle, thread>>
    BY DEF Tick
<1>2. CASE \E s \in main.scan : Ended(s) /\ Delete(s, "tick")
    <2>1. PICK s \in main.scan : Ended(s) /\ Delete(s, "tick")
        BY <1>2
    <2>2. s \in There /\ s \in Scripts
        BY <2>1 DEF HInv, HandleTypes, There, Ended, NoHandle
    <2>3. End({s}, {s}, TRUE, "tick") /\ "tick" \in MainPc \ {"end", "poke"}
        BY <2>1 DEF Delete, MainPc
    <2> QED
        BY <1>1, <2>2, <2>3, EndBegins
<1>3. ASSUME main' = [main EXCEPT !.pc = "frame"] \/
             \E s \in Scripts : main' = [main EXCEPT !.scan = @ \ {s}]
      PROVE  HInv'
    <2>1. HandleTypes' /\ main'.pc \notin {"end", "poke"}
        BY <1>1, <1>3 DEF HInv, HandleTypes, MainPc
    <2> QED
        BY <1>1, <2>1, MainMoves
<1>4. main.scan \subseteq Scripts
    BY DEF HInv, HandleTypes
<1> QED
    BY <1>2, <1>3, <1>4 DEF Tick

-----------------------------------------------------------------------------
LEMMA HandleNext == HInv /\ [Next]_vars => HInv'
<1> SUFFICES ASSUME HInv, [Next]_vars PROVE HInv'
    OBVIOUS
<1>1. CASE UNCHANGED vars
    BY <1>1, Unmoved DEF vars, runtimeVars
<1>2. ASSUME NEW s \in Scripts,
             WorkerStep(s) \/ Native(s) \/ Timeout(s) \/ Fail(s) \/ Return(s)
      PROVE  HInv'
    <2>1. CASE InCall(s) \/ Native(s) \/ Timeout(s)
        BY <2>1, Unmoved DEF InCall, Native, Timeout, runtimeVars
    <2>2. CASE Begin(s)
        <3>1. CASE stop[s]
            <4>1. handle' = [handle EXCEPT ![s].state = "FINISHED"]
                BY <2>2, <3>1 DEF Begin, NeverRan
            <4>2. thread' = [thread EXCEPT ![s] = "off"] /\ "off" \in ThreadPc
                BY <2>2, <3>1 DEF Begin, ThreadPc
            <4> QED
                BY <2>2, <4>1, <4>2, WorkerKeeps DEF Begin
        <3>2. CASE ~stop[s]
            <4>1. thread' = [thread EXCEPT ![s] = "setup"] /\ "setup" \in ThreadPc
                BY <2>2, <3>2 DEF Begin, ThreadPc
            <4> QED
                BY <2>2, <3>2, <4>1, WorkerKeeps DEF Begin
        <3> QED
            BY <3>1, <3>2
    <2>3. CASE Setup(s)
        <3>1. "js" \in ThreadPc /\ "clear" \in ThreadPc
            BY DEF ThreadPc
        <3> QED
            BY <2>3, <3>1, WorkerKeeps DEF Setup
    <2>4. CASE Fail(s)
        <3>1. "clear" \in ThreadPc
            BY DEF ThreadPc
        <3> QED
            BY <2>4, <3>1, WorkerKeeps DEF Fail, InCode
    <2>5. CASE Return(s)
        <3>1. "clear" \in ThreadPc
            BY DEF ThreadPc
        <3> QED
            BY <2>5, <3>1, WorkerKeeps DEF Return, InCode
    <2>6. CASE Clear(s)
        <3>1. "settle" \in ThreadPc
            BY DEF ThreadPc
        <3> QED
            BY <2>6, <3>1, WorkerKeeps DEF Clear
    <2>7. CASE Settle(s)
        <3>1. "exit" \in ThreadPc
            BY DEF ThreadPc
        <3>2. \E st \in {"FINISHED", "FAILED"} : handle' = [handle EXCEPT ![s].state = st]
            BY <2>7 DEF Settle
        <3> QED
            BY <2>7, <3>1, <3>2, WorkerKeeps DEF Settle
    <2>8. CASE Exit(s)
        <3>1. "off" \in ThreadPc
            BY DEF ThreadPc
        <3> QED
            BY <2>8, <3>1, WorkerKeeps DEF Exit
    <2> QED
        BY <1>2, <2>1, <2>2, <2>3, <2>4, <2>5, <2>6, <2>7, <2>8 DEF WorkerStep
<1>3. ASSUME NEW s \in Scripts, TogglePause(s) PROVE HInv'
    BY <1>3, TogglePauseKeeps
<1>4. CASE Frame \/ DrainOver \/ Enter
    <2>1. UNCHANGED <<handle, thread>> /\ HandleTypes' /\ main'.pc \notin {"end", "poke"}
        <3>1. CASE Frame
            BY <3>1 DEF Frame, HInv, HandleTypes, MainPc
        <3>2. CASE DrainOver
            <4>1. There \in SUBSET Scripts /\ "tick" \in MainPc
                BY DEF There, MainPc
            <4>2. main' = [main EXCEPT !.pc = "tick", !.scan = There]
                  /\ UNCHANGED <<handle, thread>>
                BY <3>2 DEF DrainOver
            <4> QED
                BY <4>1, <4>2 DEF HInv, HandleTypes
        <3>3. CASE Enter
            BY <3>3 DEF Enter, HInv, HandleTypes, MainPc
        <3> QED
            BY <1>4, <3>1, <3>2, <3>3
    <2> QED
        BY <2>1, MainMoves
<1>5. CASE DrainStep
    BY <1>5, Unmoved DEF DrainStep, runtimeVars
<1>6. CASE Execute
    BY <1>6, Unmoved, AskKeeps DEF Execute
<1>7. CASE UserAsks
    BY <1>7, AskKeeps DEF UserAsks
<1>8. CASE Leave \/ StopAllAgain
    <2>1. /\ {"again", "away"} \subseteq MainPc \ {"end", "poke"}
          /\ There \in SUBSET Scripts
        BY DEF MainPc, There
    <2>2. /\ UNCHANGED <<handle, thread>>
          /\ End(There, There, FALSE, "again") \/ End(There, There, FALSE, "away")
        BY <1>8 DEF Leave, StopAllAgain
    <2> QED
        BY <2>1, <2>2, EndBegins
<1> QED
    BY <1>1, <1>2, <1>3, <1>4, <1>5, <1>6, <1>7, <1>8, TickKeeps, PlayKeeps,
       TerminateKeeps, PokeKeeps, JoinKeeps, EndDoneKeeps
       DEF Next, MainStep

\* The invariant: the clock stands while scripts are ended, what is deleted was
\* joined, what was joined has no thread.
THEOREM HandleInvariance == Spec => []HInv
<1>1. Init => HInv
    BY HandleInit
<1>2. HInv /\ [Next]_vars => HInv'
    BY HandleNext
<1> QED
    BY <1>1, <1>2, PTL DEF Spec

\* CScriptHandle is never deleted under RunEngine, which runs on it.
THEOREM HandleNeverDangles == Spec => []HandleOutlivesThread
<1>1. HInv => HandleOutlivesThread
    BY DEF HInv
<1> QED
    BY <1>1, HandleInvariance, PTL
-----------------------------------------------------------------------------
(***************************************************************************)
(* The queue                                                               *)
(***************************************************************************)
Listed == {queue[i] : i \in 1..Len(queue)}
Held == IF drain.pc \in {"exec", "complete", "park"} THEN {drain.node} ELSE {}

\* The pointers that are followed are there.
Pointers ==
    /\ \A s \in Scripts :
          /\ call[s].pc \in {"wait", "scan"} => call[s].node \in Nodes
          /\ call[s].pc # "none" => call[s].no >= 1
    /\ drain.pc \in {"exec", "complete", "park", "erase"} => drain.node \in Nodes
    /\ drain.pc \in {"exec", "complete", "park"} => drain.left >= 1

\* Each allocated node is in one place.
Placed ==
    /\ \A i, j \in 1..Len(queue) : queue[i] = queue[j] => i = j
    /\ Listed \cap retired = {} /\ Held \cap (Listed \cup retired) = {}
    /\ Listed \cup retired \cup Held = {a \in Nodes : node[a].live}

\* The node at a is of the call that its owner is in.
OfCall(a) == LET c == call[node[a].owner] IN c.node = a /\ c.no = node[a].no

\* A node in the queue is not done, and its owner waits on it or has given it up
\* and is about to look for it; the drain's may have been given up long ago.
Stages ==
    /\ \A a \in Listed :
          /\ ~node[a].done /\ OfCall(a)
          /\ call[node[a].owner].pc = IF node[a].abandoned THEN "scan" ELSE "wait"
    /\ drain.pc \in {"exec", "complete"} =>
          /\ ~node[drain.node].done
          /\ ~node[drain.node].abandoned =>
                OfCall(drain.node) /\ call[node[drain.node].owner].pc = "wait"
    /\ drain.pc = "park" => node[drain.node].done
    /\ \A a \in retired : node[a].done

\* The node that s waits on is its own.
Mine(s) ==
    LET n == node[call[s].node] IN n.live /\ n.owner = s /\ n.no = call[s].no

\* What a record tells.
Results ==
    /\ OkMeansRan
    /\ \A s \in Scripts : call[s].pc = "scan" => call[s].dropped
    /\ \A s \in Scripts : call[s].pc = "wait" /\ Mine(s) =>
          /\ ~node[call[s].node].abandoned
          /\ node[call[s].node].done /\ ~call[s].dropped => call[s].ran
    /\ drain.pc = "complete" /\ ~node[drain.node].abandoned =>
          call[node[drain.node].owner].ran

QInv == QueueTypeOK /\ Pointers /\ Placed /\ Stages /\ Results

\* The drain executes nothing while the main thread is elsewhere.
DrainWaits == main.pc # "drain" => drain.pc \in {"off", "complete"}

\* A command of s is under way.
InQueue(s) == \E a \in Listed : node[a].owner = s
InDrain(s) == drain.pc = "exec" /\ node[drain.node].owner = s

\* Of a script that is to stop, at most one command is still under way or has been
\* executed since.
Stopping ==
    \A s \in Scripts :
       /\ late[s] <= 1
       /\ ~stop[s] => late[s] = 0
       /\ late[s] = 1 => call[s].pc # "push" /\ ~InQueue(s) /\ ~InDrain(s)
       /\ stop[s] /\ InDrain(s) => call[s].pc # "push" /\ ~InQueue(s)

SInv == DrainWaits /\ Stopping

-----------------------------------------------------------------------------
\* What is at the address of an allocated node.
Allocation == [live : {TRUE}, owner : Scripts, no : 1..MaxCalls,
               done : BOOLEAN, ack : BOOLEAN, abandoned : BOOLEAN]

LEMMA NodeFields ==
    ASSUME NEW n \in Node
    PROVE  /\ n.live \in BOOLEAN
           /\ n.live => /\ n.owner \in Scripts /\ n.no \in 1..MaxCalls
                        /\ n.done \in BOOLEAN /\ n.ack \in BOOLEAN /\ n.abandoned \in BOOLEAN
           /\ ~Unallocated.live /\ Unallocated \in Node
<1>1. ~Unallocated.live /\ Unallocated.live \in BOOLEAN /\ Unallocated \in Node
  BY DEF Node, Unallocated
<1>2. CASE n = Unallocated
  BY <1>1, <1>2
<1>3. CASE n \in Allocation
  BY <1>1, <1>3 DEF Allocation
<1> QED BY <1>2, <1>3 DEF Node, Allocation

\* A flag of an allocated node is set.
LEMMA NodeUpdates ==
    ASSUME NEW n \in Node, n.live
    PROVE  /\ LET k == [n EXCEPT !.done = TRUE]
              IN /\ k \in Node /\ k.live /\ k.owner = n.owner /\ k.no = n.no
                 /\ k.done /\ k.ack = n.ack /\ k.abandoned = n.abandoned
           /\ LET k == [n EXCEPT !.ack = TRUE]
              IN /\ k \in Node /\ k.live /\ k.owner = n.owner /\ k.no = n.no
                 /\ k.done = n.done /\ k.abandoned = n.abandoned
           /\ LET k == [n EXCEPT !.abandoned = TRUE]
              IN /\ k \in Node /\ k.live /\ k.owner = n.owner /\ k.no = n.no
                 /\ k.done = n.done /\ k.abandoned
<1>0. ~Unallocated.live
  BY DEF Unallocated
<1>1. n \in Allocation
  BY <1>0 DEF Node, Allocation
<1>2. \A k \in Allocation : k \in Node
  BY DEF Node, Allocation
<1>3. /\ [n EXCEPT !.done = TRUE] \in Allocation /\ [n EXCEPT !.ack = TRUE] \in Allocation
      /\ [n EXCEPT !.abandoned = TRUE] \in Allocation
  BY <1>1 DEF Allocation
<1> QED BY <1>1, <1>2, <1>3 DEF Allocation

LEMMA CallFields ==
    ASSUME NEW c \in Call
    PROVE  /\ c.pc \in {"none", "push", "wait", "scan", "read"} /\ c.no \in 0..MaxCalls
           /\ c.node \in Nodes \cup {NoNode} /\ c.dropped \in BOOLEAN /\ c.ran \in BOOLEAN
BY DEF Call

\* complete_node on some of the nodes of a list of allocated ones.
LEMMA DoneAre ==
    ASSUME NEW nd \in [Nodes -> Node], NEW A \in SUBSET Nodes, \A a \in A : nd[a].live
    PROVE  /\ Done(nd, A) \in [Nodes -> Node]
           /\ \A a \in Nodes \ A : Done(nd, A)[a] = nd[a]
           /\ \A a \in A : LET k == Done(nd, A)[a]
                           IN /\ k.live /\ k.owner = nd[a].owner /\ k.no = nd[a].no
                              /\ k.done /\ k.ack = nd[a].ack /\ k.abandoned = nd[a].abandoned
<1>1. \A a \in Nodes : Done(nd, A)[a] = IF a \in A THEN [nd[a] EXCEPT !.done = TRUE] ELSE nd[a]
  BY DEF Done
<1>2. \A a \in A : /\ [nd[a] EXCEPT !.done = TRUE] \in Node
                   /\ LET k == [nd[a] EXCEPT !.done = TRUE]
                      IN /\ k.live /\ k.owner = nd[a].owner /\ k.no = nd[a].no
                         /\ k.done /\ k.ack = nd[a].ack /\ k.abandoned = nd[a].abandoned
  BY NodeUpdates
<1>3. \A a \in Nodes : Done(nd, A)[a] \in Node
  BY <1>1, <1>2
<1>4. Done(nd, A) \in [Nodes -> Node]
  BY <1>3 DEF Done
<1>5. \A a \in A : Done(nd, A)[a] = [nd[a] EXCEPT !.done = TRUE]
  BY <1>1
<1>6. \A a \in Nodes \ A : Done(nd, A)[a] = nd[a]
  BY <1>1
<1> QED BY <1>2, <1>4, <1>5, <1>6

\* reclaim_locked frees some of the retired nodes.
LEMMA Reclaims ==
    ASSUME NEW nd \in [Nodes -> Node], NEW R \in SUBSET Nodes, Reclaim(nd, R)
    PROVE  /\ node' \in [Nodes -> Node] /\ retired' \subseteq R
           /\ \A a \in R \ retired' : node'[a] = Unallocated
           /\ \A a \in Nodes \ (R \ retired') : node'[a] = nd[a]
<1>1. Unallocated \in Node
  BY DEF Node
<1> QED BY <1>1 DEF Reclaim, Reclaimable

LEMMA QueueBegins == Init => QInv /\ SInv
<1> SUFFICES ASSUME Init PROVE QInv /\ SInv
  OBVIOUS
<1>1. QueueTypeOK
  <2>1. 0 \in 0..MaxCalls /\ 0 \in 0..Budget
    BY ScriptQueueAssumption
  <2>2. [pc |-> "none", no |-> 0, node |-> NoNode, dropped |-> FALSE, ran |-> FALSE] \in Call
    BY <2>1 DEF Call
  <2>3. Unallocated \in Node
    BY DEF Node
  <2>4. drain \in [pc : DrainPc, node : Nodes \cup {NoNode}, left : 0..Budget]
    BY <2>1 DEF Init, QueueInit, DrainPc
  <2>5. queue \in Seq(Nodes) /\ retired \subseteq Nodes /\ shutdown \in BOOLEAN
    <3>1. queue = <<>> /\ retired = {} /\ shutdown = FALSE
      BY DEF Init, QueueInit
    <3>2. <<>> \in Seq(Nodes)
      OBVIOUS
    <3> QED BY <3>1, <3>2
  <2>6. /\ node \in [Nodes -> Node] /\ call \in [Scripts -> Call]
        /\ stop \in [Scripts -> BOOLEAN] /\ late \in [Scripts -> 0..MaxCalls]
    BY <2>1, <2>2, <2>3 DEF Init, QueueInit
  <2> QED BY <2>4, <2>5, <2>6 DEF QueueTypeOK
<1>2. Listed = {} /\ Held = {} /\ \A a \in Nodes : ~node[a].live
  BY DEF Init, QueueInit, Listed, Held, Unallocated
<1>3. Pointers
  BY DEF Init, QueueInit, Pointers
<1>4. Placed
  BY <1>2 DEF Init, QueueInit, Placed
<1>5. Stages /\ Results
  BY <1>2 DEF Init, QueueInit, Stages, Results, OkMeansRan
<1>6. SInv
  BY <1>2 DEF Init, QueueInit, SInv, DrainWaits, Stopping, InQueue, InDrain
<1> QED BY <1>1, <1>3, <1>4, <1>5, <1>6 DEF QInv

\* Where the nodes of the queue, of the list and of the drain are.
LEMMA WhereNodesAre ==
    ASSUME QInv
    PROVE  /\ Listed \subseteq Nodes /\ retired \subseteq Nodes /\ Held \subseteq Nodes
           /\ \A a \in Listed \cup retired \cup Held : node[a].live
           /\ \A a \in Nodes : node[a].live =>
                 /\ node[a].owner \in Scripts /\ node[a].no \in 1..MaxCalls
                 /\ node[a].done \in BOOLEAN /\ node[a].abandoned \in BOOLEAN
           /\ \A a \in Nodes : node[a].live /\ ~node[a].done => a \in Listed \cup Held
<1>1. Listed \subseteq Nodes
  BY DEF QInv, QueueTypeOK, Listed
<1>2. \A a \in Nodes : node[a].live => node[a].owner \in Scripts /\ node[a].no \in 1..MaxCalls
                 /\ node[a].done \in BOOLEAN /\ node[a].abandoned \in BOOLEAN
  BY NodeFields DEF QInv, QueueTypeOK
<1> QED BY <1>1, <1>2 DEF QInv, QueueTypeOK, Pointers, Placed, Stages, Held

-----------------------------------------------------------------------------
(***************************************************************************)
(* The steps of a call                                                     *)
(***************************************************************************)

\* A record that no node is of changes; some retired nodes may be freed.
LEMMA CallMoves ==
    ASSUME QInv, Stopping, NEW s \in Scripts,
           call[s].pc \notin {"wait", "scan"}, call'[s].pc \notin {"wait", "scan"},
           call' \in [Scripts -> Call], \A t \in Scripts \ {s} : call'[t] = call[t],
           call'[s].pc # "none" => call'[s].no >= 1,
           call'[s].pc = "read" => call'[s].dropped,
           call'[s].pc = "push" => ~stop[s],
           node' \in [Nodes -> Node], retired' \subseteq retired,
           \A a \in retired \ retired' : node'[a] = Unallocated,
           \A a \in Nodes \ (retired \ retired') : node'[a] = node[a],
           UNCHANGED <<queue, shutdown, stop, drain, late>>
    PROVE  QInv' /\ Stopping'
<1>1. Listed' = Listed /\ Held' = Held
  BY DEF Listed, Held
<1>2. /\ Listed \subseteq Nodes /\ retired \subseteq Nodes /\ Held \subseteq Nodes
      /\ \A a \in Listed \cup retired \cup Held : node[a].live
      /\ \A a \in Nodes : node[a].live => node[a].owner \in Scripts
  BY WhereNodesAre
<1>3. \A a \in Listed \cup Held : a \notin retired /\ node'[a] = node[a]
  BY <1>2 DEF QInv, Placed
<1>4. \A a \in Listed : node[a].owner # s
  BY DEF QInv, Stages
<1>5. QueueTypeOK'
  BY DEF QInv, QueueTypeOK
<1>6. Pointers'
  BY DEF QInv, Pointers
<1>7. Placed'
  <2>1. ~Unallocated.live
    BY DEF Unallocated
  <2> QED BY <1>1, <1>2, <1>3, <2>1 DEF QInv, Placed
<1>8. Stages'
  <2>1. \A a \in Listed : /\ ~node'[a].done /\ OfCall(a)'
                          /\ call'[node'[a].owner].pc = IF node'[a].abandoned THEN "scan" ELSE "wait"
    BY <1>2, <1>3, <1>4 DEF QInv, Stages, OfCall
  <2>2. drain.pc \in {"exec", "complete"} =>
          /\ ~node'[drain.node].done
          /\ ~node'[drain.node].abandoned =>
                OfCall(drain.node)' /\ call'[node'[drain.node].owner].pc = "wait"
    BY <1>2, <1>3 DEF QInv, Stages, OfCall, Held
  <2>3. drain.pc = "park" => node'[drain.node].done
    BY <1>3 DEF QInv, Stages, Held
  <2>4. \A a \in retired' : node'[a].done
    BY <1>2 DEF QInv, Stages
  <2> QED BY <1>1, <2>1, <2>2, <2>3, <2>4 DEF Stages
<1>9. Results'
  <2>1. ASSUME NEW t \in Scripts, call'[t].pc = "wait", Mine(t)'
        PROVE  /\ ~node'[call'[t].node].abandoned
               /\ node'[call'[t].node].done /\ ~call'[t].dropped => call'[t].ran
    <3>1. t # s /\ call'[t] = call[t] /\ call[t].node \in Nodes
      BY <2>1 DEF QInv, Pointers
    <3>2. node'[call[t].node] = node[call[t].node]
      BY <2>1, <3>1 DEF Mine, Unallocated
    <3> QED BY <2>1, <3>1, <3>2 DEF QInv, Results, Mine
  <2>2. drain.pc = "complete" /\ ~node'[drain.node].abandoned =>
          call'[node'[drain.node].owner].ran
    BY <1>2, <1>3 DEF QInv, Stages, Results, Held
  <2>3. OkMeansRan' /\ \A t \in Scripts : call'[t].pc = "scan" => call'[t].dropped
    BY DEF QInv, Results, OkMeansRan
  <2> QED BY <2>1, <2>2, <2>3 DEF Results
<1>10. Stopping'
  <2>1. \A t \in Scripts : InQueue(t)' = InQueue(t) /\ InDrain(t)' = InDrain(t)
    BY <1>1, <1>3 DEF InQueue, InDrain, Held
  <2>2. \A t \in Scripts : call'[t].pc = "push" => call[t].pc = "push" \/ ~stop[t]
    OBVIOUS
  <2> QED BY <2>1, <2>2 DEF Stopping
<1> QED BY <1>5, <1>6, <1>7, <1>8, <1>9, <1>10 DEF QInv

LEMMA CallUpdates ==
    ASSUME QInv, NEW s \in Scripts, NEW r \in Call, call' = [call EXCEPT ![s] = r]
    PROVE  /\ call' \in [Scripts -> Call] /\ call'[s] = r
           /\ \A t \in Scripts \ {s} : call'[t] = call[t]
BY DEF QInv, QueueTypeOK

LEMMA BeginKeeps ==
    ASSUME QInv, Stopping, NEW s \in Scripts, ExecBegin(s)
    PROVE  QInv' /\ Stopping'
<1> DEFINE r == [pc |-> IF Refuses(s) THEN "read" ELSE "push", no |-> call[s].no + 1,
                 node |-> NoNode, dropped |-> Refuses(s), ran |-> FALSE]
<1>1. call[s] \in Call /\ call[s].pc = "none" /\ call[s].no + 1 \in 1..MaxCalls
  BY ScriptQueueAssumption, CallFields DEF QInv, QueueTypeOK, ExecBegin
<1>2. Refuses(s) \in BOOLEAN /\ Refuses(s) = stop[s]
  BY DEF QInv, QueueTypeOK, Refuses
<1>3. r \in Call
  BY <1>1, <1>2 DEF Call
<1>4. call' = [call EXCEPT ![s] = r]
  BY DEF ExecBegin
<1>5. /\ call'[s] = r /\ call' \in [Scripts -> Call]
      /\ \A t \in Scripts \ {s} : call'[t] = call[t]
  BY <1>3, <1>4, CallUpdates
<1>6. /\ r.pc \notin {"wait", "scan", "none"} /\ r.no >= 1 /\ (r.pc = "read" => r.dropped)
      /\ (r.pc = "push" => ~stop[s])
  BY <1>1, <1>2
<1>7. /\ node' \in [Nodes -> Node] /\ retired' \subseteq retired
      /\ \A a \in retired \ retired' : node'[a] = Unallocated
      /\ \A a \in Nodes \ (retired \ retired') : node'[a] = node[a]
  BY Reclaims DEF QInv, QueueTypeOK, ExecBegin
<1>8. UNCHANGED <<queue, shutdown, stop, drain, late>>
  BY DEF ExecBegin
<1> HIDE DEF r
<1> QED BY <1>1, <1>5, <1>6, <1>7, <1>8, CallMoves

LEMMA RefusedKeeps ==
    ASSUME QInv, Stopping, NEW s \in Scripts, ExecRefused(s) \/ ExecRead(s)
    PROVE  QInv' /\ Stopping'
<1>1. call[s] \in Call /\ call[s].pc \in {"push", "read"} /\ call[s].no >= 1
  BY DEF QInv, QueueTypeOK, Pointers, ExecRefused, ExecRead
<1>2. UNCHANGED <<queue, retired, shutdown, node, stop, drain, late>>
  BY DEF ExecRefused, ExecRead
<1>3. \E r \in Call : /\ call' = [call EXCEPT ![s] = r]
                      /\ r.pc \in {"read", "none"} /\ (r.pc = "read" => r.dropped)
                      /\ r.no = call[s].no
  <2>1. CASE ExecRefused(s)
    <3> DEFINE r == [call[s] EXCEPT !.pc = "read", !.dropped = TRUE]
    <3>1. r \in Call /\ r.pc = "read" /\ r.dropped /\ r.no = call[s].no
      BY <1>1 DEF Call
    <3>2. call' = [call EXCEPT ![s] = r]
      BY <2>1 DEF ExecRefused
    <3> HIDE DEF r
    <3> QED BY <3>1, <3>2
  <2>2. CASE ExecRead(s)
    <3> DEFINE r == [call[s] EXCEPT !.pc = "none", !.node = NoNode, !.dropped = FALSE,
                                    !.ran = FALSE]
    <3>1. r \in Call /\ r.pc = "none" /\ r.no = call[s].no
      BY <1>1 DEF Call
    <3>2. call' = [call EXCEPT ![s] = r]
      BY <2>2 DEF ExecRead
    <3> HIDE DEF r
    <3> QED BY <3>1, <3>2
  <2> QED BY <2>1, <2>2
<1>4. PICK r \in Call : /\ call' = [call EXCEPT ![s] = r]
                        /\ r.pc \in {"read", "none"} /\ (r.pc = "read" => r.dropped)
                        /\ r.no = call[s].no
  BY <1>3
<1>5. /\ call'[s] = r /\ call' \in [Scripts -> Call]
      /\ \A t \in Scripts \ {s} : call'[t] = call[t]
  BY <1>4, CallUpdates
<1>6. node' \in [Nodes -> Node]
  BY <1>2 DEF QInv, QueueTypeOK
<1> QED BY <1>1, <1>2, <1>4, <1>5, <1>6, CallMoves

\* The call of s gets the new node a; the queue gives up its head for it if it is
\* full.
LEMMA PushKeeps ==
    ASSUME QInv, Stopping, NEW s \in Scripts, ExecPush(s) \/ ExecPushFull(s)
    PROVE  QInv' /\ Stopping'
<1>0. /\ queue \in Seq(Nodes) /\ Len(queue) \in Nat /\ call[s] \in Call
      /\ node \in [Nodes -> Node] /\ retired \subseteq Nodes
      /\ call[s].pc = "push" /\ UNCHANGED <<shutdown, stop, drain, late>>
  BY DEF QInv, QueueTypeOK, ExecPush, ExecPushFull
<1>1. PICK a \in Nodes, V \in SUBSET Listed :
        /\ ~node[a].live
        /\ retired' = retired \cup V
        /\ node' = [Done(node, V) EXCEPT ![a] = Allocated(a, s)]
        /\ call' = [Refused(V) EXCEPT ![s] = [@ EXCEPT !.pc = "wait", !.node = a]]
        /\ \/ V = {} /\ queue' = Append(queue, a)
           \/ queue # <<>> /\ V = {queue[1]} /\ queue' = Append(Tail(queue), a)
  <2>1. CASE ExecPush(s)
    <3>1. PICK a \in Nodes :
            /\ ~node[a].live /\ queue' = Append(queue, a) /\ retired' = retired
            /\ node' = [node EXCEPT ![a] = Allocated(a, s)]
            /\ call' = [call EXCEPT ![s] = [@ EXCEPT !.pc = "wait", !.node = a]]
      BY <2>1 DEF ExecPush
    <3>2. Done(node, {}) = node /\ Refused({}) = call
      BY <1>0 DEF Done, Refused, QInv, QueueTypeOK
    <3> QED BY <3>1, <3>2
  <2>2. CASE ExecPushFull(s)
    <3>1. PICK a \in Nodes :
            /\ ~node[a].live /\ queue' = Append(Tail(queue), a)
            /\ retired' = retired \cup {Head(queue)}
            /\ node' = [Done(node, {Head(queue)}) EXCEPT ![a] = Allocated(a, s)]
            /\ call' = [Refused({Head(queue)}) EXCEPT ![s] = [@ EXCEPT !.pc = "wait", !.node = a]]
      BY <2>2 DEF ExecPushFull
    <3>2. queue # <<>> /\ Head(queue) = queue[1] /\ 1 \in 1..Len(queue)
      BY <1>0, <2>2, ScriptQueueAssumption DEF ExecPushFull
    <3>3. {queue[1]} \in SUBSET Listed
      BY <3>2 DEF Listed
    <3> QED BY <3>1, <3>2, <3>3
  <2> QED BY <2>1, <2>2
<1>2. /\ Listed \subseteq Nodes /\ retired \subseteq Nodes /\ Held \subseteq Nodes
      /\ \A b \in Listed \cup retired \cup Held : node[b].live
      /\ \A b \in Nodes : node[b].live => node[b].owner \in Scripts
  BY WhereNodesAre
<1>3. /\ a \notin Listed \cup retired \cup Held
      /\ V \subseteq Nodes /\ \A b \in V : node[b].live
  BY <1>1, <1>2
<1>4. Allocated(a, s) \in Node /\ call[s].no \in 1..MaxCalls
  <2>1. call[s].no \in 1..MaxCalls
    BY <1>0, CallFields, ScriptQueueAssumption DEF QInv, Pointers
  <2> QED BY <2>1 DEF Allocated, Node
<1>5. /\ node' \in [Nodes -> Node] /\ node'[a] = Allocated(a, s)
      /\ \A b \in Nodes \ (V \cup {a}) : node'[b] = node[b]
      /\ \A b \in V : LET k == node'[b]
                      IN /\ k.live /\ k.owner = node[b].owner /\ k.no = node[b].no
                         /\ k.done /\ k.abandoned = node[b].abandoned
  <2>1. /\ Done(node, V) \in [Nodes -> Node]
        /\ \A b \in Nodes \ V : Done(node, V)[b] = node[b]
        /\ \A b \in V : LET k == Done(node, V)[b]
                        IN /\ k.live /\ k.owner = node[b].owner /\ k.no = node[b].no
                           /\ k.done /\ k.abandoned = node[b].abandoned
    BY <1>0, <1>3, DoneAre
  <2>2. /\ node'[a] = Allocated(a, s) /\ node' \in [Nodes -> Node]
        /\ \A b \in Nodes \ {a} : node'[b] = Done(node, V)[b]
    BY <1>1, <1>4, <2>1
  <2> QED BY <1>1, <1>3, <2>1, <2>2
<1>6. \A b \in Listed : node[b].owner # s
  BY <1>0 DEF QInv, Stages
<1>7. /\ call' \in [Scripts -> Call]
      /\ call'[s].pc = "wait" /\ call'[s].node = a /\ call'[s].no = call[s].no
      /\ \A t \in Scripts \ {s} :
            /\ call'[t].pc = call[t].pc /\ call'[t].node = call[t].node
            /\ call'[t].no = call[t].no /\ call'[t].ran = call[t].ran
            /\ call[t].dropped \/ (\E b \in V : node[b].owner = t) => call'[t].dropped
  <2>1. \A t \in Scripts : Refused(V)[t] = IF \E b \in V : node[b].owner = t
                                           THEN [call[t] EXCEPT !.dropped = TRUE] ELSE call[t]
    BY DEF Refused
  <2>2. \A t \in Scripts :
           /\ call[t] \in Call /\ [call[t] EXCEPT !.dropped = TRUE] \in Call
           /\ LET k == [call[t] EXCEPT !.dropped = TRUE]
              IN /\ k.pc = call[t].pc /\ k.node = call[t].node /\ k.no = call[t].no
                 /\ k.ran = call[t].ran /\ k.dropped = TRUE
           /\ call[t].dropped \in BOOLEAN
    BY DEF QInv, QueueTypeOK, Call
  <2>3. Refused(V)[s] = call[s] /\ Refused(V) \in [Scripts -> Call]
    <3>1. Refused(V)[s] = call[s]
      BY <1>1, <1>6, <2>1
    <3>2. ASSUME NEW t \in Scripts PROVE Refused(V)[t] \in Call
      <4> DEFINE k == [call[t] EXCEPT !.dropped = TRUE]
      <4>1. call[t] \in Call /\ k \in Call
        BY <2>2
      <4>2. Refused(V)[t] = k \/ Refused(V)[t] = call[t]
        BY <2>1
      <4> HIDE DEF k
      <4> QED BY <4>1, <4>2
    <3> QED BY <3>1, <3>2 DEF Refused
  <2> DEFINE r == [call[s] EXCEPT !.pc = "wait", !.node = a]
  <2>4. r \in Call /\ r.pc = "wait" /\ r.node = a /\ r.no = call[s].no
    BY <1>0 DEF Call
  <2>5. call' = [Refused(V) EXCEPT ![s] = r]
    BY <1>1, <2>3
  <2> HIDE DEF r
  <2>6. call' \in [Scripts -> Call] /\ call'[s] = r
        /\ \A t \in Scripts \ {s} : call'[t] = Refused(V)[t]
    BY <2>3, <2>4, <2>5
  <2>7. ASSUME NEW t \in Scripts \ {s}
        PROVE  /\ call'[t].pc = call[t].pc /\ call'[t].node = call[t].node
               /\ call'[t].no = call[t].no /\ call'[t].ran = call[t].ran
               /\ call[t].dropped \/ (\E b \in V : node[b].owner = t) => call'[t].dropped
    <3>1. CASE \E b \in V : node[b].owner = t
      <4>1. call'[t] = [call[t] EXCEPT !.dropped = TRUE]
        BY <2>1, <2>6, <3>1
      <4> QED BY <2>2, <3>1, <4>1
    <3>2. CASE ~\E b \in V : node[b].owner = t
      <4>1. call'[t] = call[t] /\ call[t].dropped \in BOOLEAN
        BY <2>1, <2>2, <2>6, <3>2
      <4> QED BY <3>2, <4>1
    <3> QED BY <3>1, <3>2
  <2> QED BY <2>4, <2>6, <2>7
<1>8. /\ queue' \in Seq(Nodes) /\ Listed' = (Listed \ V) \cup {a}
      /\ \A i, j \in 1..Len(queue') : queue'[i] = queue'[j] => i = j
  <2>0. \A i \in 1..Len(queue) : queue[i] # a
    BY <1>3 DEF Listed
  <2>1. CASE V = {} /\ queue' = Append(queue, a)
    <3>1. /\ Len(queue') = Len(queue) + 1 /\ queue'[Len(queue) + 1] = a
          /\ \A i \in 1..Len(queue) : queue'[i] = queue[i]
          /\ queue' \in Seq(Nodes)
      BY <1>0, <2>1
    <3>2. \A i \in 1..Len(queue') : i \in 1..Len(queue) \/ i = Len(queue) + 1
      BY <1>0, <3>1
    <3>3. Listed' = Listed \cup {a}
      BY <1>0, <3>1, <3>2 DEF Listed
    <3> QED BY <2>0, <2>1, <3>1, <3>2, <3>3 DEF QInv, Placed
  <2>2. CASE queue # <<>> /\ V = {queue[1]} /\ queue' = Append(Tail(queue), a)
    <3>1. /\ Len(queue') = Len(queue) /\ queue'[Len(queue)] = a /\ Len(queue) \in Nat \ {0}
          /\ \A i \in 1..Len(queue)-1 : queue'[i] = queue[i + 1]
          /\ queue' \in Seq(Nodes)
      BY <1>0, <2>2
    <3>2. \A i \in 1..Len(queue') : \/ i \in 1..Len(queue)-1 /\ i + 1 \in 1..Len(queue)
                                    \/ i = Len(queue)
      BY <3>1
    <3>3. \A b \in Listed' : b \in (Listed \ V) \cup {a}
      <4> SUFFICES ASSUME NEW i \in 1..Len(queue'), queue'[i] # a
                   PROVE  queue'[i] \in Listed /\ queue'[i] # queue[1]
        BY <2>2 DEF Listed
      <4>1. i + 1 \in 1..Len(queue) /\ queue'[i] = queue[i + 1] /\ i + 1 # 1 /\ 1 \in 1..Len(queue)
        BY <3>1, <3>2
      <4> QED BY <4>1 DEF Listed, QInv, Placed
    <3>4. \A b \in (Listed \ V) \cup {a} : b \in Listed'
      <4>1. Len(queue) \in 1..Len(queue')
        BY <3>1
      <4>2. ASSUME NEW i \in 1..Len(queue), i # 1 PROVE queue[i] \in Listed'
        <5>1. i - 1 \in 1..Len(queue)-1 /\ i - 1 \in 1..Len(queue') /\ (i - 1) + 1 = i
          BY <3>1, <4>2
        <5> QED BY <3>1, <5>1 DEF Listed
      <4>3. a \in Listed'
        BY <3>1, <4>1 DEF Listed
      <4>4. ASSUME NEW b \in Listed \ V PROVE b \in Listed'
        <5>1. PICK i \in 1..Len(queue) : b = queue[i]
          BY DEF Listed
        <5> QED BY <2>2, <4>2, <5>1
      <4> QED BY <4>3, <4>4
    <3>5. \A i, j \in 1..Len(queue') : queue'[i] = queue'[j] => i = j
      <4> SUFFICES ASSUME NEW i \in 1..Len(queue'), NEW j \in 1..Len(queue'),
                          queue'[i] = queue'[j]
                   PROVE  i = j
        OBVIOUS
      <4>1. CASE i # Len(queue) /\ j # Len(queue)
        <5>1. i + 1 \in 1..Len(queue) /\ j + 1 \in 1..Len(queue) /\ queue[i + 1] = queue[j + 1]
          BY <3>1, <3>2, <4>1
        <5>2. i + 1 = j + 1
          BY <5>1 DEF QInv, Placed
        <5> QED BY <5>2
      <4>2. CASE i = Len(queue) \/ j = Len(queue)
        BY <2>0, <3>1, <3>2, <4>2
      <4> QED BY <4>1, <4>2
    <3> QED BY <3>1, <3>3, <3>4, <3>5
  <2> QED BY <1>1, <2>1, <2>2
<1>9. Held' = Held /\ \A b \in Held : b \notin Listed \cup V \cup {a} /\ node'[b] = node[b]
  <2>1. Held' = Held
    BY <1>0 DEF Held
  <2> QED BY <1>2, <1>3, <1>5, <2>1 DEF QInv, Placed
<1>10. QueueTypeOK'
  BY <1>0, <1>2, <1>3, <1>1, <1>5, <1>7, <1>8 DEF QInv, QueueTypeOK
<1>11. Pointers'
  BY <1>0, <1>4, <1>7 DEF QInv, Pointers
<1>12. Placed'
  <2>1. Listed' \cap retired' = {} /\ Held' \cap (Listed' \cup retired') = {}
    BY <1>1, <1>3, <1>8, <1>9 DEF QInv, Placed
  <2>2. Listed' \cup retired' \cup Held' = Listed \cup retired \cup Held \cup {a}
    BY <1>1, <1>8, <1>9
  <2>3. Allocated(a, s).live
    BY DEF Allocated
  <2>4. \A b \in Nodes : node'[b].live <=> (node[b].live \/ b = a)
    BY <1>3, <1>5, <2>3
  <2> QED BY <1>8, <2>1, <2>2, <2>4 DEF QInv, Placed
<1>13. Stages'
  <2>1. ASSUME NEW b \in Listed'
        PROVE  /\ ~node'[b].done /\ OfCall(b)'
               /\ call'[node'[b].owner].pc = IF node'[b].abandoned THEN "scan" ELSE "wait"
    <3>1. CASE b = a
      BY <1>5, <1>7, <3>1 DEF Allocated, OfCall
    <3>2. CASE b # a
      <4>1. b \in Listed /\ b \notin V /\ b \in Nodes /\ node'[b] = node[b]
        BY <1>2, <1>5, <1>8, <2>1, <3>2
      <4>2. node[b].owner \in Scripts \ {s}
        BY <1>2, <1>6, <4>1
      <4> QED BY <1>7, <4>1, <4>2 DEF QInv, Stages, OfCall
    <3> QED BY <3>1, <3>2
  <2>2. drain.pc \in {"exec", "complete"} =>
          /\ ~node'[drain.node].done
          /\ ~node'[drain.node].abandoned =>
                OfCall(drain.node)' /\ call'[node'[drain.node].owner].pc = "wait"
    <3> SUFFICES ASSUME drain.pc \in {"exec", "complete"}
                 PROVE  /\ ~node'[drain.node].done
                        /\ ~node'[drain.node].abandoned =>
                              OfCall(drain.node)' /\ call'[node'[drain.node].owner].pc = "wait"
      OBVIOUS
    <3>1. drain.node \in Held /\ node'[drain.node] = node[drain.node]
          /\ node[drain.node].owner \in Scripts
      BY <1>2, <1>9 DEF Held
    <3> QED BY <1>0, <1>7, <3>1 DEF QInv, Stages, OfCall
  <2>3. drain.pc = "park" => node'[drain.node].done
    BY <1>9 DEF QInv, Stages, Held
  <2>4. \A b \in retired' : node'[b].done
    BY <1>1, <1>2, <1>3, <1>5 DEF QInv, Stages
  <2> QED BY <1>0, <2>1, <2>2, <2>3, <2>4 DEF Stages
<1>14. Results'
  <2>1. ASSUME NEW t \in Scripts, call'[t].pc = "wait", Mine(t)'
        PROVE  /\ ~node'[call'[t].node].abandoned
               /\ node'[call'[t].node].done /\ ~call'[t].dropped => call'[t].ran
    <3>1. CASE t = s
      <4>1. ~Allocated(a, s).abandoned /\ ~Allocated(a, s).done
        BY DEF Allocated
      <4>2. node'[call'[t].node] = Allocated(a, s)
        BY <1>5, <1>7, <3>1
      <4> QED BY <4>1, <4>2
    <3>2. CASE t # s
      <4>1. /\ call[t].pc = "wait" /\ call'[t].node = call[t].node /\ call[t].node \in Nodes
            /\ call'[t].no = call[t].no
        BY <1>7, <2>1, <3>2 DEF QInv, Pointers
      <4>2. call[t].node # a
        BY <1>5, <2>1, <3>2, <4>1 DEF Mine, Allocated
      <4>3. Mine(t) /\ node'[call[t].node].abandoned = node[call[t].node].abandoned
        BY <1>3, <1>5, <2>1, <4>1, <4>2 DEF Mine
      <4>4. CASE call[t].node \in V
        <5>1. call'[t].dropped
          BY <1>7, <3>2, <4>3, <4>4 DEF Mine
        <5> QED BY <4>1, <4>3, <5>1 DEF QInv, Results
      <4>5. CASE call[t].node \notin V
        <5>1. node'[call[t].node] = node[call[t].node]
          BY <1>5, <4>1, <4>2, <4>5
        <5> QED BY <1>7, <3>2, <4>1, <4>3, <5>1 DEF QInv, Results
      <4> QED BY <4>4, <4>5
    <3> QED BY <3>1, <3>2
  <2>2. drain.pc = "complete" /\ ~node'[drain.node].abandoned =>
          call'[node'[drain.node].owner].ran
    BY <1>0, <1>2, <1>7, <1>9 DEF QInv, Stages, Results, Held
  <2>3. OkMeansRan' /\ \A t \in Scripts : call'[t].pc = "scan" => call'[t].dropped
    BY <1>7 DEF QInv, Results, OkMeansRan
  <2> QED BY <1>0, <2>1, <2>2, <2>3 DEF Results
<1>15. Stopping'
  <2>1. ASSUME NEW t \in Scripts
        PROVE  /\ InDrain(t)' <=> InDrain(t)
               /\ InQueue(t)' => InQueue(t) \/ t = s
    <3>1. InDrain(t)' <=> InDrain(t)
      BY <1>0, <1>9 DEF InDrain, Held
    <3>2. ASSUME NEW b \in Listed', node'[b].owner = t, t # s PROVE InQueue(t)
      <4>1. b # a
        BY <1>5, <3>2 DEF Allocated
      <4>2. b \in Listed /\ node'[b] = node[b]
        BY <1>2, <1>5, <1>8, <3>2, <4>1
      <4> QED BY <3>2, <4>2 DEF InQueue
    <3> QED BY <3>1, <3>2 DEF InQueue
  <2>2. \A t \in Scripts : call'[t].pc = "push" => call[t].pc = "push"
    BY <1>0, <1>7
  <2> QED BY <1>0, <1>7, <2>1, <2>2 DEF Stopping
<1> QED BY <1>10, <1>11, <1>12, <1>13, <1>14, <1>15 DEF QInv

LEMMA OwnNode ==
    ASSUME QInv, ~NodeStolen, NEW s \in Scripts, call[s].pc = "wait"
    PROVE  call[s].node \in Nodes /\ Mine(s) /\ node[call[s].node].live
BY DEF QInv, Pointers, NodeStolen, Mine

\* The waiter leaves, with a result or without one.
LEMMA LeaveKeeps ==
    ASSUME QInv, Stopping, ~NodeStolen, NEW s \in Scripts, ExecDone(s) \/ ExecAbandon(s)
    PROVE  QInv' /\ Stopping'
<1> DEFINE x == call[s].node
<1>0. /\ call[s] \in Call /\ node \in [Nodes -> Node] /\ call[s].pc = "wait"
      /\ UNCHANGED <<queue, retired, shutdown, stop, drain, late>>
  BY DEF QInv, QueueTypeOK, ExecDone, ExecAbandon
<1>1. x \in Nodes /\ Mine(s) /\ node[x].live /\ node[x].owner = s /\ node[x].no = call[s].no
  BY <1>0, OwnNode DEF Mine
<1>2. /\ Listed \subseteq Nodes /\ retired \subseteq Nodes /\ Held \subseteq Nodes
      /\ \A b \in Listed \cup retired \cup Held : node[b].live
      /\ \A b \in Nodes : node[b].live => node[b].owner \in Scripts
  BY WhereNodesAre
<1>3. \/ /\ node[x].done /\ call'[s].pc = "read" /\ call'[s].dropped = call[s].dropped
         /\ node'[x].abandoned = node[x].abandoned
      \/ /\ ~node[x].done /\ call'[s].pc = "scan" /\ call'[s].dropped /\ node'[x].abandoned
  <2>1. CASE ExecDone(s)
    <3>1. /\ node[x].done /\ call' = [call EXCEPT ![s] = [@ EXCEPT !.pc = "read"]]
          /\ node' = [node EXCEPT ![x] = [@ EXCEPT !.ack = TRUE]]
      BY <2>1 DEF ExecDone
    <3>2. node'[x].abandoned = node[x].abandoned
      BY <1>0, <1>1, <3>1, NodeUpdates
    <3> QED BY <1>0, <3>1, <3>2 DEF Call, QInv, QueueTypeOK
  <2>2. CASE ExecAbandon(s)
    <3>1. /\ ~node[x].done
          /\ call' = [call EXCEPT ![s] = [@ EXCEPT !.pc = "scan", !.dropped = TRUE]]
          /\ node' = [node EXCEPT ![x] = [@ EXCEPT !.abandoned = TRUE]]
      BY <2>2 DEF ExecAbandon
    <3>2. node'[x].abandoned
      BY <1>0, <1>1, <3>1, NodeUpdates
    <3> QED BY <1>0, <3>1, <3>2 DEF Call, QInv, QueueTypeOK
  <2> QED BY <2>1, <2>2
<1>4. /\ call' \in [Scripts -> Call] /\ call'[s].no = call[s].no /\ call'[s].node = x
      /\ call'[s].ran = call[s].ran
      /\ \A t \in Scripts \ {s} : call'[t] = call[t]
  <2>1. PICK r \in Call : /\ call' = [call EXCEPT ![s] = r]
                          /\ r.no = call[s].no /\ r.node = x /\ r.ran = call[s].ran
    <3>1. CASE ExecDone(s)
      <4> DEFINE r == [call[s] EXCEPT !.pc = "read"]
      <4>1. r \in Call /\ r.no = call[s].no /\ r.node = x /\ r.ran = call[s].ran
        BY <1>0 DEF Call
      <4>2. call' = [call EXCEPT ![s] = r]
        BY <3>1 DEF ExecDone
      <4> HIDE DEF r
      <4> QED BY <4>1, <4>2
    <3>2. CASE ExecAbandon(s)
      <4> DEFINE r == [call[s] EXCEPT !.pc = "scan", !.dropped = TRUE]
      <4>1. r \in Call /\ r.no = call[s].no /\ r.node = x /\ r.ran = call[s].ran
        BY <1>0 DEF Call
      <4>2. call' = [call EXCEPT ![s] = r]
        BY <3>2 DEF ExecAbandon
      <4> HIDE DEF r
      <4> QED BY <4>1, <4>2
    <3> QED BY <3>1, <3>2
  <2> QED BY <2>1, CallUpdates
<1>5. /\ node' \in [Nodes -> Node]
      /\ node'[x].live /\ node'[x].owner = s /\ node'[x].no = node[x].no
      /\ node'[x].done = node[x].done
      /\ \A b \in Nodes \ {x} : node'[b] = node[b]
  <2>1. PICK k \in Node : /\ node' = [node EXCEPT ![x] = k]
                          /\ k.live /\ k.owner = s /\ k.no = node[x].no /\ k.done = node[x].done
    <3>1. CASE ExecDone(s)
      <4> DEFINE k == [node[x] EXCEPT !.ack = TRUE]
      <4>1. k \in Node /\ k.live /\ k.owner = s /\ k.no = node[x].no /\ k.done = node[x].done
        BY <1>0, <1>1, NodeUpdates
      <4>2. node' = [node EXCEPT ![x] = k]
        BY <3>1 DEF ExecDone
      <4> HIDE DEF k
      <4> QED BY <4>1, <4>2
    <3>2. CASE ExecAbandon(s)
      <4> DEFINE k == [node[x] EXCEPT !.abandoned = TRUE]
      <4>1. k \in Node /\ k.live /\ k.owner = s /\ k.no = node[x].no /\ k.done = node[x].done
        BY <1>0, <1>1, NodeUpdates
      <4>2. node' = [node EXCEPT ![x] = k]
        BY <3>2 DEF ExecAbandon
      <4> HIDE DEF k
      <4> QED BY <4>1, <4>2
    <3> QED BY <3>1, <3>2
  <2> QED BY <1>0, <1>1, <2>1
<1> HIDE DEF x
<1>6. Listed' = Listed /\ Held' = Held
  BY <1>0 DEF Listed, Held
<1>8. QueueTypeOK'
  BY <1>0, <1>4, <1>5 DEF QInv, QueueTypeOK
<1>9. Pointers'
  BY <1>0, <1>1, <1>4 DEF QInv, Pointers
<1>10. Placed'
  BY <1>0, <1>1, <1>5, <1>6 DEF QInv, Placed
<1>12. Stages'
  <2>1. ASSUME NEW b \in Listed
        PROVE  /\ ~node'[b].done /\ OfCall(b)'
               /\ call'[node'[b].owner].pc = IF node'[b].abandoned THEN "scan" ELSE "wait"
    <3>1. CASE b = x
      BY <1>1, <1>3, <1>4, <1>5, <3>1 DEF QInv, Stages, OfCall
    <3>2. CASE b # x
      <4>1. node'[b] = node[b] /\ node[b].owner \in Scripts
        BY <1>2, <1>5, <3>2
      <4>2. node[b].owner # s
        BY <3>2 DEF QInv, Stages, OfCall, x
      <4> QED BY <1>4, <4>1, <4>2 DEF QInv, Stages, OfCall
    <3> QED BY <3>1, <3>2
  <2>2. ASSUME drain.pc \in {"exec", "complete"}
        PROVE  /\ ~node'[drain.node].done
               /\ ~node'[drain.node].abandoned =>
                     OfCall(drain.node)' /\ call'[node'[drain.node].owner].pc = "wait"
    <3>1. drain.node \in Nodes /\ node[drain.node].owner \in Scripts /\ ~node[drain.node].done
      BY <1>2, <2>2 DEF Held, QInv, Stages
    <3>2. CASE drain.node = x
      <4>1. node'[x].abandoned /\ ~node'[x].done
        BY <1>3, <1>5, <3>1, <3>2
      <4> QED BY <3>2, <4>1
    <3>3. CASE drain.node # x
      <4>1. node'[drain.node] = node[drain.node]
        BY <1>5, <3>1, <3>3
      <4>2. ~node[drain.node].abandoned => node[drain.node].owner # s
        BY <2>2, <3>3 DEF QInv, Stages, OfCall, x
      <4> QED BY <1>0, <1>4, <2>2, <3>1, <4>1, <4>2 DEF QInv, Stages, OfCall
    <3> QED BY <3>2, <3>3
  <2>3. drain.pc = "park" => node'[drain.node].done
    BY <1>2, <1>5 DEF QInv, Stages, Held
  <2>4. \A b \in retired : node'[b].done
    BY <1>2, <1>5 DEF QInv, Stages
  <2> QED BY <1>0, <1>6, <2>1, <2>2, <2>3, <2>4 DEF Stages
<1>13. Results'
  <2>1. ASSUME NEW t \in Scripts, call'[t].pc = "wait", Mine(t)'
        PROVE  /\ ~node'[call'[t].node].abandoned
               /\ node'[call'[t].node].done /\ ~call'[t].dropped => call'[t].ran
    <3>1. t # s /\ call'[t] = call[t] /\ call[t].node \in Nodes
      BY <1>3, <1>4, <2>1 DEF QInv, Pointers
    <3>2. call[t].node # x
      BY <1>5, <2>1, <3>1 DEF Mine
    <3>3. node'[call[t].node] = node[call[t].node]
      BY <1>5, <3>1, <3>2
    <3> QED BY <2>1, <3>1, <3>3 DEF QInv, Results, Mine
  <2>2. ASSUME drain.pc = "complete", ~node'[drain.node].abandoned
        PROVE  call'[node'[drain.node].owner].ran
    <3>1. drain.node \in Nodes /\ node[drain.node].owner \in Scripts /\ ~node[drain.node].done
      BY <1>2, <2>2 DEF Held, QInv, Stages
    <3>2. node'[drain.node].owner = node[drain.node].owner /\ ~node[drain.node].abandoned
      BY <1>1, <1>3, <1>5, <2>2, <3>1
    <3> QED BY <1>4, <2>2, <3>1, <3>2 DEF QInv, Results
  <2>3. OkMeansRan'
    <3>1. call'[s].pc = "read" /\ ~call'[s].dropped => call'[s].ran
      BY <1>0, <1>1, <1>3, <1>4 DEF QInv, Results, x
    <3> QED BY <1>4, <3>1 DEF QInv, Results, OkMeansRan
  <2>4. \A t \in Scripts : call'[t].pc = "scan" => call'[t].dropped
    BY <1>3, <1>4 DEF QInv, Results
  <2> QED BY <1>0, <2>1, <2>2, <2>3, <2>4 DEF Results
<1>14. Stopping'
  <2>1. \A b \in Nodes : node'[b].owner = node[b].owner
    BY <1>1, <1>5
  <2>2. \A t \in Scripts : (InQueue(t)' <=> InQueue(t)) /\ (InDrain(t)' <=> InDrain(t))
    BY <1>0, <1>2, <1>6, <2>1 DEF InQueue, InDrain, Held
  <2>3. \A t \in Scripts : call'[t].pc = "push" => call[t].pc = "push"
    BY <1>3, <1>4
  <2> QED BY <1>0, <2>2, <2>3 DEF Stopping
<1> QED BY <1>8, <1>9, <1>10, <1>12, <1>13, <1>14 DEF QInv

\* RemoveFirst takes an element out of a sequence that has it once.
LEMMA RemovedIs ==
    ASSUME NEW S, NEW q \in Seq(S), NEW k \in 1..Len(q),
           \A i, j \in 1..Len(q) : q[i] = q[j] => i = j
    PROVE  LET p == RemoveFirst(q, q[k])
           IN /\ p \in Seq(S) /\ Len(p) = Len(q) - 1
              /\ \A i \in 1..Len(p) : p[i] = IF i < k THEN q[i] ELSE q[i + 1]
<1>1. {i \in 1..Len(q) : q[i] = q[k]} = {k}
  OBVIOUS
<1>2. Min({k}) = k
  BY DEF Min
<1>3. SelectInSeq(q, LAMBDA v : v = q[k]) = k
  BY <1>1, <1>2 DEF SelectInSeq
<1>4. RemoveFirst(q, q[k]) = SubSeq(q, 1, k - 1) \o SubSeq(q, k + 1, Len(q))
  BY <1>3 DEF RemoveFirst, RemoveAt
<1> DEFINE a == SubSeq(q, 1, k - 1)
           b == SubSeq(q, k + 1, Len(q))
<1>5. Len(q) \in Nat /\ k \in 1..Len(q) /\ k - 1 \in Nat
  OBVIOUS
<1>6. /\ a \in Seq(S) /\ Len(a) = k - 1 /\ \A i \in 1..k - 1 : a[i] = q[i]
      /\ b \in Seq(S) /\ Len(b) = Len(q) - k /\ \A i \in 1..Len(q) - k : b[i] = q[i + k]
  <2>1. /\ \A i \in 1..k - 1 : q[i] \in S
        /\ \A i \in k + 1..Len(q) : q[i] \in S
    OBVIOUS
  <2> QED BY <1>5, <2>1
<1> HIDE DEF a, b
<1>7. /\ a \o b \in Seq(S) /\ Len(a \o b) = Len(q) - 1
      /\ \A i \in 1..Len(q) - 1 : (a \o b)[i] = IF i <= k - 1 THEN a[i] ELSE b[i - (k - 1)]
  <2>1. a \o b \in Seq(S) /\ Len(a \o b) = Len(a) + Len(b)
    BY <1>6, ConcatProperties
  <2>2. \A i \in 1..Len(a) + Len(b) : (a \o b)[i] = IF i <= Len(a) THEN a[i] ELSE b[i - Len(a)]
    BY <1>6
  <2>3. Len(a) + Len(b) = Len(q) - 1
    BY <1>5, <1>6
  <2> QED BY <1>6, <2>1, <2>2, <2>3
<1>8. ASSUME NEW i \in 1..Len(q) - 1 PROVE (a \o b)[i] = IF i < k THEN q[i] ELSE q[i + 1]
  BY <1>5, <1>6, <1>7
<1> QED BY <1>4, <1>7, <1>8 DEF a, b

\* A waiter that gave up looks for the address of its node, whoever's node is there.
LEMMA ScanKeeps ==
    ASSUME QInv, Stopping, NEW s \in Scripts, ExecScan(s)
    PROVE  QInv' /\ Stopping'
<1> DEFINE x == call[s].node
<1>0. /\ call[s] \in Call /\ node \in [Nodes -> Node] /\ call[s].pc = "scan" /\ x \in Nodes
      /\ queue \in Seq(Nodes) /\ Len(queue) \in Nat /\ call[s].dropped
      /\ UNCHANGED <<retired, shutdown, stop, drain, late>>
  BY DEF QInv, QueueTypeOK, Pointers, Results, ExecScan
<1>1. /\ call' \in [Scripts -> Call] /\ call'[s].pc = "read" /\ call'[s].dropped
      /\ call'[s].no = call[s].no
      /\ \A t \in Scripts \ {s} : call'[t] = call[t]
  <2> DEFINE r == [call[s] EXCEPT !.pc = "read"]
  <2>1. r \in Call /\ r.pc = "read" /\ r.dropped /\ r.no = call[s].no
    BY <1>0 DEF Call
  <2>2. call' = [call EXCEPT ![s] = r]
    BY DEF ExecScan
  <2> HIDE DEF r
  <2> QED BY <2>1, <2>2, CallUpdates
<1>2. /\ Listed \subseteq Nodes /\ retired \subseteq Nodes /\ Held \subseteq Nodes
      /\ \A b \in Listed \cup retired \cup Held : node[b].live
      /\ \A b \in Nodes : node[b].live => node[b].owner \in Scripts
  BY WhereNodesAre
<1>3. ToSet(queue) = Listed
  BY <1>0 DEF ToSet, Listed
<1>4. /\ queue' \in Seq(Nodes) /\ Listed' = Listed \ {x}
      /\ \A i, j \in 1..Len(queue') : queue'[i] = queue'[j] => i = j
  <2>1. queue' = RemoveFirst(queue, x)
    BY DEF ExecScan, Unqueued
  <2>2. CASE x \notin Listed
    <3>1. queue' = queue
      BY <2>1, <2>2 DEF RemoveFirst, Listed
    <3> QED BY <1>0, <2>2, <3>1 DEF QInv, Placed, Listed
  <2>3. CASE x \in Listed
    <3>1. PICK k \in 1..Len(queue) : x = queue[k]
      BY <2>3 DEF Listed
    <3>2. \A i, j \in 1..Len(queue) : queue[i] = queue[j] => i = j
      BY DEF QInv, Placed
    <3>3. /\ queue' \in Seq(Nodes) /\ Len(queue') = Len(queue) - 1
          /\ \A i \in 1..Len(queue') : queue'[i] = IF i < k THEN queue[i] ELSE queue[i + 1]
      BY <1>0, <2>1, <3>1, <3>2, RemovedIs
    <3> DEFINE old(i) == IF i < k THEN i ELSE i + 1
    <3>0. Len(queue) \in Nat /\ Len(queue') = Len(queue) - 1 /\ k \in 1..Len(queue)
      BY <1>0, <3>1, <3>3
    <3>4. ASSUME NEW i \in 1..Len(queue')
          PROVE  old(i) \in 1..Len(queue) /\ old(i) # k /\ queue'[i] = queue[old(i)]
      <4>1. old(i) \in 1..Len(queue) /\ old(i) # k
        BY <3>0
      <4>2. queue'[i] = queue[old(i)]
        BY <3>3
      <4> QED BY <4>1, <4>2
    <3>5. \A i, j \in 1..Len(queue') : old(i) = old(j) => i = j
      BY <3>0
    <3>6. \A j \in 1..Len(queue) : j # k => \E i \in 1..Len(queue') : old(i) = j
      <4> SUFFICES ASSUME NEW j \in 1..Len(queue), j # k
                   PROVE  \E i \in 1..Len(queue') : old(i) = j
        OBVIOUS
      <4>1. CASE j < k
        <5>1. j \in 1..Len(queue') /\ old(j) = j
          BY <1>0, <3>1, <3>3, <4>1
        <5> QED BY <5>1
      <4>2. CASE j > k
        <5>1. j - 1 \in 1..Len(queue') /\ old(j - 1) = j
          BY <1>0, <3>1, <3>3, <4>2
        <5> QED BY <5>1
      <4> QED BY <1>0, <3>1, <4>1, <4>2
    <3> HIDE DEF old
    <3>7. \A i, j \in 1..Len(queue') : queue'[i] = queue'[j] => i = j
      BY <3>2, <3>4, <3>5
    <3>8. Listed' = Listed \ {x}
      <4>1. \A b \in Listed' : b \in Listed \ {x}
        BY <3>1, <3>2, <3>4 DEF Listed
      <4>2. ASSUME NEW j \in 1..Len(queue), queue[j] # x PROVE queue[j] \in Listed'
        <5>1. PICK i \in 1..Len(queue') : old(i) = j
          BY <3>1, <3>6, <4>2
        <5> QED BY <3>4, <5>1 DEF Listed
      <4>3. \A b \in Listed \ {x} : b \in Listed'
        BY <4>2 DEF Listed
      <4> QED BY <4>1, <4>3
    <3> QED BY <3>3, <3>7, <3>8
  <2> QED BY <2>2, <2>3
<1>5. /\ node' \in [Nodes -> Node] /\ \A b \in Nodes : b \notin Listed \/ b # x => node'[b] = node[b]
      /\ x \in Listed => node'[x] = Unallocated
  <2>1. Unallocated \in Node
    BY DEF Node
  <2>2. CASE x \in Listed
    <3>1. node' = [node EXCEPT ![x] = Unallocated]
      BY <1>3, <2>2 DEF ExecScan
    <3> QED BY <1>0, <2>1, <2>2, <3>1
  <2>3. CASE x \notin Listed
    <3>1. node' = node
      BY <1>3, <2>3 DEF ExecScan
    <3> QED BY <1>0, <2>3, <3>1
  <2> QED BY <2>2, <2>3
<1>6. ~Unallocated.live
  BY DEF Unallocated
<1>7. Held' = Held /\ \A b \in Held \cup retired : b \in Nodes /\ b \notin Listed /\ node'[b] = node[b]
  BY <1>0, <1>2, <1>5 DEF Held, QInv, Placed
<1>8. \A b \in Listed' : b \in Listed /\ node'[b] = node[b] /\ node[b].owner \in Scripts \ {s}
  <2>1. \A b \in Listed' : b \in Listed /\ node'[b] = node[b] /\ b # x
    BY <1>2, <1>4, <1>5
  <2> QED BY <1>2, <2>1 DEF QInv, Stages, OfCall
<1> HIDE DEF x
<1>9. QueueTypeOK'
  BY <1>0, <1>1, <1>4, <1>5 DEF QInv, QueueTypeOK
<1>10. Pointers'
  BY <1>0, <1>1 DEF QInv, Pointers
<1>11. Placed'
  <2>1. \A b \in Nodes : node'[b].live <=> node[b].live /\ ~(b = x /\ x \in Listed)
    BY <1>5, <1>6
  <2>2. Listed' \cap retired' = {} /\ Held' \cap (Listed' \cup retired') = {}
    BY <1>0, <1>4, <1>7 DEF QInv, Placed
  <2>3. Listed' \cup retired' \cup Held' = {b \in Nodes : node'[b].live}
    BY <1>0, <1>2, <1>4, <1>7, <2>1 DEF QInv, Placed
  <2> QED BY <1>4, <2>2, <2>3 DEF Placed
<1>12. Stages'
  <2>1. \A b \in Listed' : /\ ~node'[b].done /\ OfCall(b)'
                           /\ call'[node'[b].owner].pc = IF node'[b].abandoned THEN "scan" ELSE "wait"
    BY <1>1, <1>8 DEF QInv, Stages, OfCall
  <2>2. ASSUME drain.pc \in {"exec", "complete"}
        PROVE  /\ ~node'[drain.node].done
               /\ ~node'[drain.node].abandoned =>
                     OfCall(drain.node)' /\ call'[node'[drain.node].owner].pc = "wait"
    <3>1. drain.node \in Held /\ node'[drain.node] = node[drain.node]
          /\ node[drain.node].owner \in Scripts
      BY <1>2, <1>7, <2>2 DEF Held
    <3> QED BY <1>0, <1>1, <2>2, <3>1 DEF QInv, Stages, OfCall
  <2>3. drain.pc = "park" => node'[drain.node].done
    BY <1>7 DEF QInv, Stages, Held
  <2>4. \A b \in retired : node'[b].done
    BY <1>7 DEF QInv, Stages
  <2> QED BY <1>0, <2>1, <2>2, <2>3, <2>4 DEF Stages
<1>13. Results'
  <2>1. ASSUME NEW t \in Scripts, call'[t].pc = "wait", Mine(t)'
        PROVE  /\ ~node'[call'[t].node].abandoned
               /\ node'[call'[t].node].done /\ ~call'[t].dropped => call'[t].ran
    <3>1. t # s /\ call'[t] = call[t] /\ call[t].node \in Nodes
      BY <1>1, <2>1 DEF QInv, Pointers
    <3>2. node'[call[t].node] = node[call[t].node]
      BY <1>5, <1>6, <2>1, <3>1 DEF Mine
    <3> QED BY <2>1, <3>1, <3>2 DEF QInv, Results, Mine
  <2>2. ASSUME drain.pc = "complete", ~node'[drain.node].abandoned
        PROVE  call'[node'[drain.node].owner].ran
    <3>1. drain.node \in Held /\ node'[drain.node] = node[drain.node]
          /\ node[drain.node].owner \in Scripts
      BY <1>2, <1>7, <2>2 DEF Held
    <3> QED BY <1>0, <1>1, <2>2, <3>1 DEF QInv, Results, Stages
  <2>3. OkMeansRan' /\ \A t \in Scripts : call'[t].pc = "scan" => call'[t].dropped
    BY <1>1 DEF QInv, Results, OkMeansRan
  <2> QED BY <1>0, <2>1, <2>2, <2>3 DEF Results
<1>14. Stopping'
  <2>1. \A t \in Scripts : (InQueue(t)' => InQueue(t)) /\ (InDrain(t)' <=> InDrain(t))
    BY <1>0, <1>7, <1>8 DEF InQueue, InDrain, Held
  <2>2. \A t \in Scripts : call'[t].pc = "push" => call[t].pc = "push"
    BY <1>1
  <2> QED BY <1>0, <2>1, <2>2 DEF Stopping
<1> QED BY <1>9, <1>10, <1>11, <1>12, <1>13, <1>14 DEF QInv

-----------------------------------------------------------------------------
(***************************************************************************)
(* The drain                                                               *)
(***************************************************************************)

\* The drain moves on without a node in its hands.
LEMMA DrainMoves ==
    ASSUME QInv, Stopping, drain' \in [pc : DrainPc, node : Nodes \cup {NoNode}, left : 0..Budget],
           drain.pc \notin {"exec", "complete", "park"},
           drain'.pc \notin {"exec", "complete", "park"},
           drain'.pc = "erase" => drain'.node \in Nodes,
           UNCHANGED <<queue, retired, shutdown, node, call, stop, late>>
    PROVE  QInv' /\ Stopping'
<1>1. Listed' = Listed /\ Held' = {} /\ Held = {}
  BY DEF Listed, Held
<1>2. QueueTypeOK' /\ Pointers' /\ Placed'
  BY <1>1 DEF QInv, QueueTypeOK, Pointers, Placed
<1>3. Stages' /\ Results'
  BY <1>1 DEF QInv, Stages, Results, OfCall, OkMeansRan, Mine
<1>4. Stopping'
  BY <1>1 DEF Stopping, InQueue, InDrain
<1> QED BY <1>2, <1>3, <1>4 DEF QInv

LEMMA DrainKeeps ==
    ASSUME QInv, Stopping, DrainBegin \/ DrainStop \/ LastLook \/ DrainEnd
    PROVE  QInv' /\ Stopping'
<1>1. drain \in [pc : DrainPc, node : Nodes \cup {NoNode}, left : 0..Budget] /\ retired \subseteq Nodes
  BY DEF QInv, QueueTypeOK
<1>2. 0 \in 0..Budget /\ Budget \in 0..Budget /\ {"off", "pop", "last", "erase"} \subseteq DrainPc
  BY ScriptQueueAssumption DEF DrainPc
<1>3. UNCHANGED <<queue, retired, shutdown, node, call, stop, late>>
  BY DEF DrainBegin, DrainStop, LastLook, DrainEnd
<1>4. drain.pc \in {"off", "pop", "last"}
  BY DEF DrainBegin, DrainStop, LastLook, DrainEnd
<1>5. /\ drain' \in [pc : DrainPc, node : Nodes \cup {NoNode}, left : 0..Budget]
      /\ drain'.pc \in {"off", "pop", "last", "erase"}
      /\ drain'.pc = "erase" => drain'.node \in Nodes
  <2>1. CASE DrainBegin
    BY <1>2, <2>1 DEF DrainBegin
  <2>2. CASE DrainStop
    BY <1>1, <1>2, <2>2 DEF DrainStop
  <2>3. CASE LastLook
    <3>1. PICK a \in Nodes : drain' = [drain EXCEPT !.pc = "erase", !.node = a]
      BY <1>1, <2>3 DEF LastLook, Reclaimable
    <3> QED BY <1>1, <1>2, <3>1
  <2>4. CASE DrainEnd
    BY <1>1, <1>2, <2>4 DEF DrainEnd
  <2> QED BY <2>1, <2>2, <2>3, <2>4
<1> QED BY <1>3, <1>4, <1>5, DrainMoves

LEMMA PopKeeps ==
    ASSUME QInv, Stopping, DrainPop
    PROVE  QInv' /\ Stopping'
<1> DEFINE h == Head(queue)
<1>0. /\ queue \in Seq(Nodes) /\ queue # <<>> /\ Len(queue) \in Nat \ {0} /\ h = queue[1]
      /\ 1 \in 1..Len(queue)
      /\ drain.pc = "pop" /\ drain.left \in 1..Budget /\ queue' = Tail(queue)
      /\ UNCHANGED <<shutdown, call, stop, late>>
  BY ScriptQueueAssumption DEF QInv, QueueTypeOK, DrainPop, Exhausted
<1>1. h \in Listed /\ h \in Nodes
  BY <1>0 DEF Listed
<1>2. /\ Listed \subseteq Nodes /\ retired \subseteq Nodes /\ Held = {}
      /\ \A b \in Listed \cup retired \cup Held : node[b].live
      /\ \A b \in Nodes : node[b].live => node[b].owner \in Scripts
  BY <1>0, WhereNodesAre DEF Held
<1>3. /\ node' \in [Nodes -> Node] /\ retired' \subseteq retired
      /\ \A a \in retired \ retired' : node'[a] = Unallocated
      /\ \A a \in Nodes \ (retired \ retired') : node'[a] = node[a]
  BY Reclaims DEF QInv, QueueTypeOK, DrainPop
<1>4. /\ drain' \in [pc : DrainPc, node : Nodes \cup {NoNode}, left : 0..Budget]
      /\ drain'.pc = "exec" /\ drain'.node = h /\ drain'.left >= 1
  <2>1. drain' = [drain EXCEPT !.pc = "exec", !.node = h]
    BY DEF DrainPop
  <2>2. drain \in [pc : DrainPc, node : Nodes \cup {NoNode}, left : 0..Budget] /\ "exec" \in DrainPc
    BY DEF QInv, QueueTypeOK, DrainPc
  <2> HIDE DEF h
  <2>3. drain' \in [pc : DrainPc, node : Nodes \cup {NoNode}, left : 0..Budget]
    BY <1>1, <2>1, <2>2
  <2>4. drain'.pc = "exec" /\ drain'.node = h /\ drain'.left = drain.left
    BY <2>1, <2>2
  <2> QED BY <1>0, <2>3, <2>4
<1> HIDE DEF h
<1>5. /\ queue' \in Seq(Nodes) /\ Len(queue') = Len(queue) - 1
      /\ \A i \in 1..Len(queue') : queue'[i] = queue[i + 1] /\ i + 1 \in 1..Len(queue)
  BY <1>0
<1>6. \A i, j \in 1..Len(queue) : queue[i] = queue[j] => i = j
  BY DEF QInv, Placed
<1>7. \A i, j \in 1..Len(queue') : queue'[i] = queue'[j] => i = j
  <2> SUFFICES ASSUME NEW i \in 1..Len(queue'), NEW j \in 1..Len(queue'), queue'[i] = queue'[j]
               PROVE  i = j
    OBVIOUS
  <2>1. i + 1 = j + 1
    BY <1>5, <1>6
  <2> QED BY <2>1
<1>8. Listed' = Listed \ {h}
  <2>1. ASSUME NEW i \in 1..Len(queue') PROVE queue'[i] \in Listed /\ queue'[i] # h
    <3>1. i + 1 # 1 /\ i + 1 \in 1..Len(queue) /\ queue'[i] = queue[i + 1]
      BY <1>5
    <3> QED BY <1>0, <1>6, <3>1 DEF Listed
  <2>2. ASSUME NEW i \in 1..Len(queue), queue[i] # h PROVE queue[i] \in Listed'
    <3>1. i - 1 \in 1..Len(queue') /\ (i - 1) + 1 = i
      BY <1>0, <1>5, <2>2
    <3>2. queue'[i - 1] = queue[i]
      BY <1>5, <3>1
    <3> QED BY <3>1, <3>2 DEF Listed
  <2>3. \A b \in Listed' : b \in Listed \ {h}
    BY <2>1 DEF Listed
  <2>4. \A b \in Listed \ {h} : b \in Listed'
    BY <2>2 DEF Listed
  <2> QED BY <2>3, <2>4
<1>9. Held' = {h} /\ \A b \in Listed : b \notin retired /\ node'[b] = node[b]
  BY <1>1, <1>2, <1>3, <1>4 DEF Held, QInv, Placed
<1>10. QueueTypeOK'
  BY <1>0, <1>2, <1>3, <1>4, <1>5 DEF QInv, QueueTypeOK
<1>11. Pointers'
  BY <1>0, <1>1, <1>4 DEF QInv, Pointers
<1>12. Placed'
  <2>1. ~Unallocated.live
    BY DEF Unallocated
  <2>2. Listed' \cap retired' = {} /\ Held' \cap (Listed' \cup retired') = {}
    BY <1>1, <1>3, <1>8, <1>9 DEF QInv, Placed
  <2>3. Listed \cup retired' = {a \in Nodes : node'[a].live}
    BY <1>2, <1>3, <1>9, <2>1 DEF QInv, Placed
  <2> QED BY <1>1, <1>7, <1>8, <1>9, <2>2, <2>3 DEF Placed
<1>13. Stages'
  BY <1>0, <1>1, <1>2, <1>3, <1>4, <1>8, <1>9 DEF QInv, Stages, OfCall
<1>14. Results'
  <2>1. ASSUME NEW t \in Scripts, call[t].pc = "wait", Mine(t)'
        PROVE  /\ ~node'[call[t].node].abandoned
               /\ node'[call[t].node].done /\ ~call[t].dropped => call[t].ran
    <3>1. call[t].node \in Nodes
      BY <2>1 DEF QInv, Pointers
    <3>2. node'[call[t].node] = node[call[t].node]
      BY <1>0, <1>3, <2>1, <3>1 DEF Mine, Unallocated
    <3> QED BY <1>0, <2>1, <3>1, <3>2 DEF QInv, Results, Mine
  <2> QED BY <1>0, <1>4, <2>1 DEF QInv, Results, OkMeansRan
<1>15. Stopping'
  <2>1. ASSUME NEW t \in Scripts
        PROVE  /\ InQueue(t)' => InQueue(t)
               /\ InDrain(t)' => InQueue(t) /\ ~InQueue(t)' /\ call[t].pc # "push"
               /\ ~InDrain(t)
    <3>1. InQueue(t)' => InQueue(t)
      BY <1>8, <1>9 DEF InQueue
    <3>2. ASSUME InDrain(t)' PROVE InQueue(t) /\ ~InQueue(t)' /\ call[t].pc # "push"
      <4>1. node[h].owner = t
        BY <1>1, <1>4, <1>9, <3>2 DEF InDrain
      <4>2. call[t].node = h /\ call[t].pc # "push"
        BY <1>1, <4>1 DEF QInv, Stages, OfCall
      <4>3. \A b \in Listed : node[b].owner = t => b = h
        BY <4>2 DEF QInv, Stages, OfCall
      <4> QED BY <1>1, <1>8, <1>9, <4>1, <4>2, <4>3 DEF InQueue
    <3> QED BY <1>0, <3>1, <3>2 DEF InDrain
  <2> QED BY <1>0, <2>1 DEF Stopping
<1> QED BY <1>10, <1>11, <1>12, <1>13, <1>14, <1>15 DEF QInv

LEMMA ExecuteKeeps ==
    ASSUME QInv, Stopping, DrainExecute
    PROVE  QInv' /\ Stopping'
<1> DEFINE x == drain.node
           s == node[x].owner
<1>0. /\ drain.pc = "exec" /\ x \in Nodes /\ Held = {x} /\ drain.left >= 1
      /\ UNCHANGED <<queue, retired, shutdown, node, stop>>
  BY DEF QInv, Pointers, DrainExecute, Held
<1>1. /\ Listed \subseteq Nodes /\ node[x].live /\ s \in Scripts /\ node[x].no \in 1..MaxCalls
      /\ \A b \in Listed : node[b].live
      /\ \A b \in Nodes : node[b].live => node[b].owner \in Scripts
  BY <1>0, WhereNodesAre
<1>2. /\ call' \in [Scripts -> Call]
      /\ \A t \in Scripts : /\ call'[t].pc = call[t].pc /\ call'[t].node = call[t].node
                            /\ call'[t].no = call[t].no /\ call'[t].dropped = call[t].dropped
                            /\ call[t].ran => call'[t].ran
      /\ call[s].no = node[x].no /\ call[s].pc # "none" => call'[s].ran
  <2>1. call[s] \in Call /\ call \in [Scripts -> Call]
    BY <1>1 DEF QInv, QueueTypeOK
  <2> DEFINE r == [call[s] EXCEPT !.ran = TRUE]
  <2>2. /\ r \in Call /\ r.pc = call[s].pc /\ r.node = call[s].node /\ r.no = call[s].no
        /\ r.dropped = call[s].dropped /\ r.ran
    BY <2>1 DEF Call
  <2>3. call' = IF call[s].no = node[x].no /\ call[s].pc # "none"
                THEN [call EXCEPT ![s] = r] ELSE call
    BY DEF DrainExecute
  <2> HIDE DEF r, s
  <2>4. CASE call[s].no = node[x].no /\ call[s].pc # "none"
    <3>1. call' \in [Scripts -> Call] /\ call'[s] = r /\ \A t \in Scripts \ {s} : call'[t] = call[t]
      BY <1>1, <2>1, <2>2, <2>3, <2>4
    <3> QED BY <2>2, <3>1
  <2>5. CASE ~(call[s].no = node[x].no /\ call[s].pc # "none")
    BY <2>1, <2>3, <2>5
  <2> QED BY <2>4, <2>5
<1>3. /\ drain' \in [pc : DrainPc, node : Nodes \cup {NoNode}, left : 0..Budget]
      /\ drain'.pc = "complete" /\ drain'.node = x /\ drain'.left = drain.left
  <2>1. drain \in [pc : DrainPc, node : Nodes \cup {NoNode}, left : 0..Budget] /\ "complete" \in DrainPc
    BY DEF QInv, QueueTypeOK, DrainPc
  <2> QED BY <2>1 DEF DrainExecute
<1>4. /\ late' \in [Scripts -> 0..MaxCalls]
      /\ \A t \in Scripts : late'[t] = IF t = s /\ stop[s] THEN 1 ELSE late[t]
  <2>1. stop[s] => late[s] = 0
    <3>1. InDrain(s)
      BY <1>0 DEF InDrain
    <3>2. late[s] \in Nat /\ late[s] <= 1 /\ late[s] # 1
      BY <1>1, <3>1, ScriptQueueAssumption DEF Stopping, QInv, QueueTypeOK
    <3> QED BY <3>2
  <2>2. late' = IF stop[s] THEN [late EXCEPT ![s] = late[s] + 1] ELSE late
    BY DEF DrainExecute
  <2>3. late \in [Scripts -> 0..MaxCalls] /\ 1 \in 0..MaxCalls
    BY <1>1, ScriptQueueAssumption DEF QInv, QueueTypeOK
  <2> HIDE DEF s
  <2> QED BY <1>1, <2>1, <2>2, <2>3
<1> HIDE DEF s, x
<1>5. Listed' = Listed /\ Held' = Held
  BY <1>0, <1>3 DEF Listed, Held
<1>6. QueueTypeOK'
  BY <1>0, <1>2, <1>3, <1>4 DEF QInv, QueueTypeOK
<1>7. Pointers'
  BY <1>0, <1>2, <1>3 DEF QInv, Pointers
<1>8. Placed'
  BY <1>0, <1>5 DEF QInv, Placed
<1>9. Stages'
  BY <1>0, <1>1, <1>2, <1>3, <1>5 DEF QInv, Stages, OfCall, s, x
<1>10. Results'
  <2>1. OkMeansRan' /\ \A t \in Scripts : call'[t].pc = "scan" => call'[t].dropped
    BY <1>2 DEF QInv, Results, OkMeansRan
  <2>2. \A t \in Scripts : call'[t].pc = "wait" /\ Mine(t)' =>
          /\ ~node'[call'[t].node].abandoned
          /\ node'[call'[t].node].done /\ ~call'[t].dropped => call'[t].ran
    BY <1>0, <1>2 DEF QInv, Results, Mine
  <2>3. ~node[x].abandoned => call'[s].ran
    BY <1>0, <1>2 DEF QInv, Stages, OfCall, s, x
  <2> QED BY <1>0, <1>3, <2>1, <2>2, <2>3 DEF Results, s
<1>11. Stopping'
  <2>1. \A t \in Scripts : (InQueue(t)' <=> InQueue(t)) /\ ~InDrain(t)'
    BY <1>0, <1>3, <1>5 DEF InQueue, InDrain
  <2>2. stop[s] => call[s].pc # "push" /\ ~InQueue(s)
    BY <1>0, <1>1 DEF Stopping, InDrain, s, x
  <2> QED BY <1>0, <1>2, <1>4, <2>1, <2>2 DEF Stopping
<1> QED BY <1>6, <1>7, <1>8, <1>9, <1>10, <1>11 DEF QInv

LEMMA CompleteKeeps ==
    ASSUME QInv, Stopping, DrainComplete
    PROVE  QInv' /\ Stopping'
<1> DEFINE x == drain.node
           s == node[x].owner
<1>0. /\ drain.pc = "complete" /\ x \in Nodes /\ Held = {x} /\ drain.left >= 1
      /\ UNCHANGED <<queue, retired, shutdown, stop, late>>
  BY DEF QInv, Pointers, DrainComplete, Held
<1>1. /\ Listed \subseteq Nodes /\ retired \subseteq Nodes
      /\ node[x].live /\ s \in Scripts /\ x \notin Listed \cup retired
      /\ \A b \in Listed : node[b].live
      /\ \A b \in Nodes : node[b].live => node[b].owner \in Scripts
  BY <1>0, WhereNodesAre DEF QInv, Placed
<1>2. /\ node' \in [Nodes -> Node]
      /\ \A b \in Nodes \ {x} : node'[b] = node[b]
      /\ LET k == node'[x] IN /\ k.live /\ k.owner = s /\ k.no = node[x].no
                              /\ k.done /\ k.abandoned = node[x].abandoned
  <2>1. node \in [Nodes -> Node] /\ node' = Done(node, {x})
    BY DEF QInv, QueueTypeOK, DrainComplete
  <2>2. {x} \in SUBSET Nodes /\ \A b \in {x} : node[b].live
    BY <1>0, <1>1
  <2> HIDE DEF x
  <2> QED BY <2>1, <2>2, DoneAre
<1>3. /\ call' \in [Scripts -> Call]
      /\ \A t \in Scripts : /\ call'[t].pc = call[t].pc /\ call'[t].node = call[t].node
                            /\ call'[t].no = call[t].no /\ call'[t].ran = call[t].ran
      /\ \A t \in Scripts \ {s} : call'[t] = call[t]
      /\ node[x].abandoned => (call[s].dropped => call'[s].dropped)
  <2>1. call[s] \in Call /\ call \in [Scripts -> Call]
    BY <1>1 DEF QInv, QueueTypeOK
  <2>2. \A b \in BOOLEAN :
           LET r == [call[s] EXCEPT !.dropped = b]
           IN /\ r \in Call /\ r.pc = call[s].pc /\ r.node = call[s].node /\ r.no = call[s].no
              /\ r.ran = call[s].ran /\ r.dropped = b
    BY <2>1 DEF Call
  <2>3. \/ call' = call
        \/ \E b \in BOOLEAN : /\ call' = [call EXCEPT ![s] = [call[s] EXCEPT !.dropped = b]]
                              /\ node[x].abandoned => b
    BY DEF DrainComplete
  <2> HIDE DEF s
  <2>4. ASSUME NEW b \in BOOLEAN, call' = [call EXCEPT ![s] = [call[s] EXCEPT !.dropped = b]],
               node[x].abandoned => b
        PROVE  /\ call' \in [Scripts -> Call]
               /\ call'[s] = [call[s] EXCEPT !.dropped = b]
               /\ \A t \in Scripts \ {s} : call'[t] = call[t]
    BY <1>1, <2>1, <2>2, <2>4
  <2> QED BY <2>1, <2>2, <2>3, <2>4
<1>4. /\ drain' \in [pc : DrainPc, node : Nodes \cup {NoNode}, left : 0..Budget]
      /\ drain'.pc = "park" /\ drain'.node = x /\ drain'.left = drain.left
  <2>1. drain \in [pc : DrainPc, node : Nodes \cup {NoNode}, left : 0..Budget] /\ "park" \in DrainPc
    BY DEF QInv, QueueTypeOK, DrainPc
  <2> QED BY <2>1 DEF DrainComplete
<1> HIDE DEF s, x
<1>5. Listed' = Listed /\ Held' = Held
  BY <1>0, <1>4 DEF Listed, Held
<1>6. ~node[x].abandoned => OfCall(x) /\ call[s].pc = "wait" /\ call[s].ran
  BY <1>0 DEF QInv, Stages, Results, s, x
<1>7. QueueTypeOK'
  BY <1>0, <1>2, <1>3, <1>4 DEF QInv, QueueTypeOK
<1>8. Pointers'
  BY <1>0, <1>3, <1>4 DEF QInv, Pointers
<1>9. Placed'
  BY <1>0, <1>1, <1>2, <1>5 DEF QInv, Placed
<1>10. Stages'
  <2>1. \A b \in Listed : /\ ~node'[b].done /\ OfCall(b)'
                          /\ call'[node'[b].owner].pc = IF node'[b].abandoned THEN "scan" ELSE "wait"
    BY <1>1, <1>2, <1>3 DEF QInv, Stages, OfCall
  <2>2. \A b \in retired : node'[b].done
    BY <1>1, <1>2 DEF QInv, Stages
  <2> QED BY <1>0, <1>2, <1>4, <1>5, <2>1, <2>2 DEF Stages
<1>11. Results'
  <2>1. OkMeansRan' /\ \A t \in Scripts : call'[t].pc = "scan" => call'[t].dropped
    BY <1>3, <1>6 DEF QInv, Results, OkMeansRan
  <2>2. ASSUME NEW t \in Scripts, call'[t].pc = "wait", Mine(t)'
        PROVE  /\ ~node'[call'[t].node].abandoned
               /\ node'[call'[t].node].done /\ ~call'[t].dropped => call'[t].ran
    <3>1. /\ call[t].pc = "wait" /\ call'[t].node = call[t].node /\ call[t].node \in Nodes
          /\ call'[t].no = call[t].no /\ call'[t].ran = call[t].ran
      BY <1>3, <2>2 DEF QInv, Pointers
    <3>2. CASE call[t].node = x
      <4>1. t = s /\ Mine(t)
        BY <1>1, <1>2, <2>2, <3>1, <3>2 DEF Mine, s
      <4>2. ~node[x].abandoned
        BY <3>1, <3>2, <4>1 DEF QInv, Results
      <4> QED BY <1>2, <1>6, <3>1, <3>2, <4>1, <4>2
    <3>3. CASE call[t].node # x
      <4>1. node'[call[t].node] = node[call[t].node] /\ Mine(t)
        BY <1>2, <2>2, <3>1, <3>3 DEF Mine
      <4>2. t # s \/ node[x].abandoned
        BY <1>6, <3>3 DEF OfCall, s
      <4>3. ~call'[t].dropped => ~call[t].dropped
        BY <1>3, <4>2
      <4> QED BY <3>1, <4>1, <4>3 DEF QInv, Results
    <3> QED BY <3>2, <3>3
  <2> QED BY <1>4, <2>1, <2>2 DEF Results
<1>12. Stopping'
  <2>1. \A t \in Scripts : (InQueue(t)' <=> InQueue(t)) /\ ~InDrain(t)'
    BY <1>1, <1>2, <1>4, <1>5 DEF InQueue, InDrain
  <2> QED BY <1>0, <1>3, <2>1 DEF Stopping
<1> QED BY <1>7, <1>8, <1>9, <1>10, <1>11, <1>12 DEF QInv

\* A completed node is parked, and freed if its waiter has left; or the drain's last
\* look frees one.
LEMMA ParkKeeps ==
    ASSUME QInv, Stopping, ~DoubleDelete, DrainPark \/ LastErase
    PROVE  QInv' /\ Stopping'
<1>0. /\ drain.pc \in {"park", "erase"} /\ drain.node \in Nodes
      /\ drain \in [pc : DrainPc, node : Nodes \cup {NoNode}, left : 0..Budget]
      /\ node \in [Nodes -> Node] /\ retired \subseteq Nodes
      /\ UNCHANGED <<queue, shutdown, call, stop, late>>
  BY DEF QInv, QueueTypeOK, Pointers, DrainPark, LastErase
<1>1. /\ drain' \in [pc : DrainPc, node : Nodes \cup {NoNode}, left : 0..Budget]
      /\ drain'.pc \in {"pop", "last"}
  <2>1. CASE DrainPark
    <3>1. drain.left - 1 \in 0..Budget /\ "pop" \in DrainPc
      BY <1>0, <2>1, ScriptQueueAssumption DEF QInv, Pointers, DrainPark, DrainPc
    <3> QED BY <2>1, <3>1 DEF DrainPark
  <2>2. CASE LastErase
    BY <1>0, <2>2 DEF LastErase, DrainPc
  <2> QED BY <2>1, <2>2
<1> DEFINE R == IF drain.pc = "park" THEN retired \cup {drain.node} ELSE retired
<1>2. /\ node' \in [Nodes -> Node] /\ retired' \subseteq R /\ R \subseteq Nodes
      /\ \A a \in R \ retired' : node'[a] = Unallocated
      /\ \A a \in Nodes \ (R \ retired') : node'[a] = node[a]
  <2>1. CASE DrainPark
    <3>1. Reclaim(node, R) /\ R \in SUBSET Nodes
      BY <1>0, <2>1 DEF DrainPark
    <3> HIDE DEF R
    <3> QED BY <1>0, <3>1, Reclaims
  <2>2. CASE LastErase
    <3>1. /\ R = retired /\ drain.node \in retired /\ retired' = retired \ {drain.node}
          /\ node' = [node EXCEPT ![drain.node] = Unallocated] /\ Unallocated \in Node
      BY <2>2 DEF LastErase, DoubleDelete, Node
    <3> QED BY <1>0, <3>1
  <2> QED BY <2>1, <2>2
<1>3. R = retired \cup Held
  BY <1>0 DEF Held
<1> HIDE DEF R
<1>4. Listed' = Listed /\ Held' = {}
  BY <1>0, <1>1 DEF Listed, Held
<1>5. \A b \in Listed : b \in Nodes /\ b \notin R /\ node'[b] = node[b] /\ node[b].owner \in Scripts
  BY <1>2, <1>3, WhereNodesAre DEF QInv, Placed
<1>6. \A b \in R : node[b].live /\ node[b].done
  BY <1>0, <1>3, WhereNodesAre DEF QInv, Stages, Held
<1>7. QueueTypeOK'
  BY <1>0, <1>1, <1>2 DEF QInv, QueueTypeOK
<1>8. Pointers'
  BY <1>0, <1>1 DEF QInv, Pointers
<1>9. Placed'
  <2>1. ~Unallocated.live
    BY DEF Unallocated
  <2>2. Listed \cup retired' = {a \in Nodes : node'[a].live}
    BY <1>2, <1>3, <1>5, <1>6, <2>1 DEF QInv, Placed
  <2> QED BY <1>0, <1>2, <1>4, <1>5, <2>2 DEF QInv, Placed
<1>10. Stages'
  <2>1. \A b \in retired' : node'[b].done
    BY <1>2, <1>6
  <2> QED BY <1>0, <1>1, <1>4, <1>5, <2>1 DEF QInv, Stages, OfCall
<1>11. Results'
  <2>1. ASSUME NEW t \in Scripts, call[t].pc = "wait", Mine(t)'
        PROVE  /\ ~node'[call[t].node].abandoned
               /\ node'[call[t].node].done /\ ~call[t].dropped => call[t].ran
    <3>1. call[t].node \in Nodes
      BY <2>1 DEF QInv, Pointers
    <3>2. node'[call[t].node] = node[call[t].node]
      BY <1>0, <1>2, <2>1, <3>1 DEF Mine, Unallocated
    <3> QED BY <1>0, <2>1, <3>1, <3>2 DEF QInv, Results, Mine
  <2> QED BY <1>0, <1>1, <2>1 DEF QInv, Results, OkMeansRan
<1>12. Stopping'
  <2>1. \A t \in Scripts : (InQueue(t)' <=> InQueue(t)) /\ ~InDrain(t)'
    BY <1>1, <1>4, <1>5 DEF InQueue, InDrain
  <2> QED BY <1>0, <2>1 DEF Stopping
<1> QED BY <1>7, <1>8, <1>9, <1>10, <1>11, <1>12 DEF QInv

\* Every node of the queue is refused.
LEMMA ShutdownKeeps ==
    ASSUME QInv, Stopping, Shutdown
    PROVE  QInv' /\ Stopping'
<1>0. /\ queue' = <<>> /\ shutdown' = TRUE /\ UNCHANGED <<stop, drain, late>>
      /\ queue \in Seq(Nodes) /\ node \in [Nodes -> Node] /\ call \in [Scripts -> Call]
      /\ retired \subseteq Nodes
  BY DEF QInv, QueueTypeOK, Shutdown
<1>1. ToSet(queue) = Listed
  BY <1>0 DEF ToSet, Listed
<1>2. /\ Listed \subseteq Nodes /\ Held \subseteq Nodes
      /\ \A b \in Listed \cup retired \cup Held : node[b].live
      /\ \A b \in Nodes : node[b].live => node[b].owner \in Scripts
  BY WhereNodesAre
<1> DEFINE D == Done(node, Listed)
           R == retired \cup Listed
<1>3. /\ D \in [Nodes -> Node]
      /\ \A b \in Nodes \ Listed : D[b] = node[b]
      /\ \A b \in Listed : LET k == D[b] IN /\ k.live /\ k.owner = node[b].owner /\ k.no = node[b].no
                                            /\ k.done /\ k.abandoned = node[b].abandoned
  BY <1>0, <1>2, DoneAre
<1>4. Reclaim(D, R) /\ R \in SUBSET Nodes
  BY <1>0, <1>1, <1>2 DEF Shutdown
<1> HIDE DEF D, R
<1>5. /\ node' \in [Nodes -> Node] /\ retired' \subseteq R
      /\ \A a \in R \ retired' : node'[a] = Unallocated
      /\ \A a \in Nodes \ (R \ retired') : node'[a] = D[a]
  BY <1>3, <1>4, Reclaims
<1>6. /\ call' \in [Scripts -> Call]
      /\ \A t \in Scripts : /\ call'[t].pc = call[t].pc /\ call'[t].node = call[t].node
                            /\ call'[t].no = call[t].no /\ call'[t].ran = call[t].ran
                            /\ call[t].dropped \/ InQueue(t) => call'[t].dropped
  <2>1. \A t \in Scripts : call'[t] = IF InQueue(t) THEN [call[t] EXCEPT !.dropped = TRUE] ELSE call[t]
    BY <1>1 DEF Shutdown, Refused, InQueue
  <2>2. \A t \in Scripts :
           /\ call[t] \in Call /\ [call[t] EXCEPT !.dropped = TRUE] \in Call
           /\ LET k == [call[t] EXCEPT !.dropped = TRUE]
              IN /\ k.pc = call[t].pc /\ k.node = call[t].node /\ k.no = call[t].no
                 /\ k.ran = call[t].ran /\ k.dropped
    BY <1>0 DEF Call
  <2>3. call' \in [Scripts -> Call]
    <3>1. \A t \in Scripts : call'[t] \in Call
      BY <2>1, <2>2
    <3> QED BY <1>1, <3>1 DEF Shutdown, Refused
  <2> QED BY <2>1, <2>2, <2>3
<1>7. Listed' = {} /\ Held' = Held
  <2>1. Len(<<>>) = 0 /\ 1..0 = {}
    OBVIOUS
  <2> QED BY <1>0, <2>1 DEF Listed, Held
<1>8. \A b \in Held : b \in Nodes /\ b \notin R /\ node'[b] = node[b]
                      /\ node[b].owner \in Scripts
  BY <1>2, <1>3, <1>5 DEF QInv, Placed, R
<1>9. \A b \in R : D[b].live /\ D[b].done
  BY <1>0, <1>2, <1>3 DEF QInv, Stages, Placed, R
<1>10. QueueTypeOK'
  BY <1>0, <1>4, <1>5, <1>6 DEF QInv, QueueTypeOK
<1>11. Pointers'
  BY <1>0, <1>6 DEF QInv, Pointers
<1>12. Placed'
  <2>1. ~Unallocated.live
    BY DEF Unallocated
  <2>2. \A b \in Nodes : D[b].live <=> node[b].live
    BY <1>2, <1>3
  <2>3. retired' \cup Held = {a \in Nodes : node'[a].live}
    BY <1>2, <1>3, <1>4, <1>5, <1>8, <1>9, <2>1, <2>2 DEF QInv, Placed, R
  <2>4. \A i, j \in 1..Len(queue') : queue'[i] = queue'[j] => i = j
    BY <1>0
  <2> QED BY <1>5, <1>7, <1>8, <2>3, <2>4 DEF Placed
<1>13. Stages'
  <2>1. \A b \in retired' : node'[b].done
    BY <1>4, <1>5, <1>9
  <2>2. drain.pc \in {"exec", "complete"} =>
          /\ ~node'[drain.node].done
          /\ ~node'[drain.node].abandoned =>
                OfCall(drain.node)' /\ call'[node'[drain.node].owner].pc = "wait"
    BY <1>0, <1>6, <1>8 DEF QInv, Stages, OfCall, Held
  <2>3. drain.pc = "park" => node'[drain.node].done
    BY <1>8 DEF QInv, Stages, Held
  <2> QED BY <1>0, <1>7, <2>1, <2>2, <2>3 DEF Stages
<1>14. Results'
  <2>1. OkMeansRan' /\ \A t \in Scripts : call'[t].pc = "scan" => call'[t].dropped
    BY <1>6 DEF QInv, Results, OkMeansRan
  <2>2. ASSUME NEW t \in Scripts, call'[t].pc = "wait", Mine(t)'
        PROVE  /\ ~node'[call'[t].node].abandoned
               /\ node'[call'[t].node].done /\ ~call'[t].dropped => call'[t].ran
    <3>1. /\ call[t].pc = "wait" /\ call'[t].node = call[t].node /\ call[t].node \in Nodes
          /\ call'[t].no = call[t].no /\ call'[t].ran = call[t].ran
      BY <1>6, <2>2 DEF QInv, Pointers
    <3>2. node'[call[t].node] = D[call[t].node]
      BY <1>5, <2>2, <3>1 DEF Mine, Unallocated
    <3>3. Mine(t) /\ D[call[t].node].abandoned = node[call[t].node].abandoned
      BY <1>2, <1>3, <2>2, <3>1, <3>2 DEF Mine
    <3>4. CASE call[t].node \in Listed
      <4>1. call'[t].dropped
        BY <1>6, <3>3, <3>4 DEF Mine, InQueue
      <4> QED BY <3>1, <3>2, <3>3, <4>1 DEF QInv, Results
    <3>5. CASE call[t].node \notin Listed
      <4>1. D[call[t].node] = node[call[t].node]
        BY <1>3, <3>1, <3>5
      <4>2. ~call'[t].dropped => ~call[t].dropped
        BY <1>6
      <4> QED BY <3>1, <3>2, <3>3, <4>1, <4>2 DEF QInv, Results
    <3> QED BY <3>4, <3>5
  <2>3. drain.pc = "complete" /\ ~node'[drain.node].abandoned =>
          call'[node'[drain.node].owner].ran
    BY <1>6, <1>8 DEF QInv, Results, Held
  <2> QED BY <1>0, <2>1, <2>2, <2>3 DEF Results
<1>15. Stopping'
  <2>1. \A t \in Scripts : ~InQueue(t)' /\ (InDrain(t)' <=> InDrain(t))
    BY <1>0, <1>7, <1>8 DEF InQueue, InDrain, Held
  <2> QED BY <1>0, <1>6, <2>1 DEF Stopping
<1> QED BY <1>10, <1>11, <1>12, <1>13, <1>14, <1>15 DEF QInv

-----------------------------------------------------------------------------
(***************************************************************************)
(* The queue under the manager                                             *)
(***************************************************************************)

\* The nodes and the records stay.
LEMMA QueueStays ==
    ASSUME QInv, UNCHANGED <<queue, retired, shutdown, node, call, drain>>,
           stop' \in [Scripts -> BOOLEAN], late' \in [Scripts -> 0..MaxCalls]
    PROVE  QInv' /\ \A s \in Scripts : (InQueue(s)' <=> InQueue(s)) /\ (InDrain(s)' <=> InDrain(s))
<1>1. Listed' = Listed /\ Held' = Held
  BY DEF Listed, Held
<1>2. QueueTypeOK' /\ Pointers' /\ Placed'
  BY <1>1 DEF QInv, QueueTypeOK, Pointers, Placed
<1>3. Stages' /\ Results'
  BY <1>1 DEF QInv, Stages, Results, OfCall, OkMeansRan, Mine
<1>4. \A s \in Scripts : (InQueue(s)' <=> InQueue(s)) /\ (InDrain(s)' <=> InDrain(s))
  BY <1>1 DEF InQueue, InDrain
<1> QED BY <1>2, <1>3, <1>4 DEF QInv

\* A script is told to stop by a main thread that is not in the drain: of its commands
\* at most the one in the queue is under way.
LEMMA TerminateStops ==
    ASSUME HInv, QInv, SInv, Terminate
    PROVE  QInv' /\ SInv'
<1>1. /\ UNCHANGED <<queue, retired, shutdown, node, call, drain, late>>
      /\ main.pc = "end" /\ main'.pc \in {"end", "poke"}
  BY DEF Terminate, HInv, HandleTypes
<1>2. PICK s \in Scripts : stop' = [stop EXCEPT ![s] = TRUE]
  BY DEF Terminate, HInv, HandleTypes
<1>3. /\ stop' \in [Scripts -> BOOLEAN] /\ late' \in [Scripts -> 0..MaxCalls]
      /\ \A t \in Scripts \ {s} : stop'[t] = stop[t]
      /\ stop'[s]
  BY <1>1, <1>2 DEF QInv, QueueTypeOK
<1>4. QInv' /\ \A t \in Scripts : (InQueue(t)' <=> InQueue(t)) /\ (InDrain(t)' <=> InDrain(t))
  BY <1>1, <1>3, QueueStays
<1>5. drain.pc # "exec" /\ DrainWaits'
  BY <1>1 DEF SInv, DrainWaits
<1>6. \A t \in Scripts : ~InDrain(t)
  BY <1>5 DEF InDrain
<1>7. \A t \in Scripts : ~stop'[t] => ~stop[t]
  BY <1>3
<1>8. Stopping'
  BY <1>1, <1>4, <1>6, <1>7 DEF SInv, Stopping
<1> QED BY <1>4, <1>5, <1>8 DEF SInv

\* A new run of a script begins with a clean record.
LEMMA PlayStops ==
    ASSUME HInv, QInv, SInv, Play
    PROVE  QInv' /\ SInv'
<1>1. /\ UNCHANGED <<queue, retired, shutdown, node, call, drain>> /\ main.pc = "play"
  BY DEF Play
<1>2. \/ UNCHANGED <<stop, late>>
      \/ /\ stop' = [stop EXCEPT ![main.one] = FALSE]
         /\ late' = [late EXCEPT ![main.one] = 0]
  BY DEF Play
<1>3. 0 \in 0..MaxCalls
  BY ScriptQueueAssumption
<1>4. /\ stop' \in [Scripts -> BOOLEAN] /\ late' \in [Scripts -> 0..MaxCalls]
      /\ \A t \in Scripts : \/ stop'[t] = stop[t] /\ late'[t] = late[t]
                            \/ late'[t] = 0
  BY <1>2, <1>3 DEF QInv, QueueTypeOK
<1>5. QInv' /\ \A t \in Scripts : (InQueue(t)' <=> InQueue(t)) /\ (InDrain(t)' <=> InDrain(t))
  BY <1>1, <1>4, QueueStays
<1>6. drain.pc \in {"off", "complete"} /\ DrainWaits'
  BY <1>1 DEF SInv, DrainWaits
<1>7. \A t \in Scripts : ~InDrain(t)
  BY <1>6 DEF InDrain
<1>8. Stopping'
  BY <1>1, <1>4, <1>5, <1>7 DEF SInv, Stopping
<1> QED BY <1>5, <1>6, <1>8 DEF SInv

\* The manager does something of its own, away from the drain.
LEMMA ManagerKeeps ==
    ASSUME QInv, SInv, UNCHANGED queueVars, main.pc # "drain" \/ main' = main
    PROVE  QInv' /\ SInv'
<1>1. QInv' /\ \A t \in Scripts : (InQueue(t)' <=> InQueue(t)) /\ (InDrain(t)' <=> InDrain(t))
  BY QueueStays DEF queueVars, QInv, QueueTypeOK
<1>2. Stopping'
  BY <1>1 DEF SInv, Stopping, queueVars
<1>3. DrainWaits'
  BY DEF SInv, DrainWaits, queueVars
<1> QED BY <1>1, <1>2, <1>3 DEF SInv

LEMMA WorkerQueues ==
    ASSUME QInv, SInv, ~Broken, NEW s \in Scripts,
           \/ WorkerStep(s) \/ Native(s) \/ Timeout(s) \/ Fail(s) \/ Return(s) \/ TogglePause(s)
    PROVE  QInv' /\ SInv'
<1>0. Stopping /\ DrainWaits /\ ~NodeStolen
  BY DEF SInv, Broken
<1>1. CASE Native(s) \/ Timeout(s) \/ InCall(s)
  <2>1. QInv' /\ Stopping'
    BY <1>0, <1>1, BeginKeeps, PushKeeps, RefusedKeeps, LeaveKeeps, ScanKeeps
       DEF Native, Timeout, InCall
  <2>2. main' = main /\ drain' = drain
    BY <1>1 DEF Native, Timeout, InCall, runtimeVars, ExecBegin, ExecPush, ExecPushFull,
                ExecRefused, ExecDone, ExecScan, ExecRead, ExecAbandon
  <2> QED BY <1>0, <2>1, <2>2 DEF SInv, DrainWaits
<1>2. CASE ~(Native(s) \/ Timeout(s) \/ InCall(s))
  <2>1. UNCHANGED queueVars /\ main' = main
    BY <1>2 DEF WorkerStep, Begin, Setup, Clear, Settle, Exit, Fail, Return, TogglePause
  <2> QED BY <2>1, ManagerKeeps
<1> QED BY <1>1, <1>2

LEMMA QueueNext ==
    ASSUME HInv, QInv, SInv, [Next]_vars
    PROVE  QInv' /\ SInv'
<1>0. Stopping /\ DrainWaits
  BY DEF SInv
<1>1. CASE UNCHANGED vars
  BY <1>1, ManagerKeeps DEF vars, runtimeVars
<1>2. CASE ~Broken /\ Frame
  <2>1. DrainBegin /\ main'.pc = "drain"
    BY <1>2 DEF Frame, HInv, HandleTypes
  <2> QED BY <1>0, <2>1, DrainKeeps DEF SInv, DrainWaits
<1>3. CASE ~Broken /\ DrainStep
  <2>1. QInv' /\ Stopping'
    BY <1>0, <1>3, PopKeeps, DrainKeeps, CompleteKeeps, ParkKeeps DEF DrainStep, Broken
  <2>2. main.pc = "drain" /\ main' = main
    BY <1>3 DEF DrainStep, runtimeVars
  <2> QED BY <2>1, <2>2 DEF SInv, DrainWaits
<1>4. CASE ~Broken /\ Execute
  <2>1. DrainExecute /\ drain'.pc = "complete"
    BY <1>4 DEF Execute, DrainExecute, QInv, QueueTypeOK
  <2> QED BY <1>0, <2>1, ExecuteKeeps DEF SInv, DrainWaits
<1>5. CASE ~Broken /\ DrainOver
  <2>1. DrainEnd /\ drain'.pc = "off"
    BY <1>5 DEF DrainOver, DrainEnd, QInv, QueueTypeOK
  <2> QED BY <1>0, <2>1, DrainKeeps DEF SInv, DrainWaits
<1>6. CASE ~Broken /\ Leave
  <2>1. Shutdown /\ main.pc = "frame" /\ drain' = drain
    BY <1>6 DEF Leave, Shutdown
  <2> QED BY <1>0, <2>1, ShutdownKeeps DEF SInv, DrainWaits
<1>7. CASE Tick \/ Poke \/ Join \/ EndDone \/ StopAllAgain \/ UserAsks \/ Enter
  <2>1. UNCHANGED queueVars /\ main.pc # "drain"
    BY <1>7 DEF Tick, Poke, Join, EndDone, StopAllAgain, UserAsks, Enter
  <2> QED BY <2>1, ManagerKeeps
<1> QED BY <1>1, <1>2, <1>3, <1>4, <1>5, <1>6, <1>7, TerminateStops, PlayStops, WorkerQueues
        DEF Next, MainStep

\* The inductive invariant of the queue, and of the scripts that are told to stop: what
\* a pointer is followed to is there, each node is in one place, and each result is real.
THEOREM QueueInvariance == Spec => [](QInv /\ SInv)
<1>1. Init => QInv /\ SInv
  BY QueueBegins
<1>2. HInv /\ (QInv /\ SInv) /\ [Next]_vars => (QInv /\ SInv)'
  BY QueueNext
<1> QED BY <1>1, <1>2, HandleInvariance, PTL DEF Spec

\* Whatever is abandoned, dropped, scanned or refused, every node is in one place, and
\* a worker that waits on a node which is not done has it where the drain will get to it.
THEOREM NodesAreAccounted == Spec => []NodesAccounted
<1>1. QInv => NodesAccounted
  <2> SUFFICES ASSUME QInv, ~Broken PROVE
        LET held == IF drain.pc \in {"exec", "complete", "park"} THEN {drain.node} ELSE {}
            listed == {queue[i] : i \in 1..Len(queue)}
        IN /\ Cardinality(listed) = Len(queue)
           /\ listed \cap retired = {} /\ held \cap (listed \cup retired) = {}
           /\ listed \cup retired \cup held = {a \in Nodes : node[a].live}
           /\ \A s \in Scripts : call[s].pc = "wait" /\ ~node[call[s].node].done =>
                 call[s].node \in listed \cup held
    BY DEF NodesAccounted
  <2>1. Cardinality(Listed) = Len(queue)
    <3>1. queue \in [1..Len(queue) -> Listed] /\ Len(queue) \in Nat
      BY DEF QInv, QueueTypeOK, Listed
    <3>2. queue \in Bijection(1..Len(queue), Listed)
      BY <3>1 DEF QInv, Placed, Listed, Bijection, Injection, Surjection, IsInjective
    <3>3. ExistsBijection(1..Len(queue), Listed)
      BY <3>2 DEF ExistsBijection
    <3>4. IsFiniteSet(1..Len(queue)) /\ Cardinality(1..Len(queue)) = Len(queue)
      <4> DEFINE n == Len(queue)
      <4>1. n \in Nat /\ n \in Int /\ 1 \in Int
        BY <3>1
      <4> HIDE DEF n
      <4>2. IsFiniteSet(1..n) /\ Cardinality(1..n) = IF 1 > n THEN 0 ELSE n - 1 + 1
        BY <4>1, FS_Interval
      <4>3. (IF 1 > n THEN 0 ELSE n - 1 + 1) = n
        BY <4>1
      <4> QED BY <4>2, <4>3 DEF n
    <3> QED BY <3>3, <3>4, FS_Bijection
  <2>2. ASSUME NEW s \in Scripts, call[s].pc = "wait", ~node[call[s].node].done
        PROVE  call[s].node \in Listed \cup Held
    BY <2>2, OwnNode, WhereNodesAre DEF Broken
  <2> QED BY <2>1, <2>2 DEF QInv, Placed, Listed, Held
<1> QED BY <1>1, QueueInvariance, PTL

\* Neither a drop, a refusal nor the completion of an earlier call passes for the result
\* of a call.
THEOREM ResultsAreReal == Spec => []OkMeansRan
<1>1. QInv => OkMeansRan
  BY DEF QInv, Results
<1> QED BY <1>1, QueueInvariance, PTL

\* A script that was told to stop changes the game by at most one more command.
THEOREM StoppedIsStopped == Spec => []StopHolds
<1>1. SInv => StopHolds
  BY DEF SInv, Stopping, StopHolds
<1> QED BY <1>1, QueueInvariance, PTL

\* The records, nodes, handles, threads and the main thread keep their types, whatever
\* was deleted under a waiter.
THEOREM ScriptTypes == Spec => []TypeOK
<1> DEFINE Rest == paused \in [Scripts -> BOOLEAN] /\ elapsed \in BOOLEAN /\ ops \in 0..MaxOps
<1>1. Init => Rest
  <2>1. MaxOps \in 0..MaxOps
    BY ScriptRuntimeAssumption
  <2> QED BY <2>1 DEF Init
<1>2. HInv /\ Rest /\ [Next]_vars => Rest'
  <2> SUFFICES ASSUME HInv, Rest, [Next]_vars PROVE Rest'
    OBVIOUS
  <2>1. ASSUME paused' = paused \/ \E s \in Scripts, b \in BOOLEAN : paused' = [paused EXCEPT ![s] = b],
               elapsed' \in {elapsed, TRUE, FALSE},
               ops' = ops \/ (ops > 0 /\ ops' = ops - 1)
        PROVE  Rest'
    <3>1. paused' \in [Scripts -> BOOLEAN]
      BY <2>1
    <3>2. ops' \in 0..MaxOps
      BY <2>1, ScriptRuntimeAssumption
    <3> QED BY <2>1, <3>1, <3>2
  <2>2. CASE UNCHANGED vars
    BY <2>1, <2>2 DEF vars, runtimeVars
  <2>3. ASSUME NEW s \in Scripts,
               WorkerStep(s) \/ Native(s) \/ Timeout(s) \/ Fail(s) \/ Return(s)
        PROVE  Rest'
    BY <2>1, <2>3 DEF WorkerStep, Begin, Setup, Clear, Settle, Exit, InCall, Native, Timeout,
                      Fail, Return, runtimeVars
  <2>4. ASSUME NEW s \in Scripts, TogglePause(s) PROVE Rest'
    <3>1. (~handle[s].paused) \in BOOLEAN
      OBVIOUS
    <3>2. /\ paused' = paused \/ paused' = [paused EXCEPT ![s] = ~handle[s].paused]
          /\ elapsed' = elapsed /\ ops > 0 /\ ops' = ops - 1
      BY <2>4 DEF TogglePause
    <3> QED BY <2>1, <3>1, <3>2
  <2>5. CASE Poke
    <3>1. CASE main.one \in Scripts
      BY <2>1, <2>5, <3>1 DEF Poke
    <3>2. CASE main.one \notin Scripts
      <4>1. paused' = paused
        BY <2>5, <3>2 DEF Poke
      <4> QED BY <2>1, <2>5, <4>1 DEF Poke
    <3> QED BY <3>1, <3>2
  <2>6. CASE Frame \/ DrainStep \/ Execute \/ DrainOver \/ Tick
    BY <2>1, <2>6 DEF Frame, DrainStep, Execute, DrainOver, Tick, Ask, Delete, End, runtimeVars
  <2>7. CASE Play \/ Terminate \/ Join \/ EndDone \/ StopAllAgain \/ UserAsks \/ Leave \/ Enter
    BY <2>1, <2>7 DEF Play, Terminate, Join, EndDone, StopAllAgain, UserAsks, Leave, Enter,
                      Ask, Delete, End
  <2> QED BY <2>2, <2>3, <2>4, <2>5, <2>6, <2>7 DEF Next, MainStep
<1>3. HInv /\ QInv /\ Rest => TypeOK
  BY DEF HInv, HandleTypes, QInv, TypeOK
<1> QED BY <1>1, <1>2, <1>3, HandleInvariance, QueueInvariance, PTL DEF Spec
=============================================================================
