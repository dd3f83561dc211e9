-------------------------------- MODULE Walker --------------------------------
(***************************************************************************)
(* The step protocol between the client and the game server                *)
(* (src/Walker/Walker.cpp, CPathFinder::Walk, the animation of the         *)
(* player's steps and the packet handlers that answer them).               *)
(*                                                                         *)
(* The client walks ahead of the server: it sends a request per step, with *)
(* a sequence number, and animates the step before the answer is there.    *)
(* A window of steps waits for confirmation, a queue of steps waits for    *)
(* the animation; a denial or an update of the player throws both away, a  *)
(* confirmation that fits no step makes the client ask for an update.      *)
(*                                                                         *)
(* The server is not part of the repository.  It is modelled as the client *)
(* takes it to be: it answers in the order of the requests, it may deny    *)
(* any step, and after a denial or an update it waits for sequence 0.      *)
(***************************************************************************)
EXTENDS Integers, Sequences, SequencesExt

CONSTANTS
    MaxSteps,       \* MAX_STEPS_COUNT
    MaxSequence,    \* the last sequence number (0xFF)
    NumCells,       \* bound: the world is a ring of cells
    MaxRequests,    \* bound: steps the player asks for
    MaxOthers       \* bound: teleports and updates that a user asks for

ASSUME WalkerAssumption ==
    /\ MaxSteps \in Nat \ {0} /\ NumCells \in Nat \ {0}
    /\ MaxSequence \in Nat /\ MaxSequence >= MaxSteps
    /\ MaxRequests \in Nat /\ MaxOthers \in Nat

VARIABLES
    slot,       \* m_Step: the window, an array that is never cleared
    count,      \* StepsCount
    current,    \* CurrentWalkSequence: the first slot not animated yet
    sequence,   \* WalkSequence
    failed,     \* WalkingFailed
    resent,     \* ResendPacketSended
    steps,      \* g_Player->m_Steps: the cells of the steps to animate
    pos,        \* the player's cell
    toServer,   \* the packets on their way to the server
    toClient,   \* and back
    server,     \* the server's cell of the player and its sequence number
    crossed,    \* (history) a request 0 that was thrown away is still answered
    left        \* (bound) requests and others left

client == <<slot, count, current, sequence, failed, resent, steps, pos>>
vars == <<client, toServer, toClient, server, crossed, left>>

Cells == 0..NumCells - 1
Sequences == 0..MaxSequence
Slots == 0..MaxSteps - 1
Slot == [seq : Sequences, to : Cells, accepted : BOOLEAN]

\* A step turns on its cell or goes to the next one.
Walking(seq, d) == [kind |-> "walk", seq |-> seq, by |-> d]
Request == [kind : {"walk"}, seq : Sequences, by : {0, 1}] \cup [kind : {"resend"}]
Answer == [kind : {"confirm"}, seq : Sequences] \cup [kind : {"deny", "update"}, at : Cells]

TypeOK ==
    /\ slot \in [Slots -> Slot] /\ count \in -MaxSteps..MaxSteps
    /\ current \in 0..MaxSteps /\ sequence \in Sequences
    /\ failed \in BOOLEAN /\ resent \in BOOLEAN
    /\ steps \in Seq(Cells) /\ Len(steps) <= MaxSteps /\ pos \in Cells
    /\ toServer \in Seq(Request) /\ toClient \in Seq(Answer)
    /\ server \in [at : Cells, seq : Sequences] /\ crossed \in BOOLEAN
    /\ left \in [requests : 0..MaxRequests, others : 0..MaxOthers]

Init ==
    /\ slot = [i \in Slots |-> [seq |-> 0, to |-> 0, accepted |-> FALSE]]
    /\ count = 0 /\ current = 0 /\ sequence = 0 /\ failed = FALSE /\ resent = FALSE
    /\ steps = <<>> /\ pos = 0 /\ toServer = <<>> /\ toClient = <<>>
    /\ server = [at |-> 0, seq |-> 0] /\ crossed = FALSE
    /\ left = [requests |-> MaxRequests, others |-> MaxOthers]

\* 0 is used only for the first step after a reset.
\* (mutation: the last number is not the last)
NextBeyond(s) == s + 1
NextSequence(s) == IF s = MaxSequence THEN 1 ELSE s + 1
Beyond(cell, d) == (cell + d) % NumCells

\* The window w from its slot i on moves down by one; n slots are in use.
Shifted(w, i, n) == [j \in Slots |-> IF j >= i /\ j < n - 1 THEN w[j + 1] ELSE w[j]]

-----------------------------------------------------------------------------
(***************************************************************************)
(* The client                                                              *)
(***************************************************************************)

\* CPathFinder::Walk.  The throttle by time is left out: it may pass any time.
Walk ==
    /\ ~failed /\ count < MaxSteps /\ left.requests > 0
    /\ \E d \in {0, 1} :
         LET to == Beyond(IF steps = <<>> THEN pos ELSE Last(steps), d)
         IN /\ slot' = [slot EXCEPT ![count] = [seq |-> sequence, to |-> to, accepted |-> FALSE]]
            /\ steps' = Append(steps, to)
            /\ toServer' = Append(toServer, Walking(sequence, d))
    /\ count' = count + 1 /\ sequence' = NextSequence(sequence)
    /\ left' = [left EXCEPT !.requests = @ - 1]
    /\ UNCHANGED <<current, failed, resent, pos, toClient, server, crossed>>

\* An accepted step leaves the window, which moves down to where current is.
Leaves == count' = count - 1 /\ UNCHANGED current

(***************************************************************************)
(* UpdateAnimationInfo_ProcessSteps finishes a step of the player.  An     *)
(* accepted step leaves the window; any other one stays in it, below       *)
(* current, until its answer comes.                                        *)
(***************************************************************************)
Animate ==
    /\ steps # <<>>
    /\ IF slot[current].accepted
       THEN slot' = Shifted(slot, current, count) /\ Leaves
       ELSE /\ current' = current + 1 /\ UNCHANGED <<slot, count>>
    /\ pos' = Head(steps) /\ steps' = Tail(steps)
    /\ UNCHANGED <<sequence, failed, resent, toServer, toClient, server, crossed, left>>

\* CWalker::Reset, with what DenyWalk clears before it.
\* (mutation: the steps to animate stay)
ResetWindow ==
    /\ count' = 0 /\ current' = 0 /\ sequence' = 0
    /\ failed' = FALSE /\ resent' = FALSE /\ UNCHANGED steps
Reset ==
    /\ count' = 0 /\ current' = 0 /\ sequence' = 0
    /\ failed' = FALSE /\ resent' = FALSE /\ steps' = <<>>

\* The first slot in use that holds seq, or the number of slots in use.  (A
\* count below zero, which a failed walk can have, finds slot 0.)
Index(seq) ==
    LET found == {i \in 0..count - 1 : slot[i].seq = seq}
    IN IF found # {} THEN Min(found) ELSE IF count < 0 THEN 0 ELSE count

\* The confirmed step has been animated already: it is the first.
\* (mutation: only the window moves)
TakenOnly == count' = count - 1 /\ UNCHANGED current
Taken == count' = count - 1 /\ current' = current - 1

\* A resend is asked for once.
\* (mutation: the walk fails, and waits for an update that comes by itself)
AskNever == UNCHANGED toServer
Ask == toServer' = IF resent THEN toServer ELSE Append(toServer, [kind |-> "resend"])

\* CWalker::ConfirmWalk
ConfirmWalk(seq) ==
    LET i == Index(seq)
    IN \/ /\ i # count /\ i >= current
          /\ slot' = [slot EXCEPT ![i].accepted = TRUE]
          /\ UNCHANGED <<count, current, failed, resent, toServer>>
       \/ /\ i # count /\ i < current /\ i = 0
          /\ slot' = Shifted(slot, 0, count)
          /\ Taken
          /\ UNCHANGED <<failed, resent, toServer>>
       \/ /\ i = count \/ (i < current /\ i # 0)
          /\ Ask /\ resent' = TRUE /\ failed' = TRUE
          /\ count' = 0 /\ current' = 0
          /\ UNCHANGED slot

\* An answer that throws the window away leaves a request 0 under way.
Zero(q) == \E i \in 1..Len(q) : q[i].kind \in {"walk", "confirm"} /\ q[i].seq = 0

\* DenyWalk, and CGameWorld::UpdatePlayer, which resets the same way.
Placed(cell) ==
    /\ Reset /\ pos' = cell /\ UNCHANGED <<slot, toServer>>
    /\ crossed' = (Zero(toServer) \/ Zero(Tail(toClient)))

\* The packet handlers.
Receive ==
    /\ toClient # <<>> /\ toClient' = Tail(toClient)
    /\ LET a == Head(toClient)
       IN \/ /\ a.kind = "confirm" /\ ConfirmWalk(a.seq)
             /\ UNCHANGED <<sequence, steps, pos, crossed>>
          \/ a.kind \in {"deny", "update"} /\ Placed(a.at)
    /\ UNCHANGED <<server, left>>

\* The assistant's resend command.
Resend ==
    /\ left.others > 0 /\ left' = [left EXCEPT !.others = @ - 1]
    /\ toServer' = Append(toServer, [kind |-> "resend"])
    /\ UNCHANGED <<client, toClient, server, crossed>>

-----------------------------------------------------------------------------
(***************************************************************************)
(* The server                                                              *)
(***************************************************************************)

Send(kind, cell) == toClient' = Append(toClient, [kind |-> kind, at |-> cell])

Serve ==
    /\ toServer # <<>> /\ toServer' = Tail(toServer)
    /\ LET r == Head(toServer)
       IN \/ /\ r.kind = "walk" /\ (server.seq # 0 \/ r.seq = 0)
             /\ server' = [at |-> Beyond(server.at, r.by), seq |-> NextSequence(r.seq)]
             /\ toClient' = Append(toClient, [kind |-> "confirm", seq |-> r.seq])
          \/ /\ r.kind = "walk"
             /\ server' = [server EXCEPT !.seq = 0] /\ Send("deny", server.at)
          \/ /\ r.kind = "resend"
             /\ server' = [server EXCEPT !.seq = 0] /\ Send("update", server.at)
    /\ UNCHANGED <<client, crossed, left>>

Teleport ==
    /\ left.others > 0 /\ left' = [left EXCEPT !.others = @ - 1]
    /\ \E cell \in Cells :
         server' = [at |-> cell, seq |-> 0] /\ Send("update", cell)
    /\ UNCHANGED <<client, toServer, crossed>>

-----------------------------------------------------------------------------
Next == Walk \/ Animate \/ Receive \/ Resend \/ Serve \/ Teleport
Spec == Init /\ [][Next]_vars

\* Packets arrive and are handled, steps are animated; nobody has to walk.
FairSpec == Spec /\ WF_vars(Animate) /\ WF_vars(Receive) /\ WF_vars(Serve)

-----------------------------------------------------------------------------
(***************************************************************************)
(* Properties                                                              *)
(***************************************************************************)

\* The window and the queue of steps, which Walk, the animation, confirmations
\* and denials change apart, stay two views of one walk: the slots from current
\* on are the steps to animate, and what lies below current waits for its
\* answer (Walker.cpp, GameCharacter.cpp:1466-1486).  And the slot that the
\* animation reads, without a look at the size of the array, exists, also in a
\* walk that failed, where the window was emptied and the steps were not
\* (Walker.cpp:114-116).
WindowMatchesSteps ==
    /\ ~failed =>
         /\ count = current + Len(steps)
         /\ \A i \in 1..Len(steps) : slot[current + i - 1].to = steps[i]
         /\ \A i \in 0..current - 1 : ~slot[i].accepted
    /\ steps # <<>> => current \in Slots

\* When nothing is under way the player stands where the server has it,
\* whatever was denied, teleported or confirmed out of turn.  (But for one
\* case: a step 0 thrown away by the answer to an older step is taken for the
\* next step 0 when it is confirmed, and nothing notices.)
InSync ==
    toServer = <<>> /\ toClient = <<>> /\ steps = <<>> /\ ~crossed => pos = server.at

\* A walk that failed resumes: the one resend it may ask for is answered, and
\* no other reset in between loses it (ResendPacketSended, UpdatePlayer).
WalkResumes == failed ~> ~failed
=============================================================================
