------------------------------ MODULE TrapMapping ------------------------------
(***************************************************************************)
(* The life of a mapping (xuocore/vfs_trap.cpp): the resolutions of Trap   *)
(* pin it, and it is unmapped, or forgotten by a shutdown, while some may  *)
(* be in flight.  Both wait for the pins, not for ever: what is pinned at  *)
(* the deadline stays mapped as a zombie.                                  *)
(*                                                                         *)
(* One thread unmaps and shuts down.  vfs_trap_map is Trap's Init: nobody  *)
(* knows the address before it returns.                                    *)
(***************************************************************************)
EXTENDS Trap

CONSTANT Quiet      \* no fault waits for the lock in the grace of an unmap

ASSUME MappingAssumption == Quiet \in BOOLEAN

VARIABLES
    mapping,    \* the mapping: registered, or not any more
    held,       \* whether the game still has its address
    leaving,    \* where vfs_trap_unmap or vfs_trap_shutdown is
    installed   \* s_handler_installed

mapVars == <<mapping, held, leaving, installed>>
trapVars == vars
allVars == <<trapVars, mapVars>>

MappingTypeOK ==
    /\ TypeOK
    /\ mapping \in {"mapped", "zombie", "forgotten", "unmapped"}
    /\ leaving \in {"no", "unmap", "settle", "shutdown"}
    /\ held \in BOOLEAN /\ installed \in BOOLEAN

MappingInit ==
    /\ Init
    /\ mapping = "mapped" /\ held = TRUE /\ leaving = "no" /\ installed = TRUE

\* trap_find finds it.
Registered == mapping \in {"mapped", "zombie"}

\* resolving: the resolutions that hold a pin.
Pinned == {t \in Threads : pc[t] \notin {"idle", "fault", "chained"}}

-----------------------------------------------------------------------------
(***************************************************************************)
(* The threads                                                             *)
(***************************************************************************)

\* A resolution starts: trap_find and trap_pin in one section of the lock.
Starts(t) ==
    /\ Registered /\ (Quiet => leaving # "settle")
    /\ Handle(t) \/ (held /\ Resolve(t))
    /\ UNCHANGED mapVars

\* The game begins no read of what it unmaps.
Access(t) == held /\ Touch(t) /\ UNCHANGED mapVars

\* The fault is not the trap's: no such mapping, or no handler any more.  (A
\* thread that was in the handler when it was removed may go on.)
Foreign(t) ==
    /\ At(t, "fault")
    /\ \/ ~installed
       \/ ~Registered /\ ~Locked(Threads)
    /\ Goto(t, "chained")
    /\ UNCHANGED <<blocks, cover, epoch, disk, call, mapVars>>

Resolution(t) == ~At(t, "fault") /\ Thread(t) /\ UNCHANGED mapVars

-----------------------------------------------------------------------------
(***************************************************************************)
(* vfs_trap_unmap and vfs_trap_shutdown                                    *)
(***************************************************************************)

\* (mutation: the pins are not looked at)
UnpinnedAlways == TRUE
Unpinned == Pinned = {}

\* A mapping that is not registered is the caller's to unmap; a zombie stays.
Unmap ==
    /\ leaving = "no" /\ held /\ held' = FALSE
    /\ mapping' = IF mapping = "forgotten" \/ (mapping = "mapped" /\ Unpinned)
                  THEN "unmapped" ELSE mapping
    /\ leaving' = IF mapping = "mapped" /\ ~Unpinned THEN "unmap" ELSE "no"
    /\ UNCHANGED <<trapVars, installed>>

\* The last pin is gone: the thread that held it gets a grace to run its
\* instruction again (taken to be long enough), without the lock.
UnmapGrace ==
    /\ leaving = "unmap" /\ Unpinned
    /\ leaving' = "settle"
    /\ UNCHANGED <<trapVars, mapping, held, installed>>

\* The deadline.
UnmapZombie ==
    /\ leaving = "unmap" /\ ~Unpinned
    /\ mapping' = "zombie" /\ leaving' = "no"
    /\ UNCHANGED <<trapVars, held, installed>>

\* After the grace the pins are not looked at again.
UnmapFree ==
    /\ leaving = "settle"
    /\ mapping' = "unmapped" /\ leaving' = "no"
    /\ UNCHANGED <<trapVars, held, installed>>

\* The handler is removed first.
ShutdownBegin ==
    /\ leaving = "no" /\ installed
    /\ installed' = FALSE /\ leaving' = "shutdown"
    /\ UNCHANGED <<trapVars, mapping, held>>

\* No pins any more, or the deadline: an idle mapping is forgotten, even when an
\* unmap had made it a zombie, and a pinned one is a zombie.
ShutdownEnd ==
    /\ leaving = "shutdown" /\ leaving' = "no"
    /\ mapping' = IF ~Registered THEN mapping
                  ELSE IF Unpinned THEN "forgotten" ELSE "zombie"
    /\ UNCHANGED <<trapVars, held, installed>>

Step(t) == Starts(t) \/ Foreign(t) \/ Resolution(t)
Leave ==
    /\ ~Locked(Threads)
    /\ \/ Unmap \/ UnmapGrace \/ UnmapZombie \/ UnmapFree
       \/ ShutdownBegin \/ ShutdownEnd

MappingNext ==
    \/ \E t \in Threads : Access(t) \/ Step(t)
    \/ \E b \in Listed : SweepBlock(b) /\ UNCHANGED mapVars
    \/ SweepEntry /\ UNCHANGED mapVars
    \/ Leave

MappingSpec == MappingInit /\ [][MappingNext]_allVars

\* As in Trap, and the waits of an unmap are bounded.  An ensure is no promise.
FairMappingSpec ==
    /\ MappingSpec
    /\ WF_allVars(SweepEntry /\ UNCHANGED mapVars)
    /\ WF_allVars(/\ ~Locked(Threads)
                  /\ UnmapGrace \/ UnmapZombie \/ UnmapFree \/ ShutdownEnd)
    /\ \A t \in Threads :
         WF_allVars(Foreign(t) \/ Resolution(t) \/ (At(t, "fault") /\ Starts(t)))

-----------------------------------------------------------------------------
(***************************************************************************)
(* Properties                                                              *)
(***************************************************************************)

\* "A resolver can never run against a freed mapping" (vfs_trap.cpp:381-383):
\* neither the object nor the pages go while a resolution is pinned, whichever
\* of unmap, shutdown, their deadlines and a late fault comes first.  (Violated
\* without Quiet: a thread whose fault was waiting for the lock pins the mapping
\* in the grace, and it is freed all the same.)
PinsHold == mapping \in {"forgotten", "unmapped"} => Pinned = {}
=============================================================================
