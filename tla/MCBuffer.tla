------------------------------ MODULE MCBuffer ------------------------------
(***************************************************************************)
(* The BlockBufferManager under any calls, and the BufferManager in front  *)
(* of it: without failures over an epoch change, and with resets and       *)
(* failing persists.  A behaviour is one of one of the three, chosen in    *)
(* the initial state; what the buffer promises is stated of all of them.   *)
(***************************************************************************)
EXTENDS BlockBufferManager

CONSTANT MaxHeld   \* the bound of "any": at most MaxHeld blocks in the map at once

VARIABLES
  comp,   \* the component that runs
  bm, ordered, answered, acked, target

managerVars == <<bm, ordered, answered, acked, target>>

Commit == INSTANCE BufferManager WITH
    Author <- "me", Peers <- {"p", "q"}, Faulty <- {"q"}, Quorum <- 2, MaxRound <- 2,
    Reconfig <- 1, OtherIds <- {}, ConsensusAlpha <- TRUE, MaxBacklog <- 1,
    MaxPendingRounds <- 2, MaxPendingProofs <- 1, MaxCachedIds <- 1, MaxRequests <- 3,
    Faults <- {}
Sync == INSTANCE BufferManager WITH
    Author <- "me", Peers <- {"p", "q"}, Faulty <- {"q"}, Quorum <- 2, MaxRound <- 2,
    Reconfig <- None, OtherIds <- {}, ConsensusAlpha <- TRUE, MaxBacklog <- 1,
    MaxPendingRounds <- 3, MaxPendingProofs <- 1, MaxCachedIds <- 1, MaxRequests <- 3,
    Faults <- {"persist"}

NoManager == bm = 0 /\ ordered = 0 /\ answered = 0 /\ acked = 0 /\ target = 0

Init ==
    /\ BufferInit
    /\ \/ comp = "any" /\ NoManager
       \/ comp = "commit" /\ Commit!Init
       \/ comp = "sync" /\ Sync!Init

Next ==
    /\ UNCHANGED comp
    /\ \/ comp = "any" /\ BufferNext /\ UNCHANGED managerVars
       \/ comp = "commit" /\ Commit!Next /\ UNCHANGED bufferVars
       \/ comp = "sync" /\ Sync!SyncNext /\ UNCHANGED bufferVars

vars == <<comp, bufferVars, managerVars>>

Spec == Init /\ [][Next]_vars

(* The bound of "any": few blocks in the map. *)
Few == Cardinality({k \in Keys : Held(k)}) <= MaxHeld

-----------------------------------------------------------------------------
(* Without failures an ordered block is neither lost nor left waiting, and is persisted   *)
(* executed, with the agreed commit info, also after the block that changes the epoch;    *)
(* resets and failing persists leave no block waiting for a response nobody sends, and    *)
(* no assertion fails (buffer_manager.rs, buffer_item.rs).                                *)
CommitPathSound ==
    /\ comp = "commit" => Commit!NoPanic /\ Commit!BufferSound /\ Commit!PersistedExecuted
    /\ comp = "sync" => Sync!NoPanic /\ Sync!NoLostRequest
=============================================================================
