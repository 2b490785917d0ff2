------------------------------ MODULE Durability ------------------------------
(***************************************************************************)
(* qts.runtime.durability.RuntimeDurabilityDrill over a FileEventStore and *)
(* a FileSnapshotStore.  A session writes events that carry the new state  *)
(* of one actor, or no state, and saves snapshots of single actors; a      *)
(* crash may come anywhere.  A snapshot gets the session's own count of    *)
(* events (_runtime_event_sequence), which starts at 0 in every session    *)
(* and counts events the store has refused; the store numbers its lines by *)
(* itself.  What recover() would return is an operator of the files, so    *)
(* every state of this module is a crash point.                            *)
(***************************************************************************)
EXTENDS EventStore

CONSTANTS
    ActorIds,      \* RuntimeDurabilityDrillConfig.actor_ids
    NoState,       \* an event without state_snapshots
    MaxVersion,    \* bound: changes of one actor's state
    MaxWritten     \* bound: events written by one session

\* An actor's state is told apart by its version; 0 is the state it starts with.
StateEvent == [actor : ActorIds, version : 1..MaxVersion]

ASSUME DurabilityAssumption ==
    /\ Events = StateEvent \cup {NoState} /\ NoState \notin StateEvent
    /\ MaxVersion \in Nat /\ MaxWritten \in Nat

Snapshot == [version : 0..MaxVersion, last_sequence : 0..MaxWritten, supported : BOOLEAN]

\* What load returns for an actor without a snapshot amounts to this.
NoSnapshot == [version |-> 0, last_sequence |-> 0, supported |-> TRUE]

VARIABLES
    live,       \* the actors' states in the running process
    written,    \* _runtime_event_sequence of the session that writes to a store
    snapshots,  \* the latest snapshot of each actor in the FileSnapshotStore
    savedAt     \* history: the length of the log when that snapshot was saved

durabilityVars == <<storeVars, live, written, snapshots, savedAt>>

DurabilityTypeOK ==
    /\ StoreTypeOK
    /\ live \in [ActorIds -> 0..MaxVersion]
    /\ written \in [Stores -> 0..MaxWritten]
    /\ snapshots \in [ActorIds -> Snapshot]
    /\ savedAt \in [ActorIds -> Nat]

DurabilityInit ==
    /\ StoreInit
    /\ live = [a \in ActorIds |-> 0]
    /\ written = [s \in Stores |-> 0]
    /\ snapshots = [a \in ActorIds |-> NoSnapshot]
    /\ savedAt = [a \in ActorIds |-> 0]

-----------------------------------------------------------------------------
(***************************************************************************)
(* The running process.                                                    *)
(***************************************************************************)
\* RuntimeSession._write counts the event before the sink gets it.
Counted(s) ==
    /\ written[s] < MaxWritten
    /\ written' = [written EXCEPT ![s] = @ + 1]

\* An actor changes and the event with its new state is appended.
Change(s, a) ==
    /\ live[a] < MaxVersion
    /\ Counted(s)
    /\ AppendEvent(s, [actor |-> a, version |-> live[a] + 1])
    /\ live' = [live EXCEPT ![a] = @ + 1]
    /\ UNCHANGED <<snapshots, savedAt>>

WriteWithoutState(s) ==
    /\ Counted(s)
    /\ AppendEvent(s, NoState) \/ TornAppend(s, NoState)
    /\ UNCHANGED <<live, snapshots, savedAt>>

\* SingleWriterViolation: another store has the lock.
WriteRefused(s) ==
    /\ nextSequence[s] # 0 /\ lock \notin {NoStore, s}
    /\ Counted(s)
    /\ UNCHANGED <<storeVars, live, snapshots, savedAt>>

\* FileSnapshotStore.save: the file is replaced as a whole, so a crash leaves the
\* old or the new snapshot.
Save(a, snapshot) == snapshots' = [snapshots EXCEPT ![a] = snapshot]

\* _record_account_snapshots.  A snapshot of another schema version is one that
\* recovery does not support.
SaveSnapshot(s, a, supported) ==
    /\ nextSequence[s] # 0
    /\ Save(a, [version |-> live[a], last_sequence |-> written[s], supported |-> supported])
    /\ savedAt' = [savedAt EXCEPT ![a] = Len(lines)]
    /\ UNCHANGED <<storeVars, live, written>>

\* A session finds the actors where they were: a runtime that recovers some other
\* state stops with RuntimeDurabilityStateMismatch.
StoreStep(s) ==
    /\ Open(s) \/ Close(s)
    /\ UNCHANGED <<live, written, snapshots, savedAt>>

\* The count goes with its session; the next one starts at 0.
EndSession(s) ==
    /\ Drop(s)
    /\ written' = [written EXCEPT ![s] = 0]
    /\ UNCHANGED <<live, snapshots, savedAt>>

DurabilityNext ==
    \E s \in Stores :
        \/ \E a \in ActorIds : Change(s, a)
        \/ \E a \in ActorIds, supported \in BOOLEAN : SaveSnapshot(s, a, supported)
        \/ WriteWithoutState(s) \/ WriteRefused(s) \/ StoreStep(s) \/ EndSession(s)

DurabilitySpec == DurabilityInit /\ [][DurabilityNext]_durabilityVars

-----------------------------------------------------------------------------
(***************************************************************************)
(* recover().                                                              *)
(***************************************************************************)
\* _load_snapshot_state: one sequence number for all actors, the highest.
LatestSnapshotSequence ==
    CHOOSE n \in {snapshots[a].last_sequence : a \in ActorIds} :
        \A a \in ActorIds : snapshots[a].last_sequence <= n

\* The replay begins with the last event of the snapshot.
ReplayedFrom(a) ==
    {i \in DOMAIN lines : /\ lines[i].sequence >= LatestSnapshotSequence
                          /\ lines[i].event # NoState /\ lines[i].event.actor = a}

\* The events of an actor that replay_after hands to _apply_replayed_event.
ReplayedFor(a) ==
    {i \in DOMAIN lines : /\ lines[i].sequence > LatestSnapshotSequence
                          /\ lines[i].event # NoState /\ lines[i].event.actor = a}

Last(S) == CHOOSE i \in S : \A j \in S : j <= i

\* recovered_state: the snapshot's payload, overwritten by the replayed events.
RecoveredState ==
    [a \in ActorIds |-> IF ReplayedFor(a) = {} THEN snapshots[a].version
                        ELSE lines[Last(ReplayedFor(a))].event.version]

\* recover gets as far as comparing states: the store opens, its sequence is
\* contiguous and every snapshot's schema is supported.
Recovers == RecoveryAllowed /\ \A a \in ActorIds : snapshots[a].supported

-----------------------------------------------------------------------------
(***************************************************************************)
(* Properties.                                                             *)
(***************************************************************************)
\* The last change of an actor in the log.
LastChange(a) ==
    LET changes == {i \in DOMAIN lines : lines[i].event # NoState /\ lines[i].event.actor = a}
    IN IF changes = {} THEN 0 ELSE Last(changes)

\* Whatever sessions counted, recovery gives an actor its state back exactly if
\* the actor's last change was in the log when its snapshot was saved, or is
\* numbered above every snapshot.  What lies between its own snapshot and a higher
\* number is not replayed: the number of a later snapshot of another actor, or
\* one of a session whose count ran ahead of the log or that came before this
\* session (_write, _load_snapshot_state, replay_after).
RecoveredIff ==
    Recovers => \A a \in ActorIds :
        RecoveredState[a] = live[a] <=>
            LastChange(a) <= savedAt[a] \/ LastChange(a) > LatestSnapshotSequence

\* docs/architecture/runtime_durability_recovery.md: "The recovered named
\* runtime state must equal the pre-crash state after loading the latest
\* snapshots and replaying events after the latest snapshot sequence."
RecoveredEqualsPreCrash == Recovers => RecoveredState = live

=============================================================================
