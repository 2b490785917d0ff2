------------------------------ MODULE EventStore ------------------------------
(***************************************************************************)
(* qts.runtime.event_store.FileEventStore: several store objects, in one   *)
(* or more processes, on one JSONL file.  A store counts sequence numbers  *)
(* from the file it saw when it was opened, takes the writer lock with its *)
(* first append and keeps it until it is closed or dropped.  A write that  *)
(* fails or is cut off by a crash can leave an unfinished line behind.     *)
(***************************************************************************)
EXTENDS Integers, Sequences

CONSTANTS
    Stores,       \* FileEventStore objects
    Events,       \* what is appended
    NoStore,      \* nobody holds the writer lock
    BrokenLine,   \* a line json.loads rejects
    MaxLines      \* bound: lines of the file

Record == [sequence : Nat \ {0}, event : Events]

ASSUME StoreAssumption ==
    NoStore \notin Stores /\ BrokenLine \notin Record /\ MaxLines \in Nat

VARIABLES
    lines,          \* the file
    ended,          \* the last line has its newline
    nextSequence,   \* _next_sequence of each store, 0 if it is not open
    lock,           \* the store whose _lock_handle holds the flock
    acked           \* history: what append has returned for

storeVars == <<lines, ended, nextSequence, lock, acked>>

StoreTypeOK ==
    /\ lines \in Seq(Record \cup {BrokenLine})
    /\ ended \in BOOLEAN
    /\ nextSequence \in [Stores -> Nat]
    /\ lock \in Stores \cup {NoStore}
    /\ acked \in Seq(Record)
    /\ lock # NoStore => nextSequence[lock] # 0

StoreInit ==
    /\ lines = <<>>
    /\ ended = TRUE
    /\ nextSequence = [s \in Stores |-> 0]
    /\ lock = NoStore
    /\ acked = <<>>

-----------------------------------------------------------------------------
(***************************************************************************)
(* Reading.                                                                *)
(***************************************************************************)
\* _read_sequences raises on the first line that does not parse.
Readable == \A i \in DOMAIN lines : lines[i] # BrokenLine

PersistedSequences == {lines[i].sequence : i \in DOMAIN lines}

\* _highest_sequence
HighestSequence ==
    CHOOSE n \in PersistedSequences \cup {0} : \A m \in PersistedSequences : m <= n

MissingSequences == {n \in 1..HighestSequence : n \notin PersistedSequences}

DuplicateSequences ==
    {n \in PersistedSequences : \E i, j \in DOMAIN lines :
                          i # j /\ lines[i].sequence = n /\ lines[j].sequence = n}

\* A validation that looks for gaps only.
ValidateGaps == Readable /\ MissingSequences = {}

\* validate_sequence, then validate_event_sequence_for_recovery: recovery_allowed.
RecoveryAllowed == Readable /\ MissingSequences = {} /\ DuplicateSequences = {}

-----------------------------------------------------------------------------
(***************************************************************************)
(* Operations.                                                             *)
(***************************************************************************)

\* __init__
Open(s) ==
    /\ nextSequence[s] = 0
    /\ Readable
    /\ nextSequence' = [nextSequence EXCEPT ![s] = HighestSequence + 1]
    /\ UNCHANGED <<lines, ended, lock, acked>>

\* Text written at the end of the file runs on from an unfinished line.
Write(line, newline) ==
    /\ lines' = IF ended THEN Append(lines, line)
                ELSE [lines EXCEPT ![Len(lines)] = BrokenLine]
    /\ ended' = newline

\* _acquire_writer_lock, unless the store already has it.  An append that meets
\* another store's lock raises SingleWriterViolation and changes nothing.
Lock(s) ==
    /\ nextSequence[s] # 0
    /\ lock \in {NoStore, s}
    /\ lock' = s

\* append
AppendEvent(s, e) ==
    /\ Len(lines) < MaxLines
    /\ Lock(s)
    /\ Write([sequence |-> nextSequence[s], event |-> e], TRUE)
    /\ nextSequence' = [nextSequence EXCEPT ![s] = @ + 1]
    /\ acked' = Append(acked, [sequence |-> nextSequence[s], event |-> e])

\* append whose write raises, or is cut short by a crash, after part of the
\* line or after all of it but the newline has reached the file.
TornAppend(s, e) ==
    /\ Len(lines) < MaxLines
    /\ Lock(s)
    /\ \E line \in {BrokenLine, [sequence |-> nextSequence[s], event |-> e]} :
          Write(line, FALSE)
    /\ UNCHANGED <<nextSequence, acked>>

\* close gives the lock back; the store keeps its counter and may append again.
Close(s) ==
    /\ lock = s
    /\ lock' = NoStore
    /\ UNCHANGED <<lines, ended, nextSequence, acked>>

\* The process ends, or the object is collected (__del__): the lock is released.
Drop(s) ==
    /\ nextSequence[s] # 0
    /\ nextSequence' = [nextSequence EXCEPT ![s] = 0]
    /\ lock' = IF lock = s THEN NoStore ELSE lock
    /\ UNCHANGED <<lines, ended, acked>>

StoreNext ==
    \E s \in Stores :
        \/ Open(s) \/ Close(s) \/ Drop(s)
        \/ \E e \in Events : AppendEvent(s, e) \/ TornAppend(s, e)

StoreSpec == StoreInit /\ [][StoreNext]_storeVars

-----------------------------------------------------------------------------
(***************************************************************************)
(* Properties.                                                             *)
(***************************************************************************)
\* A log that recovery accepts is numbered 1, 2, 3 ... in file order and holds
\* every event an append has returned for, whatever stale counters, shared
\* files and torn writes came before: replay_after never skips or repeats one
\* (FileEventStore, validate_event_sequence_for_recovery).
AllowedMeansComplete ==
    RecoveryAllowed =>
        /\ \A i \in DOMAIN lines : lines[i].sequence = i
        /\ \A k \in DOMAIN acked : \E i \in DOMAIN lines : lines[i] = acked[k]

\* docs/architecture/runtime_durability_recovery.md: "a crash/restart can
\* recover from durable actor snapshots plus the append-only runtime event
\* store": no crash leaves a log that cannot even be opened.
LogSurvivesCrash == Readable

\* FileEventStore: "On open the store seeds a monotonic sequence counter" and
\* "A single-writer contract is enforced": sequence numbers grow along the file.
MonotonicSequences ==
    Readable => \A i, j \in DOMAIN lines : i < j => lines[i].sequence < lines[j].sequence

=============================================================================
