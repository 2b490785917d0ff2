----------------------------- MODULE IbkrOrderIds -----------------------------
(***************************************************************************)
(* IbkrOrderIdAllocator with the two threads that use it: the driver, which*)
(* connects, submits orders and reserves an order id for each, and the     *)
(* reader thread of a connection, which merges the gateway's nextValidId   *)
(* into the cursor and marks the connection ready.  The allocator has no   *)
(* lock, so both are cut at every access to _next_ids and to the file.     *)
(*                                                                         *)
(* disconnect waits two seconds for its reader and then abandons it: the   *)
(* reader of an earlier connection may deliver its nextValidId at any      *)
(* later time, and set the _ready event that a new connect is waiting for. *)
(* A restart keeps nothing but the file.  A write of the file is one step; *)
(* a crash in the middle of one leaves a file that _load refuses.          *)
(***************************************************************************)
EXTENDS Naturals

CONSTANTS
    Orders,          \* the orders submitted, each once
    NoOrder,         \* no order
    MaxOrderId,      \* bound: highest order id handed out
    MaxConnections,  \* bound: connections over all processes
    MaxProcesses     \* bound: processes, one after the other

OrderIds == 1..MaxOrderId
Cursors == 0..(MaxOrderId + 1)
Readers == 1..MaxConnections

ASSUME IdBoundsAssumption ==
    /\ MaxOrderId \in Nat /\ MaxConnections \in Nat /\ MaxProcesses \in Nat
    /\ NoOrder \notin Orders

VARIABLES
    storePath,    \* whether the allocator was given a file
    cursor,       \* _next_ids of the client id, 0: None
    file,         \* the persisted cursor, 0: no file
    usedFor,      \* history: the order an id was last placed for
    atBroker,     \* order ids the broker has received (external)
    online,       \* app.isConnected()
    ready,        \* _ready of IbkrTwsConnection
    connections,  \* connections made so far; the last one's reader has its number
    driver,       \* where the driver thread is
    submitting,   \* the order it submits
    reserved,     \* the order id allocate has read
    toWrite,      \* the cursor the driver's _persist has taken from _next_ids
    reader,       \* where each reader is with its nextValidId
    said,         \* what nextValidId says
    merged,       \* the maximum a reader has computed
    readerWrite,  \* the cursor a reader's _persist has taken from _next_ids
    overlapped,        \* history: an allocation and a nextValidId were under way at once
    processes

idVars == <<storePath, cursor, file, usedFor, atBroker, online, ready, connections, driver,
            submitting, reserved, toWrite, reader, said, merged, readerWrite, overlapped, processes>>

IdsInit ==
    /\ storePath \in BOOLEAN
    /\ cursor = 0 /\ file = 0
    /\ usedFor = [n \in OrderIds |-> NoOrder]
    /\ atBroker = {}
    /\ online = FALSE /\ ready = FALSE /\ connections = 0
    /\ driver = "idle" /\ submitting = NoOrder /\ reserved = 0 /\ toWrite = 0
    /\ reader = [r \in Readers |-> "none"]
    /\ said = [r \in Readers |-> 0]
    /\ merged = [r \in Readers |-> 0]
    /\ readerWrite = [r \in Readers |-> 0]
    /\ overlapped = FALSE /\ processes = 1

-----------------------------------------------------------------------------
Allocating == driver \in {"read", "advanced", "persisting"}
Reconciling == \E r \in Readers : reader[r] \in {"merged", "stored", "persisting"}

\* Part of every step of the two: the history of what overlapped.
NoteRace == overlapped' = (overlapped \/ (Allocating' /\ Reconciling'))

\* The broker's cursor: one above the highest order id it has received.
NextValidId == 1 + (IF atBroker = {} THEN 0 ELSE CHOOSE n \in atBroker : \A k \in atBroker : k <= n)

(***************************************************************************)
(* The driver: connect, disconnect, submit_order_with_broker_id.           *)
(***************************************************************************)
\* connect up to the wait; the gateway announces nextValidId once.
Connect ==
    /\ driver = "idle" /\ ~online
    /\ connections < MaxConnections
    /\ connections' = connections + 1
    /\ online' = TRUE /\ ready' = FALSE /\ driver' = "connecting"
    /\ reader' = [reader EXCEPT ![connections + 1] = "announced"]
    /\ said' = [said EXCEPT ![connections + 1] = NextValidId]
    /\ UNCHANGED <<storePath, cursor, file, usedFor, atBroker, submitting, reserved, toWrite,
                   merged, readerWrite, overlapped, processes>>

ConnectReady ==
    /\ driver = "connecting" /\ ready
    /\ driver' = "idle"
    /\ UNCHANGED <<storePath, cursor, file, usedFor, atBroker, online, ready, connections,
                   submitting, reserved, toWrite, reader, said, merged, readerWrite, overlapped, processes>>

\* disconnect, by the caller or after the wait for readiness has timed out.
Disconnect ==
    /\ driver \in {"idle", "connecting"}
    /\ online' = FALSE /\ ready' = FALSE /\ driver' = "idle"
    /\ UNCHANGED <<storePath, cursor, file, usedFor, atBroker, connections, submitting, reserved,
                   toWrite, reader, said, merged, readerWrite, overlapped, processes>>

\* The socket closes.
ConnectionLost ==
    /\ online
    /\ online' = FALSE
    /\ UNCHANGED <<storePath, cursor, file, usedFor, atBroker, ready, connections, driver,
                   submitting, reserved, toWrite, reader, said, merged, readerWrite, overlapped, processes>>

\* require_app and the first test of _reserve_order_id; otherwise submit raises.
Submit(o) ==
    /\ driver = "idle" /\ online /\ cursor # 0
    /\ \A n \in OrderIds : usedFor[n] # o
    /\ driver' = "submitting" /\ submitting' = o
    /\ UNCHANGED <<storePath, cursor, file, usedFor, atBroker, online, ready, connections,
                   reserved, toWrite, reader, said, merged, readerWrite, overlapped, processes>>

\* allocate: order_id = self._next_ids.get(client_id).
AllocateReads ==
    /\ driver = "submitting" /\ cursor \in OrderIds
    /\ reserved' = cursor
    /\ driver' = "read"
    /\ UNCHANGED <<storePath, cursor, file, usedFor, atBroker, online, ready, connections,
                   submitting, toWrite, reader, said, merged, readerWrite, processes>>
    /\ NoteRace

\* allocate: self._next_ids[client_id] = order_id + 1.
AllocateAdvances ==
    /\ driver = "read"
    /\ cursor' = reserved + 1
    /\ driver' = "advanced"
    /\ UNCHANGED <<storePath, file, usedFor, atBroker, online, ready, connections, submitting,
                   reserved, toWrite, reader, said, merged, readerWrite, processes>>
    /\ NoteRace

\* An id handed out before the advanced cursor is on disk.
AllocateUnpersisted ==
    /\ driver = "advanced"
    /\ driver' = "reserved"
    /\ UNCHANGED <<storePath, cursor, file, usedFor, atBroker, online, ready, connections,
                   submitting, reserved, toWrite, reader, said, merged, readerWrite, processes>>
    /\ NoteRace

\* _persist: the payload is built from _next_ids.
AllocatePersists ==
    /\ driver = "advanced"
    /\ IF storePath
       THEN driver' = "persisting" /\ toWrite' = cursor
       ELSE driver' = "reserved" /\ UNCHANGED toWrite
    /\ UNCHANGED <<storePath, cursor, file, usedFor, atBroker, online, ready, connections,
                   submitting, reserved, reader, said, merged, readerWrite, processes>>
    /\ NoteRace

\* _persist: write_text, after which allocate returns the id.
AllocateWrites ==
    /\ driver = "persisting"
    /\ file' = toWrite
    /\ driver' = "reserved"
    /\ UNCHANGED <<storePath, cursor, usedFor, atBroker, online, ready, connections, submitting,
                   reserved, toWrite, reader, said, merged, readerWrite, processes>>
    /\ NoteRace

\* app.placeOrder; the order is lost when the connection closes on it.
PlaceReserved ==
    /\ driver = "reserved"
    /\ usedFor' = [usedFor EXCEPT ![reserved] = submitting]
    /\ atBroker' \in {atBroker} \cup (IF online THEN {atBroker \cup {reserved}} ELSE {})
    /\ driver' = "idle" /\ submitting' = NoOrder
    /\ UNCHANGED <<storePath, cursor, file, online, ready, connections, reserved, toWrite,
                   reader, said, merged, readerWrite, overlapped, processes>>

(***************************************************************************)
(* A reader: mark_next_order_id.                                           *)
(***************************************************************************)
\* reconcile_next_valid_id: max(self._next_ids.get(client_id, 0), n).
ReconcileReads(r) ==
    /\ reader[r] = "announced"
    /\ merged' = [merged EXCEPT ![r] = IF cursor > said[r] THEN cursor ELSE said[r]]
    /\ reader' = [reader EXCEPT ![r] = "merged"]
    /\ UNCHANGED <<storePath, cursor, file, usedFor, atBroker, online, ready, connections, driver,
                   submitting, reserved, toWrite, said, readerWrite, processes>>
    /\ NoteRace

\* reconcile_next_valid_id: self._next_ids[client_id] = the maximum.
ReconcileStores(r) ==
    /\ reader[r] = "merged"
    /\ cursor' = merged[r]
    /\ reader' = [reader EXCEPT ![r] = "stored"]
    /\ UNCHANGED <<storePath, file, usedFor, atBroker, online, ready, connections, driver,
                   submitting, reserved, toWrite, said, merged, readerWrite, processes>>
    /\ NoteRace

ReconcilePersists(r) ==
    /\ reader[r] = "stored"
    /\ IF storePath
       THEN /\ reader' = [reader EXCEPT ![r] = "persisting"]
            /\ readerWrite' = [readerWrite EXCEPT ![r] = cursor]
       ELSE /\ reader' = [reader EXCEPT ![r] = "written"]
            /\ UNCHANGED readerWrite
    /\ UNCHANGED <<storePath, cursor, file, usedFor, atBroker, online, ready, connections, driver,
                   submitting, reserved, toWrite, said, merged, processes>>
    /\ NoteRace

ReconcileWrites(r) ==
    /\ reader[r] = "persisting"
    /\ file' = readerWrite[r]
    /\ reader' = [reader EXCEPT ![r] = "written"]
    /\ UNCHANGED <<storePath, cursor, usedFor, atBroker, online, ready, connections, driver,
                   submitting, reserved, toWrite, said, merged, readerWrite, processes>>
    /\ NoteRace

\* mark_ready: the event belongs to the transport, not to the connection.
MarkReady(r) ==
    /\ reader[r] = "written"
    /\ ready' = TRUE
    /\ reader' = [reader EXCEPT ![r] = "done"]
    /\ UNCHANGED <<storePath, cursor, file, usedFor, atBroker, online, connections, driver,
                   submitting, reserved, toWrite, said, merged, readerWrite, overlapped, processes>>

\* _load of a new process: the readers of the old one are gone.
LoadAgain ==
    /\ processes < MaxProcesses
    /\ processes' = processes + 1
    /\ cursor' = file
    /\ online' = FALSE /\ ready' = FALSE
    /\ driver' = "idle" /\ submitting' = NoOrder
    /\ reader' = [r \in Readers |-> IF r <= connections THEN "done" ELSE "none"]
    /\ UNCHANGED <<storePath, file, usedFor, atBroker, connections, reserved, toWrite, said,
                   merged, readerWrite, overlapped>>

IdsNext ==
    \/ Connect \/ ConnectReady \/ Disconnect \/ ConnectionLost
    \/ \E o \in Orders : Submit(o)
    \/ AllocateReads \/ AllocateAdvances \/ AllocatePersists \/ AllocateWrites \/ PlaceReserved
    \/ \E r \in Readers : \/ ReconcileReads(r) \/ ReconcileStores(r) \/ ReconcilePersists(r)
                          \/ ReconcileWrites(r) \/ MarkReady(r)
    \/ LoadAgain

IdsSpec == IdsInit /\ [][IdsNext]_idVars

-----------------------------------------------------------------------------
(***************************************************************************)
(* Properties.                                                             *)
(***************************************************************************)
IdsTypeOK ==
    /\ storePath \in BOOLEAN /\ online \in BOOLEAN /\ ready \in BOOLEAN /\ overlapped \in BOOLEAN
    /\ cursor \in Cursors /\ file \in Cursors /\ reserved \in Cursors /\ toWrite \in Cursors
    /\ usedFor \in [OrderIds -> Orders \cup {NoOrder}]
    /\ atBroker \subseteq OrderIds
    /\ connections \in 0..MaxConnections /\ processes \in Nat
    /\ driver \in {"idle", "connecting", "submitting", "read", "advanced", "persisting", "reserved"}
    /\ submitting \in Orders \cup {NoOrder}
    /\ reader \in [Readers -> {"none", "announced", "merged", "stored", "persisting", "written", "done"}]
    /\ said \in [Readers -> Cursors] /\ merged \in [Readers -> Cursors]
    /\ readerWrite \in [Readers -> Cursors]

Reused(n) == usedFor[n] # NoOrder /\ usedFor'[n] # usedFor[n]

\* "Allocates non-reused IBKR order ids" (IbkrOrderIdAllocator): as long as no
\* allocation has overlapped with a nextValidId, no id is placed for a second
\* order, over lost connections, readers that deliver their nextValidId after
\* they were abandoned, each other's included, and crashes at every step of the
\* allocation.  An allocator without a file guarantees it for the ids the broker
\* has received.
OrderIdNeverReused ==
    [][\A n \in OrderIds : Reused(n) => overlapped \/ (~storePath /\ n \notin atBroker)]_idVars

\* The same without the exception.  It does not hold: an abandoned reader that
\* has computed its maximum stores it after an allocation and rolls the cursor
\* back ("without moving the local cursor backward", reconcile_next_valid_id).
OrderIdNeverReusedAtAll == [][\A n \in OrderIds : storePath => ~Reused(n)]_idVars
=============================================================================
