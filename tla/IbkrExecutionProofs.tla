------------------------- MODULE IbkrExecutionProofs --------------------------
(***************************************************************************)
(* The three parts of the IBKR order path, for any number of orders,       *)
(* executions, threads, connections and restarts: an order id is not used  *)
(* twice unless an allocation overlapped with a nextValidId; an execution  *)
(* is booked once unless two threads had it at a time, none is forgotten   *)
(* unless it was quarantined during a resolve, and an execution and its    *)
(* commission never stay behind together; an order id leads to its order,  *)
(* and a status that counts as seen has been reported.                     *)
(***************************************************************************)
EXTENDS IbkrOrderIds, IbkrFills, IbkrExecution, WellFoundedInduction, TLAPS

(***************************************************************************)
(* Order ids.                                                              *)
(***************************************************************************)
\* A set of numbers with a bound that is not empty has a greatest member.
LEMMA GreatestExists ==
    ASSUME NEW n \in Nat, NEW S, S \subseteq 0..n, S # {}
    PROVE  \E x \in S : \A y \in S : y <= x
  <1> DEFINE T == {n - x : x \in S}
             R == OpToRel(<, Nat)
  <1>1. T \subseteq Nat /\ T # {}
    <2>1. \A x \in S : n - x \in Nat
      OBVIOUS
    <2>2. PICK x \in S : TRUE
      OBVIOUS
    <2>3. n - x \in T
      OBVIOUS
    <2>4. QED
      BY <2>1, <2>3
  <1>2. IsWellFoundedOn(R, Nat)
    BY NatLessThanWellFounded
  <1>3. \E t \in T : \A u \in T : ~(<<u, t>> \in R)
    <2> HIDE DEF R, T
    <2>1. QED
      BY <1>1, <1>2, WFMin
  <1>4. PICK t \in T : \A u \in T : ~(<<u, t>> \in R)
    BY <1>3
  <1>5. PICK x \in S : t = n - x
    OBVIOUS
  <1>6. ASSUME NEW y \in S
        PROVE  y <= x
    <2>1. n - y \in T /\ n - y \in Nat /\ n - x \in Nat
      OBVIOUS
    <2>2. ~(<<n - y, n - x>> \in R)
      BY <1>4, <1>5, <2>1
    <2>3. ~(n - y < n - x)
      BY <2>1, <2>2 DEF OpToRel
    <2>4. QED
      BY <2>3
  <1>7. QED
    BY <1>6

\* The broker's cursor is one the allocator can take over, above every id the
\* broker has received.
LEMMA NextValidIdAbove ==
    ASSUME atBroker \subseteq OrderIds
    PROVE  NextValidId \in 1..(MaxOrderId + 1) /\ \A n \in atBroker : n < NextValidId
  <1>1. CASE atBroker = {}
    BY <1>1, IdBoundsAssumption DEF NextValidId
  <1>2. CASE atBroker # {}
    <2>1. \E n \in atBroker : \A k \in atBroker : k <= n
      <3>1. atBroker \subseteq 0..MaxOrderId
        BY IdBoundsAssumption DEF OrderIds
      <3>2. QED
        BY <3>1, <1>2, GreatestExists, IdBoundsAssumption
    <2>2. PICK n \in atBroker : n = (CHOOSE j \in atBroker : \A k \in atBroker : k <= j)
                                /\ \A k \in atBroker : k <= n
      BY <2>1
    <2>3. NextValidId = 1 + n /\ n \in 1..MaxOrderId
      BY <1>2, <2>2 DEF NextValidId, OrderIds
    <2>4. \A k \in atBroker : k \in 1..MaxOrderId /\ k <= n
      BY <2>2 DEF OrderIds
    <2>5. QED
      BY <2>3, <2>4, IdBoundsAssumption
  <1>3. QED
    BY <1>1, <1>2

\* The ids that must not be handed out again: those that orders were placed
\* under, as far as the allocator can know of them, and the one in the driver's hand.
InUse(n) == usedFor[n] # NoOrder /\ (storePath \/ n \in atBroker)
Taken(n) == InUse(n) \/ (driver = "reserved" /\ n = reserved)
Above(x) == \A n \in OrderIds : Taken(n) => n < x

\* What holds even after an overlap.
IdsFrame ==
    /\ IdsTypeOK
    /\ Allocating /\ Reconciling => overlapped
    /\ storePath \/ file = 0
    /\ driver = "persisting" => storePath
    /\ \A r \in Readers : /\ reader[r] = "announced" => said[r] >= 1
                          /\ reader[r] = "merged" => merged[r] >= 1
                          /\ reader[r] = "persisting" => storePath
    /\ driver \in {"submitting", "read", "advanced", "persisting", "reserved"} =>
           cursor >= 1 /\ submitting \in Orders
    /\ driver \in {"read", "advanced", "persisting", "reserved"} => reserved \in OrderIds

\* The cursor, and every copy of it that a thread holds or the file has, is above
\* the ids in use; the id the driver has read is above them too, and below the
\* cursor as soon as the driver has advanced it.
IdsSafe ==
    /\ cursor # 0 \/ storePath => Above(cursor)
    /\ storePath => Above(file)
    /\ \A r \in Readers :
          /\ reader[r] = "announced" /\ ~storePath /\ cursor = 0 => Above(said[r])
          /\ reader[r] = "merged" => Above(merged[r])
          /\ reader[r] = "persisting" => Above(readerWrite[r])
    /\ driver \in {"read", "advanced", "persisting", "reserved"} =>
           \A n \in OrderIds : InUse(n) => n < reserved
    /\ driver = "read" => cursor = reserved
    /\ driver \in {"advanced", "persisting"} => cursor = reserved + 1
    /\ driver = "persisting" => toWrite = reserved + 1

IdsInv == IdsFrame /\ (~overlapped => IdsSafe)

\* The driver's steps outside an allocation.
LEMMA ConnectionKeepsIds ==
    ASSUME IdsInv,
           Connect \/ ConnectReady \/ Disconnect \/ ConnectionLost \/ (\E o \in Orders : Submit(o))
    PROVE  IdsInv'
  <1>1. CASE Connect
    <2>1. NextValidId \in 1..(MaxOrderId + 1) /\ \A n \in atBroker : n < NextValidId
      BY NextValidIdAbove DEF IdsInv, IdsFrame, IdsTypeOK
    <2>2. connections + 1 \in Readers
      BY <1>1, IdBoundsAssumption DEF IdsInv, IdsFrame, IdsTypeOK, Connect, Readers
    <2>3. said'[connections + 1] = NextValidId /\ reader'[connections + 1] = "announced"
      BY <1>1, <2>2 DEF IdsInv, IdsFrame, IdsTypeOK, Connect
    <2>4. \A r \in Readers : r # connections + 1 => said'[r] = said[r] /\ reader'[r] = reader[r]
      BY <1>1, <2>2 DEF IdsInv, IdsFrame, IdsTypeOK, Connect
    <2>5. NextValidId \in Cursors
      BY <2>1, IdBoundsAssumption DEF Cursors
    <2>6. IdsFrame'
      <3>1. IdsTypeOK'
        <4>1. connections + 1 \in 0..MaxConnections
          BY <2>2, IdBoundsAssumption DEF Readers
        <4>2. QED
          BY <1>1, <2>2, <2>5, <4>1 DEF IdsInv, IdsFrame, IdsTypeOK, Connect
      <3>2. ~Allocating'
        BY <1>1 DEF Connect, Allocating
      <3>3. QED
        BY <1>1, <2>1, <2>3, <2>4, <3>1, <3>2 DEF IdsInv, IdsFrame, Connect
    <2>7. ASSUME ~overlapped' PROVE IdsSafe'
      <3>1. IdsSafe
        BY <1>1, <2>7 DEF IdsInv, Connect
      <3>2. \A n \in OrderIds : InUse(n)' = InUse(n) /\ Taken(n)' = Taken(n)
        BY <1>1 DEF InUse, Taken, Connect
      <3>3. ~storePath => \A n \in OrderIds : Taken(n) => n < NextValidId
        BY <1>1, <2>1 DEF InUse, Taken, Connect
      <3>4. QED
        BY <1>1, <2>3, <2>4, <3>1, <3>2, <3>3 DEF IdsSafe, Above, Connect
    <2>8. QED
      BY <2>6, <2>7 DEF IdsInv
  <1>2. CASE ConnectReady
    BY <1>2 DEF IdsInv, IdsFrame, IdsTypeOK, IdsSafe, Above, Taken, InUse, Allocating, Reconciling,
                ConnectReady
  <1>6. CASE Disconnect
    BY <1>6 DEF IdsInv, IdsFrame, IdsTypeOK, IdsSafe, Above, Taken, InUse, Allocating, Reconciling,
                Disconnect
  <1>3. CASE ConnectionLost
    BY <1>3 DEF IdsInv, IdsFrame, IdsTypeOK, IdsSafe, Above, Taken, InUse, Allocating, Reconciling,
                ConnectionLost
  <1>4. ASSUME NEW o \in Orders, Submit(o)
        PROVE  IdsInv'
    <2>1. cursor >= 1
      BY <1>4, IdBoundsAssumption DEF IdsInv, IdsFrame, IdsTypeOK, Submit, Cursors
    <2>2. QED
      BY <1>4, <2>1 DEF IdsInv, IdsFrame, IdsTypeOK, IdsSafe, Above, Taken, InUse, Allocating,
                        Reconciling, Submit
  <1>5. QED
    BY <1>1, <1>2, <1>3, <1>4, <1>6

\* What a step leaves of the frame when the history is kept right.
LEMMA OverlapKept ==
    ASSUME NoteRace, Allocating', Reconciling'
    PROVE  overlapped'
  BY DEF NoteRace

\* An allocation: the id it reads is above all in use, and the cursor, then the
\* file, are above it before the driver has it.
LEMMA AllocateKeepsIds ==
    ASSUME IdsInv, AllocateReads \/ AllocateAdvances \/ AllocatePersists \/ AllocateWrites
    PROVE  IdsInv'
  <1>1. CASE AllocateReads
    <2>1. IdsFrame'
      BY <1>1, OverlapKept, IdBoundsAssumption
      DEF IdsInv, IdsFrame, IdsTypeOK, AllocateReads, OrderIds, Cursors, NoteRace
    <2>2. ASSUME ~overlapped' PROVE IdsSafe'
      <3>1. ~overlapped /\ IdsSafe
        BY <1>1, <2>2 DEF IdsInv, AllocateReads, NoteRace
      <3>2. \A n \in OrderIds : InUse(n)' = InUse(n) /\ Taken(n)' = InUse(n) /\ Taken(n) = InUse(n)
        BY <1>1 DEF InUse, Taken, AllocateReads
      <3>3. cursor # 0
        BY <1>1, IdBoundsAssumption DEF AllocateReads, OrderIds
      <3>4. QED
        BY <1>1, <3>1, <3>2, <3>3 DEF IdsSafe, Above, AllocateReads
    <2>3. QED
      BY <2>1, <2>2 DEF IdsInv
  <1>2. CASE AllocateAdvances
    <2>1. IdsFrame'
      BY <1>2, OverlapKept, IdBoundsAssumption
      DEF IdsInv, IdsFrame, IdsTypeOK, AllocateAdvances, OrderIds, Cursors, NoteRace
    <2>2. ASSUME ~overlapped' PROVE IdsSafe'
      <3>1. ~overlapped /\ IdsSafe
        BY <1>2, <2>2 DEF IdsInv, AllocateAdvances, NoteRace
      <3>2. \A n \in OrderIds : InUse(n)' = InUse(n) /\ Taken(n)' = InUse(n) /\ Taken(n) = InUse(n)
        BY <1>2 DEF InUse, Taken, AllocateAdvances
      <3>3. reserved \in OrderIds /\ \A n \in OrderIds : InUse(n) => n < reserved + 1
        BY <1>2, <3>1, IdBoundsAssumption DEF IdsInv, IdsFrame, IdsSafe, AllocateAdvances, OrderIds
      <3>4. reserved + 1 # 0
        BY <3>3, IdBoundsAssumption DEF OrderIds
      <3>5. QED
        BY <1>2, <3>1, <3>2, <3>3, <3>4 DEF IdsSafe, Above, AllocateAdvances
    <2>3. QED
      BY <2>1, <2>2 DEF IdsInv
  <1>3. CASE AllocatePersists
    <2>1. IdsFrame'
      BY <1>3, OverlapKept, IdBoundsAssumption
      DEF IdsInv, IdsFrame, IdsTypeOK, AllocatePersists, NoteRace
    <2>2. ASSUME ~overlapped' PROVE IdsSafe'
      <3>1. ~overlapped /\ IdsSafe
        BY <1>3, <2>2 DEF IdsInv, AllocatePersists, NoteRace
      <3>2. ~Reconciling
        BY <1>3, <3>1 DEF IdsInv, IdsFrame, Allocating, AllocatePersists
      <3>3. \A n \in OrderIds : InUse(n)' = InUse(n) /\ Taken(n) = InUse(n)
        BY <1>3 DEF InUse, Taken, AllocatePersists
      <3>4. reserved \in OrderIds /\ cursor = reserved + 1 /\ reserved < cursor
        BY <1>3, <3>1, IdBoundsAssumption DEF IdsInv, IdsFrame, IdsSafe, AllocatePersists, OrderIds
      <3>5. \A n \in OrderIds : Taken(n)' => n < cursor
        BY <1>3, <3>1, <3>3, <3>4, IdBoundsAssumption
        DEF Taken, IdsSafe, Above, AllocatePersists, OrderIds
      <3>6. storePath => \A n \in OrderIds : Taken(n)' = InUse(n)
        BY <1>3, <3>3 DEF Taken, AllocatePersists
      <3>7. cursor # 0
        BY <3>4, IdBoundsAssumption DEF OrderIds
      <3>8. QED
        BY <1>3, <3>1, <3>2, <3>3, <3>4, <3>5, <3>6, <3>7
        DEF IdsSafe, Above, AllocatePersists, Reconciling
    <2>3. QED
      BY <2>1, <2>2 DEF IdsInv
  <1>4. CASE AllocateWrites
    <2>1. IdsFrame'
      <3>2. IdsTypeOK'
        BY <1>4 DEF IdsInv, IdsFrame, IdsTypeOK, AllocateWrites, NoteRace
      <3>3. QED
        BY <1>4, <3>2, OverlapKept DEF IdsInv, IdsFrame, AllocateWrites, NoteRace
    <2>2. ASSUME ~overlapped' PROVE IdsSafe'
      <3>1. ~overlapped /\ IdsSafe
        BY <1>4, <2>2 DEF IdsInv, AllocateWrites, NoteRace
      <3>2. ~Reconciling
        BY <1>4, <3>1 DEF IdsInv, IdsFrame, Allocating, AllocateWrites
      <3>3. \A n \in OrderIds : InUse(n)' = InUse(n) /\ Taken(n) = InUse(n)
        BY <1>4 DEF InUse, Taken, AllocateWrites
      <3>4. reserved \in OrderIds /\ cursor = reserved + 1 /\ toWrite = cursor /\ cursor # 0
        BY <1>4, <3>1, IdBoundsAssumption DEF IdsInv, IdsFrame, IdsSafe, AllocateWrites, OrderIds
      <3>5. \A n \in OrderIds : Taken(n)' => n < cursor
        BY <1>4, <3>1, <3>3, <3>4, IdBoundsAssumption
        DEF Taken, IdsSafe, Above, AllocateWrites, OrderIds
      <3>6. QED
        BY <1>4, <3>1, <3>2, <3>3, <3>4, <3>5 DEF IdsSafe, Above, AllocateWrites, Reconciling
    <2>3. QED
      BY <2>1, <2>2 DEF IdsInv
  <1>5. QED
    BY <1>1, <1>2, <1>3, <1>4

\* placeOrder: the reserved id was nobody's.
LEMMA PlaceKeepsIds ==
    ASSUME IdsInv, PlaceReserved
    PROVE  IdsInv'
  <1>1. reserved \in OrderIds /\ submitting \in Orders
    BY DEF IdsInv, IdsFrame, PlaceReserved
  <1>2. IdsFrame'
    BY <1>1 DEF IdsInv, IdsFrame, IdsTypeOK, PlaceReserved, Allocating
  <1>3. ASSUME ~overlapped' PROVE IdsSafe'
    <2>1. IdsSafe
      BY <1>3 DEF IdsInv, PlaceReserved
    <2>2. \A n \in OrderIds : Taken(n)' => Taken(n)
      BY <1>1 DEF InUse, Taken, PlaceReserved, IdsInv, IdsFrame, IdsTypeOK
    <2>3. cursor # 0
      BY DEF IdsInv, IdsFrame, PlaceReserved
    <2>4. QED
      BY <2>1, <2>2, <2>3 DEF IdsSafe, Above, PlaceReserved
  <1>4. QED
    BY <1>2, <1>3 DEF IdsInv

\* A nextValidId that does not overlap with an allocation takes over a maximum
\* that is above all in use, even when its reader was abandoned long ago.
LEMMA ReconcileKeepsIds ==
    ASSUME IdsInv, NEW r \in Readers,
           \/ ReconcileReads(r) \/ ReconcileStores(r) \/ ReconcilePersists(r)
           \/ ReconcileWrites(r) \/ MarkReady(r)
    PROVE  IdsInv'
  <1> USE IdBoundsAssumption
  <1>1. CASE ReconcileReads(r)
    <2>1. cursor \in Nat /\ said[r] \in Nat /\ said[r] >= 1 /\ said[r] \in Cursors
      BY <1>1 DEF IdsInv, IdsFrame, IdsTypeOK, ReconcileReads, Cursors
    <2> DEFINE top == IF cursor > said[r] THEN cursor ELSE said[r]
    <2>2. /\ top \in Cursors /\ top >= 1 /\ top >= cursor /\ top >= said[r]
          /\ merged' = [merged EXCEPT ![r] = top]
      BY <1>1, <2>1 DEF IdsInv, IdsFrame, IdsTypeOK, ReconcileReads
    <2> HIDE DEF top
    <2>3. IdsFrame'
      BY <1>1, <2>2, OverlapKept DEF IdsInv, IdsFrame, IdsTypeOK, ReconcileReads, NoteRace
    <2>4. ASSUME ~overlapped' PROVE IdsSafe'
      <3>1. ~overlapped /\ IdsSafe
        BY <1>1, <2>4 DEF IdsInv, ReconcileReads, NoteRace
      <3>2. \A n \in OrderIds : InUse(n)' = InUse(n) /\ Taken(n)' = Taken(n)
        BY <1>1 DEF InUse, Taken, ReconcileReads
      <3>3. Above(cursor) \/ Above(said[r])
        BY <1>1, <3>1 DEF IdsSafe, ReconcileReads
      <3>4. \A n \in OrderIds : Taken(n) => n < top
        BY <2>1, <2>2, <3>3 DEF Above, OrderIds, Cursors
      <3>5. /\ merged'[r] = top /\ reader'[r] = "merged"
            /\ \A q \in Readers : q # r => merged'[q] = merged[q] /\ reader'[q] = reader[q]
        BY <1>1, <2>2 DEF ReconcileReads, IdsInv, IdsFrame, IdsTypeOK
      <3>6. QED
        BY <1>1, <3>1, <3>2, <3>4, <3>5 DEF IdsSafe, Above, ReconcileReads
    <2>5. QED
      BY <2>3, <2>4 DEF IdsInv
  <1>2. CASE ReconcileStores(r)
    <2>1. merged[r] \in Cursors /\ merged[r] >= 1 /\ merged[r] # 0
      BY <1>2 DEF IdsInv, IdsFrame, IdsTypeOK, ReconcileStores, Cursors
    <2>2. IdsFrame'
      BY <1>2, <2>1, OverlapKept DEF IdsInv, IdsFrame, IdsTypeOK, ReconcileStores, NoteRace
    <2>3. ASSUME ~overlapped' PROVE IdsSafe'
      <3>1. ~overlapped /\ IdsSafe
        BY <1>2, <2>3 DEF IdsInv, ReconcileStores, NoteRace
      <3>2. \A n \in OrderIds : InUse(n)' = InUse(n) /\ Taken(n)' = Taken(n)
        BY <1>2 DEF InUse, Taken, ReconcileStores
      <3>3. ~Allocating
        BY <1>2, <3>1 DEF IdsInv, IdsFrame, Reconciling, ReconcileStores
      <3>4. /\ reader'[r] = "stored"
            /\ \A q \in Readers : q # r => reader'[q] = reader[q]
        BY <1>2 DEF ReconcileStores, IdsInv, IdsFrame, IdsTypeOK
      <3>5. QED
        BY <1>2, <2>1, <3>1, <3>2, <3>3, <3>4 DEF IdsSafe, Above, Allocating, ReconcileStores
    <2>4. QED
      BY <2>2, <2>3 DEF IdsInv
  <1>3. CASE ReconcilePersists(r)
    <2>1. IdsFrame'
      BY <1>3, OverlapKept DEF IdsInv, IdsFrame, IdsTypeOK, ReconcilePersists, NoteRace
    <2>2. ASSUME ~overlapped' PROVE IdsSafe'
      <3>1. ~overlapped /\ IdsSafe
        BY <1>3, <2>2 DEF IdsInv, ReconcilePersists, NoteRace
      <3>2. \A n \in OrderIds : InUse(n)' = InUse(n) /\ Taken(n)' = Taken(n)
        BY <1>3 DEF InUse, Taken, ReconcilePersists
      <3>3. /\ reader'[r] = "persisting" => storePath /\ readerWrite'[r] = cursor
            /\ reader'[r] \in {"persisting", "written"}
            /\ \A q \in Readers : q # r => readerWrite'[q] = readerWrite[q] /\ reader'[q] = reader[q]
        BY <1>3 DEF ReconcilePersists, IdsInv, IdsFrame, IdsTypeOK
      <3>4. QED
        BY <1>3, <3>1, <3>2, <3>3 DEF IdsSafe, Above, ReconcilePersists
    <2>3. QED
      BY <2>1, <2>2 DEF IdsInv
  <1>4. CASE ReconcileWrites(r)
    <2>1. IdsFrame'
      BY <1>4, OverlapKept DEF IdsInv, IdsFrame, IdsTypeOK, ReconcileWrites, NoteRace
    <2>2. ASSUME ~overlapped' PROVE IdsSafe'
      <3>1. ~overlapped /\ IdsSafe
        BY <1>4, <2>2 DEF IdsInv, ReconcileWrites, NoteRace
      <3>2. \A n \in OrderIds : InUse(n)' = InUse(n) /\ Taken(n)' = Taken(n)
        BY <1>4 DEF InUse, Taken, ReconcileWrites
      <3>3. /\ reader'[r] = "written"
            /\ \A q \in Readers : q # r => reader'[q] = reader[q]
        BY <1>4 DEF ReconcileWrites, IdsInv, IdsFrame, IdsTypeOK
      <3>4. QED
        BY <1>4, <3>1, <3>2, <3>3 DEF IdsSafe, Above, ReconcileWrites
    <2>3. QED
      BY <2>1, <2>2 DEF IdsInv
  <1>5. CASE MarkReady(r)
    BY <1>5 DEF IdsInv, IdsFrame, IdsTypeOK, IdsSafe, Above, Taken, InUse, Allocating, Reconciling,
                MarkReady
  <1>6. QED
    BY <1>1, <1>2, <1>3, <1>4, <1>5

\* A new process starts from the file, with none of the old threads.
LEMMA LoadKeepsIds ==
    ASSUME IdsInv, LoadAgain
    PROVE  IdsInv'
  <1>1. IdsFrame'
    <2>1. IdsTypeOK'
      <3>1. reader' \in [Readers -> {"none", "announced", "merged", "stored", "persisting",
                                     "written", "done"}]
        BY DEF LoadAgain
      <3>2. processes' \in Nat
        BY DEF IdsInv, IdsFrame, IdsTypeOK, LoadAgain
      <3>3. QED
        BY <3>1, <3>2 DEF IdsInv, IdsFrame, IdsTypeOK, LoadAgain
    <2>2. \A q \in Readers : reader'[q] \in {"done", "none"}
      BY DEF LoadAgain
    <2>3. QED
      BY <2>1, <2>2 DEF IdsInv, IdsFrame, LoadAgain, Allocating
  <1>2. ASSUME ~overlapped' PROVE IdsSafe'
    <2>1. IdsSafe
      BY <1>2 DEF IdsInv, LoadAgain
    <2>2. \A n \in OrderIds : Taken(n)' => Taken(n)
      BY DEF InUse, Taken, LoadAgain
    <2>3. \A q \in Readers : reader'[q] \in {"done", "none"}
      BY DEF LoadAgain
    <2>4. storePath \/ cursor' = 0
      BY DEF IdsInv, IdsFrame, LoadAgain
    <2>5. QED
      BY <2>1, <2>2, <2>3, <2>4 DEF IdsSafe, Above, LoadAgain
  <1>3. QED
    BY <1>1, <1>2 DEF IdsInv

\* While no allocation has overlapped with a nextValidId, the cursor and every
\* copy of it, in a thread's hands or in the file, is above the ids in use; so a
\* crash at any step of an allocation starts again above them.
THEOREM IdsInvariant == IdsSpec => []IdsInv
  <1>1. IdsInit => IdsInv
    <2> SUFFICES ASSUME IdsInit PROVE IdsInv
      OBVIOUS
    <2>1. IdsTypeOK
      <3>1. 0 \in Cursors /\ 0 \in 0..MaxConnections
        BY IdBoundsAssumption DEF Cursors
      <3>2. QED
        BY <3>1, IdBoundsAssumption DEF IdsInit, IdsTypeOK
    <2>2. \A n \in OrderIds : ~Taken(n)
      BY DEF IdsInit, Taken, InUse
    <2>3. QED
      BY <2>1, <2>2 DEF IdsInit, IdsInv, IdsFrame, IdsSafe, Above, Allocating
  <1>2. IdsInv /\ [IdsNext]_idVars => IdsInv'
    <2> SUFFICES ASSUME IdsInv, [IdsNext]_idVars
                 PROVE  IdsInv'
      OBVIOUS
    <2>1. CASE UNCHANGED idVars
      BY <2>1 DEF idVars, IdsInv, IdsFrame, IdsTypeOK, IdsSafe, Above, Taken, InUse, Allocating, Reconciling
    <2>2. CASE IdsNext
      BY <2>2, ConnectionKeepsIds, AllocateKeepsIds, PlaceKeepsIds, ReconcileKeepsIds, LoadKeepsIds
      DEF IdsNext
    <2>3. QED
      BY <2>1, <2>2
  <1>3. QED
    BY <1>1, <1>2, PTL DEF IdsSpec

\* No id is placed for a second order unless an allocation has overlapped with a
\* nextValidId, for any number of connections, abandoned readers and restarts.
THEOREM OrderIdNeverReusedAlways == IdsSpec => OrderIdNeverReused
  <1>1. IdsInv /\ [IdsNext]_idVars =>
            [\A n \in OrderIds : Reused(n) => overlapped \/ (~storePath /\ n \notin atBroker)]_idVars
    <2> SUFFICES ASSUME IdsInv, IdsNext, NEW n \in OrderIds, Reused(n), ~overlapped
                 PROVE  ~storePath /\ n \notin atBroker
      OBVIOUS
    <2>1. PlaceReserved
      BY DEF IdsNext, Reused, Connect, ConnectReady, Disconnect, ConnectionLost, Submit, AllocateReads,
             AllocateAdvances, AllocatePersists, AllocateWrites, ReconcileReads, ReconcileStores,
             ReconcilePersists, ReconcileWrites, MarkReady, LoadAgain
    <2>2. n = reserved /\ n \in 1..MaxOrderId
      BY <2>1 DEF PlaceReserved, Reused, IdsInv, IdsFrame, IdsTypeOK, OrderIds
    <2>3. InUse(n) => n < reserved
      BY <2>1 DEF PlaceReserved, IdsInv, IdsSafe
    <2>4. ~InUse(n)
      BY <2>2, <2>3, IdBoundsAssumption
    <2>5. QED
      BY <2>4 DEF InUse, Reused
  <1>2. QED
    BY <1>1, IdsInvariant, PTL DEF IdsSpec, OrderIdNeverReused

-----------------------------------------------------------------------------
(***************************************************************************)
(* The fill normalizer: readers and driver in any interleaving.            *)
(***************************************************************************)
\* The points at which a thread handles no execution.
Between == {"idle", "walk", "flush"}
FillsShape ==
    /\ FillsTypeOK
    /\ \A t \in Threads : cur[t] \in Execs <=> at[t] \notin Between

\* A thread at one of these points answers for its execution; at the others the
\* execution is found elsewhere.
Holding == {"looked", "unknown", "stage", "resolving", "restage", "popComm", "complete", "flushed"}
Kept(e) == e \in pending \cup completed \/ \E t \in Threads : cur[t] = e /\ at[t] \in Holding

\* In the quarantine, and not about to be dropped from it by the replacement.
Parked(e) == IF Resolving THEN e \in todo \cup unresolved ELSE e \in quarExecs
WalkInQuarantine == Resolving => todo \cup unresolved \subseteq quarExecs

\* A thread that finds the commission gone after it has popped the execution
\* raises; another thread has then completed the execution or is about to.
CommissionTaken ==
    \A t \in Threads : at[t] \in {"popExec", "popComm"} /\ cur[t] \notin commissions =>
        cur[t] \in completed \/ \E u \in Threads : cur[u] = cur[t] /\ at[u] = "complete"

Remembered == \A e \in told \ overwritten : Kept(e) \/ Parked(e)

\* An execution that was never raced for is in one thread's hands at most, and a
\* completed one is neither staged nor on the way to being booked again.
OneAtATime ==
    \A e \in Execs \ raced : \A t, u \in Threads : Handles(t, e) /\ Handles(u, e) => t = u
Flushing(e) == at[Driver] \in {"flush", "flushed"} /\ e \in todo
NotAgain ==
    \A e \in Execs \ raced :
        /\ e \in completed => /\ e \notin pending /\ ~Flushing(e)
                              /\ \A t \in Threads : cur[t] = e => at[t] \in {"scan", "resolving"}
        /\ \A t \in Threads : cur[t] = e /\ at[t] \in {"popComm", "complete", "flushed"} =>
                                  e \notin pending /\ ~Flushing(e)

FillsInv ==
    /\ FillsShape
    /\ WalkInQuarantine /\ CommissionTaken /\ Remembered
    /\ OneAtATime /\ NotAgain
    /\ BookedOnce /\ PairNeverStranded

\* The types, and which points have an execution.
LEMMA ShapeStep ==
    ASSUME FillsShape, [FillsNext]_fillVars
    PROVE  FillsShape'
  <1> USE FillsAssumption DEF FillsTypeOK, FillsShape, Between, Points, Popping, Threads, shared,
                              threads, histories
  <1>1. ASSUME NEW r \in FillReaders, NEW e \in Foreign, OnExecutionForeign(r, e)
        PROVE  FillsShape'
    BY <1>1 DEF OnExecutionForeign, Quarantine
  <1>2. ASSUME NEW r \in FillReaders, NEW e \in Execs, OnExecution(r, e)
        PROVE  FillsShape'
    BY <1>2 DEF OnExecution, RacedBy
  <1>3. ASSUME NEW r \in FillReaders, LookUpOrder(r)
        PROVE  FillsShape'
    BY <1>3 DEF LookUpOrder, Goto, Resolvable
  <1>4. ASSUME NEW r \in FillReaders, QuarantineUnknown(r)
        PROVE  FillsShape'
    BY <1>4 DEF QuarantineUnknown, Quarantine, CallEnds
  <1>5. ASSUME NEW r \in FillReaders, Stage(r)
        PROVE  FillsShape'
    BY <1>5 DEF Stage, Goto
  <1>6. ASSUME NEW r \in FillReaders, AskCommission(r)
        PROVE  FillsShape'
    BY <1>6 DEF AskCommission, Goto, CallEnds
  <1>7. ASSUME NEW r \in FillReaders, NEW e \in Execs, OnCommission(r, e)
        PROVE  FillsShape'
    BY <1>7 DEF OnCommission, RacedBy
  <1>8. ASSUME NEW r \in FillReaders, ScanPending(r)
        PROVE  FillsShape'
    BY <1>8 DEF ScanPending, Goto, CallEnds
  <1>9. ASSUME NEW t \in Threads, GetExecution(t)
        PROVE  FillsShape'
    BY <1>9 DEF GetExecution, Goto, CallEnds
  <1>10. ASSUME NEW t \in Threads, GetCommission(t)
        PROVE  FillsShape'
    BY <1>10 DEF GetCommission, Goto, CallEnds
  <1>11. ASSUME NEW t \in Threads, PopExecution(t)
        PROVE  FillsShape'
    BY <1>11 DEF PopExecution, Goto, CallRaises
  <1>12. ASSUME NEW t \in Threads, PopCommission(t)
        PROVE  FillsShape'
    BY <1>12 DEF PopCommission, Goto, CallRaises
  <1>13. ASSUME NEW t \in Threads, Complete(t)
        PROVE  FillsShape'
    BY <1>13 DEF Complete, CallEnds
  <1>14. CASE FlushStarts
    BY <1>14 DEF FlushStarts, Goto, RacedBy
  <1>15. ASSUME NEW e \in Execs, FlushPops(e)
        PROVE  FillsShape'
    BY <1>15 DEF FlushPops, CallRaises
  <1>16. CASE FlushCompletes
    BY <1>16 DEF FlushCompletes
  <1>17. CASE FlushReturns
    BY <1>17 DEF FlushReturns, Goto
  <1>18. CASE ResolveCopies
    BY <1>18 DEF ResolveCopies, Goto
  <1>19. ASSUME NEW e \in Execs \cup Foreign, ResolveLooksUp(e)
        PROVE  FillsShape'
    BY <1>19 DEF ResolveLooksUp, Resolvable, RacedBy
  <1>20. CASE ResolveChecks
    BY <1>20 DEF ResolveChecks, Goto, CallEnds
  <1>21. CASE ResolveStages
    BY <1>21 DEF ResolveStages, Goto
  <1>22. CASE ResolveReplaces
    BY <1>22 DEF ResolveReplaces, Goto
  <1>23. ASSUME NEW n \in BrokerIds, MapGrows(n)
        PROVE  FillsShape'
    BY <1>23 DEF MapGrows
  <1>24. CASE StartAgain
    BY <1>24 DEF StartAgain
  <1>25. CASE UNCHANGED fillVars
    BY <1>25 DEF fillVars
  <1>26. QED
    BY <1>1, <1>2, <1>3, <1>4, <1>5, <1>6, <1>7, <1>8, <1>9, <1>10, <1>11, <1>12, <1>13,
       <1>14, <1>15, <1>16, <1>17, <1>18, <1>19, <1>20, <1>21, <1>22, <1>23, <1>24, <1>25
    DEF FillsNext, Callback, PopCommissionedExecution, FlushPendingExecutions, ResolveQuarantined

\* The quarantine only grows while the driver walks over its copy.
LEMMA QuarantineStep ==
    ASSUME FillsShape, WalkInQuarantine, [FillsNext]_fillVars
    PROVE  WalkInQuarantine'
  <1> USE FillsAssumption DEF FillsTypeOK, FillsShape, Between, Points, Popping, Threads, shared,
                              threads, histories, WalkInQuarantine, Resolving
  <1>1. ASSUME NEW r \in FillReaders, NEW e \in Foreign, OnExecutionForeign(r, e)
        PROVE  WalkInQuarantine'
    BY <1>1 DEF OnExecutionForeign, Quarantine
  <1>2. ASSUME NEW r \in FillReaders, NEW e \in Execs, OnExecution(r, e)
        PROVE  WalkInQuarantine'
    BY <1>2 DEF OnExecution, RacedBy
  <1>3. ASSUME NEW r \in FillReaders, LookUpOrder(r)
        PROVE  WalkInQuarantine'
    BY <1>3 DEF LookUpOrder, Goto, Resolvable
  <1>4. ASSUME NEW r \in FillReaders, QuarantineUnknown(r)
        PROVE  WalkInQuarantine'
    BY <1>4 DEF QuarantineUnknown, Quarantine, CallEnds
  <1>5. ASSUME NEW r \in FillReaders, Stage(r)
        PROVE  WalkInQuarantine'
    BY <1>5 DEF Stage, Goto
  <1>6. ASSUME NEW r \in FillReaders, AskCommission(r)
        PROVE  WalkInQuarantine'
    BY <1>6 DEF AskCommission, Goto, CallEnds
  <1>7. ASSUME NEW r \in FillReaders, NEW e \in Execs, OnCommission(r, e)
        PROVE  WalkInQuarantine'
    BY <1>7 DEF OnCommission, RacedBy
  <1>8. ASSUME NEW r \in FillReaders, ScanPending(r)
        PROVE  WalkInQuarantine'
    BY <1>8 DEF ScanPending, Goto, CallEnds
  <1>9. ASSUME NEW t \in Threads, GetExecution(t)
        PROVE  WalkInQuarantine'
    BY <1>9 DEF GetExecution, Goto, CallEnds
  <1>10. ASSUME NEW t \in Threads, GetCommission(t)
        PROVE  WalkInQuarantine'
    BY <1>10 DEF GetCommission, Goto, CallEnds
  <1>11. ASSUME NEW t \in Threads, PopExecution(t)
        PROVE  WalkInQuarantine'
    BY <1>11 DEF PopExecution, Goto, CallRaises
  <1>12. ASSUME NEW t \in Threads, PopCommission(t)
        PROVE  WalkInQuarantine'
    BY <1>12 DEF PopCommission, Goto, CallRaises
  <1>13. ASSUME NEW t \in Threads, Complete(t)
        PROVE  WalkInQuarantine'
    BY <1>13 DEF Complete, CallEnds
  <1>14. CASE FlushStarts
    BY <1>14 DEF FlushStarts, Goto, RacedBy
  <1>15. ASSUME NEW e \in Execs, FlushPops(e)
        PROVE  WalkInQuarantine'
    BY <1>15 DEF FlushPops, CallRaises
  <1>16. CASE FlushCompletes
    BY <1>16 DEF FlushCompletes
  <1>17. CASE FlushReturns
    BY <1>17 DEF FlushReturns, Goto
  <1>18. CASE ResolveCopies
    BY <1>18 DEF ResolveCopies, Goto
  <1>19. ASSUME NEW e \in Execs \cup Foreign, ResolveLooksUp(e)
        PROVE  WalkInQuarantine'
    BY <1>19 DEF ResolveLooksUp, Resolvable, RacedBy
  <1>20. CASE ResolveChecks
    BY <1>20 DEF ResolveChecks, Goto, CallEnds
  <1>21. CASE ResolveStages
    BY <1>21 DEF ResolveStages, Goto
  <1>22. CASE ResolveReplaces
    BY <1>22 DEF ResolveReplaces, Goto
  <1>23. ASSUME NEW n \in BrokerIds, MapGrows(n)
        PROVE  WalkInQuarantine'
    BY <1>23 DEF MapGrows
  <1>24. CASE StartAgain
    BY <1>24 DEF StartAgain
  <1>25. CASE UNCHANGED fillVars
    BY <1>25 DEF fillVars
  <1>26. QED
    BY <1>1, <1>2, <1>3, <1>4, <1>5, <1>6, <1>7, <1>8, <1>9, <1>10, <1>11, <1>12, <1>13,
       <1>14, <1>15, <1>16, <1>17, <1>18, <1>19, <1>20, <1>21, <1>22, <1>23, <1>24, <1>25
    DEF FillsNext, Callback, PopCommissionedExecution, FlushPendingExecutions, ResolveQuarantined

\* A commission is popped by a thread that goes on to complete the execution.
LEMMA CommissionStep ==
    ASSUME FillsShape, CommissionTaken, [FillsNext]_fillVars
    PROVE  CommissionTaken'
  <1> USE FillsAssumption DEF FillsTypeOK, FillsShape, Between, Points, Popping, Threads, shared,
                              threads, histories, CommissionTaken
  <1>1. ASSUME NEW r \in FillReaders, NEW e \in Foreign, OnExecutionForeign(r, e)
        PROVE  CommissionTaken'
    BY <1>1 DEF OnExecutionForeign, Quarantine
  <1>2. ASSUME NEW r \in FillReaders, NEW e \in Execs, OnExecution(r, e)
        PROVE  CommissionTaken'
    BY <1>2 DEF OnExecution, RacedBy
  <1>3. ASSUME NEW r \in FillReaders, LookUpOrder(r)
        PROVE  CommissionTaken'
    BY <1>3 DEF LookUpOrder, Goto, Resolvable
  <1>4. ASSUME NEW r \in FillReaders, QuarantineUnknown(r)
        PROVE  CommissionTaken'
    BY <1>4 DEF QuarantineUnknown, Quarantine, CallEnds
  <1>5. ASSUME NEW r \in FillReaders, Stage(r)
        PROVE  CommissionTaken'
    BY <1>5 DEF Stage, Goto
  <1>6. ASSUME NEW r \in FillReaders, AskCommission(r)
        PROVE  CommissionTaken'
    BY <1>6 DEF AskCommission, Goto, CallEnds
  <1>7. ASSUME NEW r \in FillReaders, NEW e \in Execs, OnCommission(r, e)
        PROVE  CommissionTaken'
    BY <1>7 DEF OnCommission, RacedBy
  <1>8. ASSUME NEW r \in FillReaders, ScanPending(r)
        PROVE  CommissionTaken'
    BY <1>8 DEF ScanPending, Goto, CallEnds
  <1>9. ASSUME NEW t \in Threads, GetExecution(t)
        PROVE  CommissionTaken'
    BY <1>9 DEF GetExecution, Goto, CallEnds
  <1>10. ASSUME NEW t \in Threads, GetCommission(t)
        PROVE  CommissionTaken'
    BY <1>10 DEF GetCommission, Goto, CallEnds
  <1>11. ASSUME NEW t \in Threads, PopExecution(t)
        PROVE  CommissionTaken'
    BY <1>11 DEF PopExecution, Goto, CallRaises
  <1>12. ASSUME NEW t \in Threads, PopCommission(t)
        PROVE  CommissionTaken'
    BY <1>12 DEF PopCommission, Goto, CallRaises
  <1>13. ASSUME NEW t \in Threads, Complete(t)
        PROVE  CommissionTaken'
    BY <1>13 DEF Complete, CallEnds
  <1>14. CASE FlushStarts
    BY <1>14 DEF FlushStarts, Goto, RacedBy
  <1>15. ASSUME NEW e \in Execs, FlushPops(e)
        PROVE  CommissionTaken'
    BY <1>15 DEF FlushPops, CallRaises
  <1>16. CASE FlushCompletes
    BY <1>16 DEF FlushCompletes
  <1>17. CASE FlushReturns
    BY <1>17 DEF FlushReturns, Goto
  <1>18. CASE ResolveCopies
    BY <1>18 DEF ResolveCopies, Goto
  <1>19. ASSUME NEW e \in Execs \cup Foreign, ResolveLooksUp(e)
        PROVE  CommissionTaken'
    BY <1>19 DEF ResolveLooksUp, Resolvable, RacedBy
  <1>20. CASE ResolveChecks
    BY <1>20 DEF ResolveChecks, Goto, CallEnds
  <1>21. CASE ResolveStages
    BY <1>21 DEF ResolveStages, Goto
  <1>22. CASE ResolveReplaces
    BY <1>22 DEF ResolveReplaces, Goto
  <1>23. ASSUME NEW n \in BrokerIds, MapGrows(n)
        PROVE  CommissionTaken'
    BY <1>23 DEF MapGrows
  <1>24. CASE StartAgain
    BY <1>24 DEF StartAgain
  <1>25. CASE UNCHANGED fillVars
    BY <1>25 DEF fillVars
  <1>26. QED
    BY <1>1, <1>2, <1>3, <1>4, <1>5, <1>6, <1>7, <1>8, <1>9, <1>10, <1>11, <1>12, <1>13,
       <1>14, <1>15, <1>16, <1>17, <1>18, <1>19, <1>20, <1>21, <1>22, <1>23, <1>24, <1>25
    DEF FillsNext, Callback, PopCommissionedExecution, FlushPendingExecutions, ResolveQuarantined

\* An execution leaves one place only for another, whichever threads race for it.
LEMMA RememberedStep ==
    ASSUME FillsShape, WalkInQuarantine, CommissionTaken, Remembered, [FillsNext]_fillVars
    PROVE  Remembered'
  <1> USE FillsAssumption DEF FillsTypeOK, FillsShape, Between, Points, Popping, Threads, shared,
                              threads, histories, WalkInQuarantine, Resolving, CommissionTaken,
                              Remembered, Kept, Parked, Holding
  <1>1. ASSUME NEW r \in FillReaders, NEW e \in Foreign, OnExecutionForeign(r, e)
        PROVE  Remembered'
    BY <1>1 DEF OnExecutionForeign, Quarantine
  <1>2. ASSUME NEW r \in FillReaders, NEW e \in Execs, OnExecution(r, e)
        PROVE  Remembered'
    BY <1>2 DEF OnExecution, RacedBy
  <1>3. ASSUME NEW r \in FillReaders, LookUpOrder(r)
        PROVE  Remembered'
    BY <1>3 DEF LookUpOrder, Goto, Resolvable
  <1>4. ASSUME NEW r \in FillReaders, QuarantineUnknown(r)
        PROVE  Remembered'
    BY <1>4 DEF QuarantineUnknown, Quarantine, CallEnds
  <1>5. ASSUME NEW r \in FillReaders, Stage(r)
        PROVE  Remembered'
    BY <1>5 DEF Stage, Goto
  <1>6. ASSUME NEW r \in FillReaders, AskCommission(r)
        PROVE  Remembered'
    BY <1>6 DEF AskCommission, Goto, CallEnds
  <1>7. ASSUME NEW r \in FillReaders, NEW e \in Execs, OnCommission(r, e)
        PROVE  Remembered'
    BY <1>7 DEF OnCommission, RacedBy
  <1>8. ASSUME NEW r \in FillReaders, ScanPending(r)
        PROVE  Remembered'
    BY <1>8 DEF ScanPending, Goto, CallEnds
  <1>9. ASSUME NEW t \in Threads, GetExecution(t)
        PROVE  Remembered'
    BY <1>9 DEF GetExecution, Goto, CallEnds
  <1>10. ASSUME NEW t \in Threads, GetCommission(t)
        PROVE  Remembered'
    BY <1>10 DEF GetCommission, Goto, CallEnds
  <1>11. ASSUME NEW t \in Threads, PopExecution(t)
        PROVE  Remembered'
    BY <1>11 DEF PopExecution, Goto, CallRaises
  <1>12. ASSUME NEW t \in Threads, PopCommission(t)
        PROVE  Remembered'
    BY <1>12 DEF PopCommission, Goto, CallRaises
  <1>13. ASSUME NEW t \in Threads, Complete(t)
        PROVE  Remembered'
    BY <1>13 DEF Complete, CallEnds
  <1>14. CASE FlushStarts
    BY <1>14 DEF FlushStarts, Goto, RacedBy
  <1>15. ASSUME NEW e \in Execs, FlushPops(e)
        PROVE  Remembered'
    BY <1>15 DEF FlushPops, CallRaises
  <1>16. CASE FlushCompletes
    BY <1>16 DEF FlushCompletes
  <1>17. CASE FlushReturns
    BY <1>17 DEF FlushReturns, Goto
  <1>18. CASE ResolveCopies
    BY <1>18 DEF ResolveCopies, Goto
  <1>19. ASSUME NEW e \in Execs \cup Foreign, ResolveLooksUp(e)
        PROVE  Remembered'
    BY <1>19 DEF ResolveLooksUp, Resolvable, RacedBy
  <1>20. CASE ResolveChecks
    BY <1>20 DEF ResolveChecks, Goto, CallEnds
  <1>21. CASE ResolveStages
    BY <1>21 DEF ResolveStages, Goto
  <1>22. CASE ResolveReplaces
    BY <1>22 DEF ResolveReplaces, Goto
  <1>23. ASSUME NEW n \in BrokerIds, MapGrows(n)
        PROVE  Remembered'
    BY <1>23 DEF MapGrows
  <1>24. CASE StartAgain
    BY <1>24 DEF StartAgain
  <1>25. CASE UNCHANGED fillVars
    BY <1>25 DEF fillVars
  <1>26. QED
    BY <1>1, <1>2, <1>3, <1>4, <1>5, <1>6, <1>7, <1>8, <1>9, <1>10, <1>11, <1>12, <1>13,
       <1>14, <1>15, <1>16, <1>17, <1>18, <1>19, <1>20, <1>21, <1>22, <1>23, <1>24, <1>25
    DEF FillsNext, Callback, PopCommissionedExecution, FlushPendingExecutions, ResolveQuarantined

\* A thread that takes up an execution another one has leaves it in the history.
LEMMA OneStep ==
    ASSUME FillsShape, OneAtATime, [FillsNext]_fillVars
    PROVE  OneAtATime'
  <1> USE FillsAssumption DEF FillsTypeOK, FillsShape, Between, Points, Popping, Threads, shared,
                              threads, histories, OneAtATime, Handles
  <1>1. ASSUME NEW r \in FillReaders, NEW e \in Foreign, OnExecutionForeign(r, e)
        PROVE  OneAtATime'
    BY <1>1 DEF OnExecutionForeign, Quarantine
  <1>2. ASSUME NEW r \in FillReaders, NEW e \in Execs, OnExecution(r, e)
        PROVE  OneAtATime'
    BY <1>2 DEF OnExecution, RacedBy
  <1>3. ASSUME NEW r \in FillReaders, LookUpOrder(r)
        PROVE  OneAtATime'
    BY <1>3 DEF LookUpOrder, Goto, Resolvable
  <1>4. ASSUME NEW r \in FillReaders, QuarantineUnknown(r)
        PROVE  OneAtATime'
    BY <1>4 DEF QuarantineUnknown, Quarantine, CallEnds
  <1>5. ASSUME NEW r \in FillReaders, Stage(r)
        PROVE  OneAtATime'
    BY <1>5 DEF Stage, Goto
  <1>6. ASSUME NEW r \in FillReaders, AskCommission(r)
        PROVE  OneAtATime'
    BY <1>6 DEF AskCommission, Goto, CallEnds
  <1>7. ASSUME NEW r \in FillReaders, NEW e \in Execs, OnCommission(r, e)
        PROVE  OneAtATime'
    BY <1>7 DEF OnCommission, RacedBy
  <1>8. ASSUME NEW r \in FillReaders, ScanPending(r)
        PROVE  OneAtATime'
    BY <1>8 DEF ScanPending, Goto, CallEnds
  <1>9. ASSUME NEW t \in Threads, GetExecution(t)
        PROVE  OneAtATime'
    BY <1>9 DEF GetExecution, Goto, CallEnds
  <1>10. ASSUME NEW t \in Threads, GetCommission(t)
        PROVE  OneAtATime'
    BY <1>10 DEF GetCommission, Goto, CallEnds
  <1>11. ASSUME NEW t \in Threads, PopExecution(t)
        PROVE  OneAtATime'
    BY <1>11 DEF PopExecution, Goto, CallRaises
  <1>12. ASSUME NEW t \in Threads, PopCommission(t)
        PROVE  OneAtATime'
    BY <1>12 DEF PopCommission, Goto, CallRaises
  <1>13. ASSUME NEW t \in Threads, Complete(t)
        PROVE  OneAtATime'
    BY <1>13 DEF Complete, CallEnds
  <1>14. CASE FlushStarts
    BY <1>14 DEF FlushStarts, Goto, RacedBy
  <1>15. ASSUME NEW e \in Execs, FlushPops(e)
        PROVE  OneAtATime'
    BY <1>15 DEF FlushPops, CallRaises
  <1>16. CASE FlushCompletes
    BY <1>16 DEF FlushCompletes
  <1>17. CASE FlushReturns
    BY <1>17 DEF FlushReturns, Goto
  <1>18. CASE ResolveCopies
    BY <1>18 DEF ResolveCopies, Goto
  <1>19. ASSUME NEW e \in Execs \cup Foreign, ResolveLooksUp(e)
        PROVE  OneAtATime'
    BY <1>19 DEF ResolveLooksUp, Resolvable, RacedBy
  <1>20. CASE ResolveChecks
    BY <1>20 DEF ResolveChecks, Goto, CallEnds
  <1>21. CASE ResolveStages
    BY <1>21 DEF ResolveStages, Goto
  <1>22. CASE ResolveReplaces
    BY <1>22 DEF ResolveReplaces, Goto
  <1>23. ASSUME NEW n \in BrokerIds, MapGrows(n)
        PROVE  OneAtATime'
    BY <1>23 DEF MapGrows
  <1>24. CASE StartAgain
    BY <1>24 DEF StartAgain
  <1>25. CASE UNCHANGED fillVars
    BY <1>25 DEF fillVars
  <1>26. QED
    BY <1>1, <1>2, <1>3, <1>4, <1>5, <1>6, <1>7, <1>8, <1>9, <1>10, <1>11, <1>12, <1>13,
       <1>14, <1>15, <1>16, <1>17, <1>18, <1>19, <1>20, <1>21, <1>22, <1>23, <1>24, <1>25
    DEF FillsNext, Callback, PopCommissionedExecution, FlushPendingExecutions, ResolveQuarantined

\* Between the test of the completed keys and the booking nobody else completes
\* an execution that was not raced for.
LEMMA AgainStep ==
    ASSUME FillsShape, OneAtATime, NotAgain, [FillsNext]_fillVars
    PROVE  NotAgain'
  <1> USE FillsAssumption DEF FillsTypeOK, FillsShape, Between, Points, Popping, Threads, shared,
                              threads, histories, OneAtATime, Handles, NotAgain, Flushing
  <1>1. ASSUME NEW r \in FillReaders, NEW e \in Foreign, OnExecutionForeign(r, e)
        PROVE  NotAgain'
    BY <1>1 DEF OnExecutionForeign, Quarantine
  <1>2. ASSUME NEW r \in FillReaders, NEW e \in Execs, OnExecution(r, e)
        PROVE  NotAgain'
    BY <1>2 DEF OnExecution, RacedBy
  <1>3. ASSUME NEW r \in FillReaders, LookUpOrder(r)
        PROVE  NotAgain'
    BY <1>3 DEF LookUpOrder, Goto, Resolvable
  <1>4. ASSUME NEW r \in FillReaders, QuarantineUnknown(r)
        PROVE  NotAgain'
    BY <1>4 DEF QuarantineUnknown, Quarantine, CallEnds
  <1>5. ASSUME NEW r \in FillReaders, Stage(r)
        PROVE  NotAgain'
    BY <1>5 DEF Stage, Goto
  <1>6. ASSUME NEW r \in FillReaders, AskCommission(r)
        PROVE  NotAgain'
    BY <1>6 DEF AskCommission, Goto, CallEnds
  <1>7. ASSUME NEW r \in FillReaders, NEW e \in Execs, OnCommission(r, e)
        PROVE  NotAgain'
    BY <1>7 DEF OnCommission, RacedBy
  <1>8. ASSUME NEW r \in FillReaders, ScanPending(r)
        PROVE  NotAgain'
    BY <1>8 DEF ScanPending, Goto, CallEnds
  <1>9. ASSUME NEW t \in Threads, GetExecution(t)
        PROVE  NotAgain'
    BY <1>9 DEF GetExecution, Goto, CallEnds
  <1>10. ASSUME NEW t \in Threads, GetCommission(t)
        PROVE  NotAgain'
    BY <1>10 DEF GetCommission, Goto, CallEnds
  <1>11. ASSUME NEW t \in Threads, PopExecution(t)
        PROVE  NotAgain'
    BY <1>11 DEF PopExecution, Goto, CallRaises
  <1>12. ASSUME NEW t \in Threads, PopCommission(t)
        PROVE  NotAgain'
    BY <1>12 DEF PopCommission, Goto, CallRaises
  <1>13. ASSUME NEW t \in Threads, Complete(t)
        PROVE  NotAgain'
    BY <1>13 DEF Complete, CallEnds
  <1>14. CASE FlushStarts
    BY <1>14 DEF FlushStarts, Goto, RacedBy
  <1>15. ASSUME NEW e \in Execs, FlushPops(e)
        PROVE  NotAgain'
    BY <1>15 DEF FlushPops, CallRaises
  <1>16. CASE FlushCompletes
    BY <1>16 DEF FlushCompletes
  <1>17. CASE FlushReturns
    BY <1>17 DEF FlushReturns, Goto
  <1>18. CASE ResolveCopies
    BY <1>18 DEF ResolveCopies, Goto
  <1>19. ASSUME NEW e \in Execs \cup Foreign, ResolveLooksUp(e)
        PROVE  NotAgain'
    BY <1>19 DEF ResolveLooksUp, Resolvable, RacedBy
  <1>20. CASE ResolveChecks
    BY <1>20 DEF ResolveChecks, Goto, CallEnds
  <1>21. CASE ResolveStages
    BY <1>21 DEF ResolveStages, Goto
  <1>22. CASE ResolveReplaces
    BY <1>22 DEF ResolveReplaces, Goto
  <1>23. ASSUME NEW n \in BrokerIds, MapGrows(n)
        PROVE  NotAgain'
    BY <1>23 DEF MapGrows
  <1>24. CASE StartAgain
    BY <1>24 DEF StartAgain
  <1>25. CASE UNCHANGED fillVars
    BY <1>25 DEF fillVars
  <1>26. QED
    BY <1>1, <1>2, <1>3, <1>4, <1>5, <1>6, <1>7, <1>8, <1>9, <1>10, <1>11, <1>12, <1>13,
       <1>14, <1>15, <1>16, <1>17, <1>18, <1>19, <1>20, <1>21, <1>22, <1>23, <1>24, <1>25
    DEF FillsNext, Callback, PopCommissionedExecution, FlushPendingExecutions, ResolveQuarantined

\* Only an execution that is not completed is booked.
LEMMA BookedStep ==
    ASSUME FillsShape, NotAgain, BookedOnce, [FillsNext]_fillVars
    PROVE  BookedOnce'
  <1> USE FillsAssumption DEF FillsTypeOK, FillsShape, Between, Points, Popping, Threads, shared,
                              threads, histories, NotAgain, BookedOnce
  <1>1. ASSUME NEW r \in FillReaders, NEW e \in Foreign, OnExecutionForeign(r, e)
        PROVE  BookedOnce'
    BY <1>1 DEF OnExecutionForeign, Quarantine
  <1>2. ASSUME NEW r \in FillReaders, NEW e \in Execs, OnExecution(r, e)
        PROVE  BookedOnce'
    BY <1>2 DEF OnExecution, RacedBy
  <1>3. ASSUME NEW r \in FillReaders, LookUpOrder(r)
        PROVE  BookedOnce'
    BY <1>3 DEF LookUpOrder, Goto, Resolvable
  <1>4. ASSUME NEW r \in FillReaders, QuarantineUnknown(r)
        PROVE  BookedOnce'
    BY <1>4 DEF QuarantineUnknown, Quarantine, CallEnds
  <1>5. ASSUME NEW r \in FillReaders, Stage(r)
        PROVE  BookedOnce'
    BY <1>5 DEF Stage, Goto
  <1>6. ASSUME NEW r \in FillReaders, AskCommission(r)
        PROVE  BookedOnce'
    BY <1>6 DEF AskCommission, Goto, CallEnds
  <1>7. ASSUME NEW r \in FillReaders, NEW e \in Execs, OnCommission(r, e)
        PROVE  BookedOnce'
    BY <1>7 DEF OnCommission, RacedBy
  <1>8. ASSUME NEW r \in FillReaders, ScanPending(r)
        PROVE  BookedOnce'
    BY <1>8 DEF ScanPending, Goto, CallEnds
  <1>9. ASSUME NEW t \in Threads, GetExecution(t)
        PROVE  BookedOnce'
    BY <1>9 DEF GetExecution, Goto, CallEnds
  <1>10. ASSUME NEW t \in Threads, GetCommission(t)
        PROVE  BookedOnce'
    BY <1>10 DEF GetCommission, Goto, CallEnds
  <1>11. ASSUME NEW t \in Threads, PopExecution(t)
        PROVE  BookedOnce'
    BY <1>11 DEF PopExecution, Goto, CallRaises
  <1>12. ASSUME NEW t \in Threads, PopCommission(t)
        PROVE  BookedOnce'
    BY <1>12 DEF PopCommission, Goto, CallRaises
  <1>13. ASSUME NEW t \in Threads, Complete(t)
        PROVE  BookedOnce'
    BY <1>13 DEF Complete, CallEnds
  <1>14. CASE FlushStarts
    BY <1>14 DEF FlushStarts, Goto, RacedBy
  <1>15. ASSUME NEW e \in Execs, FlushPops(e)
        PROVE  BookedOnce'
    BY <1>15 DEF FlushPops, CallRaises
  <1>16. CASE FlushCompletes
    BY <1>16 DEF FlushCompletes
  <1>17. CASE FlushReturns
    BY <1>17 DEF FlushReturns, Goto
  <1>18. CASE ResolveCopies
    BY <1>18 DEF ResolveCopies, Goto
  <1>19. ASSUME NEW e \in Execs \cup Foreign, ResolveLooksUp(e)
        PROVE  BookedOnce'
    BY <1>19 DEF ResolveLooksUp, Resolvable, RacedBy
  <1>20. CASE ResolveChecks
    BY <1>20 DEF ResolveChecks, Goto, CallEnds
  <1>21. CASE ResolveStages
    BY <1>21 DEF ResolveStages, Goto
  <1>22. CASE ResolveReplaces
    BY <1>22 DEF ResolveReplaces, Goto
  <1>23. ASSUME NEW n \in BrokerIds, MapGrows(n)
        PROVE  BookedOnce'
    BY <1>23 DEF MapGrows
  <1>24. CASE StartAgain
    BY <1>24 DEF StartAgain
  <1>25. CASE UNCHANGED fillVars
    BY <1>25 DEF fillVars
  <1>26. QED
    BY <1>1, <1>2, <1>3, <1>4, <1>5, <1>6, <1>7, <1>8, <1>9, <1>10, <1>11, <1>12, <1>13,
       <1>14, <1>15, <1>16, <1>17, <1>18, <1>19, <1>20, <1>21, <1>22, <1>23, <1>24, <1>25
    DEF FillsNext, Callback, PopCommissionedExecution, FlushPendingExecutions, ResolveQuarantined

\* Who stages an execution looks for its commission afterwards, and who stores a
\* commission looks for the execution.
LEMMA LookStep ==
    ASSUME FillsShape, PairNeverStranded, [FillsNext]_fillVars
    PROVE  PairNeverStranded'
  <1> USE FillsAssumption DEF FillsTypeOK, FillsShape, Between, Points, Popping, Threads, shared,
                              threads, histories, PairNeverStranded, StillLooks
  <1>1. ASSUME NEW r \in FillReaders, NEW e \in Foreign, OnExecutionForeign(r, e)
        PROVE  PairNeverStranded'
    BY <1>1 DEF OnExecutionForeign, Quarantine
  <1>2. ASSUME NEW r \in FillReaders, NEW e \in Execs, OnExecution(r, e)
        PROVE  PairNeverStranded'
    BY <1>2 DEF OnExecution, RacedBy
  <1>3. ASSUME NEW r \in FillReaders, LookUpOrder(r)
        PROVE  PairNeverStranded'
    BY <1>3 DEF LookUpOrder, Goto, Resolvable
  <1>4. ASSUME NEW r \in FillReaders, QuarantineUnknown(r)
        PROVE  PairNeverStranded'
    BY <1>4 DEF QuarantineUnknown, Quarantine, CallEnds
  <1>5. ASSUME NEW r \in FillReaders, Stage(r)
        PROVE  PairNeverStranded'
    BY <1>5 DEF Stage, Goto
  <1>6. ASSUME NEW r \in FillReaders, AskCommission(r)
        PROVE  PairNeverStranded'
    BY <1>6 DEF AskCommission, Goto, CallEnds
  <1>7. ASSUME NEW r \in FillReaders, NEW e \in Execs, OnCommission(r, e)
        PROVE  PairNeverStranded'
    BY <1>7 DEF OnCommission, RacedBy
  <1>8. ASSUME NEW r \in FillReaders, ScanPending(r)
        PROVE  PairNeverStranded'
    BY <1>8 DEF ScanPending, Goto, CallEnds
  <1>9. ASSUME NEW t \in Threads, GetExecution(t)
        PROVE  PairNeverStranded'
    BY <1>9 DEF GetExecution, Goto, CallEnds
  <1>10. ASSUME NEW t \in Threads, GetCommission(t)
        PROVE  PairNeverStranded'
    BY <1>10 DEF GetCommission, Goto, CallEnds
  <1>11. ASSUME NEW t \in Threads, PopExecution(t)
        PROVE  PairNeverStranded'
    BY <1>11 DEF PopExecution, Goto, CallRaises
  <1>12. ASSUME NEW t \in Threads, PopCommission(t)
        PROVE  PairNeverStranded'
    BY <1>12 DEF PopCommission, Goto, CallRaises
  <1>13. ASSUME NEW t \in Threads, Complete(t)
        PROVE  PairNeverStranded'
    BY <1>13 DEF Complete, CallEnds
  <1>14. CASE FlushStarts
    BY <1>14 DEF FlushStarts, Goto, RacedBy
  <1>15. ASSUME NEW e \in Execs, FlushPops(e)
        PROVE  PairNeverStranded'
    BY <1>15 DEF FlushPops, CallRaises
  <1>16. CASE FlushCompletes
    BY <1>16 DEF FlushCompletes
  <1>17. CASE FlushReturns
    BY <1>17 DEF FlushReturns, Goto
  <1>18. CASE ResolveCopies
    BY <1>18 DEF ResolveCopies, Goto
  <1>19. ASSUME NEW e \in Execs \cup Foreign, ResolveLooksUp(e)
        PROVE  PairNeverStranded'
    BY <1>19 DEF ResolveLooksUp, Resolvable, RacedBy
  <1>20. CASE ResolveChecks
    BY <1>20 DEF ResolveChecks, Goto, CallEnds
  <1>21. CASE ResolveStages
    BY <1>21 DEF ResolveStages, Goto
  <1>22. CASE ResolveReplaces
    BY <1>22 DEF ResolveReplaces, Goto
  <1>23. ASSUME NEW n \in BrokerIds, MapGrows(n)
        PROVE  PairNeverStranded'
    BY <1>23 DEF MapGrows
  <1>24. CASE StartAgain
    BY <1>24 DEF StartAgain
  <1>25. CASE UNCHANGED fillVars
    BY <1>25 DEF fillVars
  <1>26. QED
    BY <1>1, <1>2, <1>3, <1>4, <1>5, <1>6, <1>7, <1>8, <1>9, <1>10, <1>11, <1>12, <1>13,
       <1>14, <1>15, <1>16, <1>17, <1>18, <1>19, <1>20, <1>21, <1>22, <1>23, <1>24, <1>25
    DEF FillsNext, Callback, PopCommissionedExecution, FlushPendingExecutions, ResolveQuarantined

\* The inductive invariant of the fill normalizer.
THEOREM FillsInvariant == FillsSpec => []FillsInv
  <1>1. FillsInit => FillsInv
    BY FillsAssumption DEF FillsInit, FillsInv, FillsShape, FillsTypeOK, Between, Points, Popping,
       WalkInQuarantine, Resolving, CommissionTaken, Remembered, OneAtATime, Handles, NotAgain,
       Flushing, BookedOnce, PairNeverStranded
  <1>2. FillsInv /\ [FillsNext]_fillVars => FillsInv'
    BY ShapeStep, QuarantineStep, CommissionStep, RememberedStep, OneStep, AgainStep, BookedStep,
       LookStep DEF FillsInv
  <1>3. QED
    BY <1>1, <1>2, PTL DEF FillsSpec

\* An execution no two threads had at a time is booked once, for any threads.
THEOREM BookedOnceAlways == FillsSpec => []BookedOnce
  <1>1. FillsInv => BookedOnce
    BY DEF FillsInv
  <1>2. QED
    BY <1>1, FillsInvariant, PTL

\* No execution is forgotten but one quarantined while a resolve was under way,
\* whatever races the threads run.
THEOREM NoExecutionForgottenAlways == FillsSpec => []NoExecutionForgotten
  <1>1. FillsInv => NoExecutionForgotten
    BY DEF FillsInv, NoExecutionForgotten, Remembered, Kept, Parked, WalkInQuarantine
  <1>2. QED
    BY <1>1, FillsInvariant, PTL

\* An execution staged with its commission known is still being looked for.
THEOREM PairNeverStrandedAlways == FillsSpec => []PairNeverStranded
  <1>1. FillsInv => PairNeverStranded
    BY DEF FillsInv
  <1>2. QED
    BY <1>1, FillsInvariant, PTL

-----------------------------------------------------------------------------
(***************************************************************************)
(* Order statuses, openOrders and the order map.                           *)
(***************************************************************************)
StatusTexts == {s[1] : s \in Statuses}
RecordType == [id : Ids \cup {NoId}, perm : {"none", "zero", "own"},
               status : StatusTexts \cup OpenStatuses \cup {"unrecorded", "pending_submission"}]
StatusType == [id : Ids, status : StatusTexts, perm : {"zero", "own"}]

\* An openOrder about one of our orders tells the truth about its id.
OpenType ==
    {p \in [id : Ids \cup {NoId}, client : Clients \cup {NoClient}, status : OpenStatuses \cup ManualOrders] :
        p.client \in Clients => p.id \in Ids /\ p.client \in placed[p.id] /\ p.status \in OpenStatuses}

\* What a callback carries stays true while it waits in the quarantine or in the
\* list that resolve_quarantined walks.
MapInv ==
    /\ ExecutionTypeOK
    /\ \A r \in received : r[2] \in placed[r[1]]
    /\ pc \in {"requested", "placed"} => client \in Clients
    /\ pc = "placed" => orderId \in Ids /\ client \in placed[orderId]
    /\ quarStatus \in Seq(StatusType) /\ statusTodo \in Seq(StatusType) /\ statusKept \in Seq(StatusType)
    /\ quarOpen \subseteq OpenType /\ openTodo \subseteq OpenType /\ openKept \subseteq OpenType
    /\ RoutedToPlacer

\* on_order_status keeps every order's id, and marks a status as seen only
\* together with its report.
LEMMA OnOrderStatusDone ==
    ASSUME ExecutionTypeOK, NEW p \in StatusType, NEW done, done = OnOrderStatus(p)
    PROVE  /\ done.map \in [Clients -> RecordType]
           /\ \A c \in Clients : done.map[c].id = orderMap[c].id
           /\ \A k \in done.seen : Supported(k[2]) => k \in seenStatus \cup done.out
  <1> DEFINE known == ClientsOf(orderMap, p.id)
             c == CHOOSE d \in known : TRUE
             attached == [orderMap EXCEPT ![c].perm = p.perm]
             unchanged == [map |-> orderMap, seen |-> seenStatus, out |-> {}, result |-> "ok"]
             marked == [map |-> [attached EXCEPT ![c].status = p.status],
                        seen |-> seenStatus \cup {Key(p)},
                        out |-> IF Supported(p.status) THEN {Key(p)} ELSE {},
                        result |-> IF Supported(p.status) THEN "ok" ELSE "raised"]
  <1>1. orderMap \in [Clients -> RecordType]
    BY DEF ExecutionTypeOK, RecordType, StatusTexts
  <1>2. \/ done = unchanged \/ done = QuarantineStatus(p) \/ done = [unchanged EXCEPT !.result = "raised"]
        \/ known # {} /\ done = [unchanged EXCEPT !.map = attached]
        \/ known # {} /\ done = marked
    BY DEF OnOrderStatus
  <1>3. CASE done = unchanged \/ done = [unchanged EXCEPT !.result = "raised"] \/ done = QuarantineStatus(p)
    BY <1>1, <1>3 DEF QuarantineStatus
  <1>4. ASSUME known # {}
        PROVE  /\ attached \in [Clients -> RecordType]
               /\ \A d \in Clients : attached[d].id = orderMap[d].id
               /\ [attached EXCEPT ![c].status = p.status] \in [Clients -> RecordType]
               /\ \A d \in Clients : [attached EXCEPT ![c].status = p.status][d].id = orderMap[d].id
    <2>1. c \in Clients
      BY <1>4 DEF ClientsOf
    <2> HIDE DEF c
    <2>2. p.perm \in {"none", "zero", "own"} /\ p.status \in StatusTexts
      BY DEF StatusType
    <2>3. QED
      BY <1>1, <2>1, <2>2 DEF RecordType
  <1>5. CASE known # {} /\ done = [unchanged EXCEPT !.map = attached]
    <2>1. done.map = attached /\ done.seen = seenStatus
      BY <1>5
    <2>2. QED
      BY <1>4, <1>5, <2>1
  <1>6. CASE known # {} /\ done = marked
    <2>1. /\ done.map = [attached EXCEPT ![c].status = p.status]
          /\ done.seen = seenStatus \cup {Key(p)}
          /\ done.out = IF Supported(p.status) THEN {Key(p)} ELSE {}
      BY <1>6
    <2>2. Key(p)[2] = p.status
      BY DEF Key
    <2>3. QED
      BY <1>4, <1>6, <2>1, <2>2
  <1>7. QED
    BY <1>2, <1>3, <1>5, <1>6

\* on_open_order gives an order no id but the one it was placed under.
LEMMA OnOpenOrderDone ==
    ASSUME ExecutionTypeOK, RoutedToPlacer, NEW p \in OpenType, NEW done, done = OnOpenOrder(p)
    PROVE  /\ done.map \in [Clients -> RecordType]
           /\ \A c \in Clients : done.map[c].id # NoId => c \in placed[done.map[c].id]
  <1>1. orderMap \in [Clients -> RecordType]
    BY DEF ExecutionTypeOK, RecordType, StatusTexts
  <1>2. CASE done.map = orderMap
    BY <1>1, <1>2 DEF RoutedToPlacer
  <1>3. CASE done.map # orderMap
    <2>1. p.client \in Clients
          /\ done.map = [orderMap EXCEPT ![p.client] = [id |-> p.id, perm |-> "own", status |-> p.status]]
      BY <1>3 DEF OnOpenOrder, Recorded
    <2>2. p.id \in Ids /\ p.client \in placed[p.id] /\ p.status \in OpenStatuses
      BY <2>1 DEF OpenType
    <2>3. [id |-> p.id, perm |-> "own", status |-> p.status] \in RecordType
      BY <2>2 DEF RecordType
    <2>4. QED
      BY <1>1, <2>1, <2>2, <2>3 DEF RoutedToPlacer
  <1>4. QED
    BY <1>2, <1>3

\* The steps that leave the map and what the callbacks carry alone.
MapQuiet ==
    /\ UNCHANGED <<placed, received, orderMap, quarStatus, quarOpen, statusTodo, statusKept,
                   openTodo, openKept>>
    /\ \/ UNCHANGED <<pc, client, orderId>>
       \/ pc' \in {"idle", "waiting"} /\ client' \in {client, NoClient} /\ orderId' = orderId

LEMMA QuietKeepsMap ==
    ASSUME MapInv, MapQuiet
    PROVE  MapInv'
  BY DEF MapInv, MapQuiet, ExecutionTypeOK, OpenType, RoutedToPlacer

\* Submission: the mapping the driver records is of the order it has placed.
LEMMA SubmissionKeepsMap ==
    ASSUME MapInv,
           \/ \E c \in Clients : ToOrderRequest(c)
           \/ \E n \in Ids : PlaceOrder(n)
           \/ RecordSubmitted
    PROVE  MapInv'
  <1>1. ASSUME NEW c \in Clients, ToOrderRequest(c)
        PROVE  MapInv'
    BY <1>1 DEF MapInv, ExecutionTypeOK, OpenType, RoutedToPlacer, ToOrderRequest, normVars, quarVars, walkVars
  <1>2. ASSUME NEW n \in Ids, PlaceOrder(n)
        PROVE  MapInv'
    <2>1. client \in Clients
      BY <1>2 DEF MapInv, PlaceOrder
    <2>2. /\ placed' \in [Ids -> SUBSET Clients] /\ client \in placed'[n]
          /\ \A k \in Ids : placed[k] \subseteq placed'[k]
      BY <1>2, <2>1 DEF MapInv, ExecutionTypeOK, PlaceOrder
    <2>3. OpenType \subseteq OpenType'
      BY <2>2 DEF OpenType
    <2>4. received' \subseteq Ids \X Clients /\ \A r \in received' : r[2] \in placed'[r[1]]
      BY <1>2, <2>1, <2>2 DEF MapInv, ExecutionTypeOK, PlaceOrder
    <2>5. RoutedToPlacer'
      BY <1>2, <2>2 DEF MapInv, ExecutionTypeOK, RoutedToPlacer, PlaceOrder, normVars
    <2>6. ExecutionTypeOK'
      BY <1>2, <2>2, <2>4 DEF MapInv, ExecutionTypeOK, PlaceOrder, normVars
    <2>7. QED
      BY <1>2, <2>1, <2>2, <2>3, <2>4, <2>5, <2>6 DEF MapInv, PlaceOrder, quarVars, walkVars
  <1>3. CASE RecordSubmitted
    <2> DEFINE kept == [id |-> IF IdTaken(orderMap, client, orderId) THEN NoId ELSE orderId,
                        perm |-> "none", status |-> "pending_submission"]
    <2>1. client \in Clients /\ orderId \in Ids /\ client \in placed[orderId]
      BY <1>3 DEF MapInv, RecordSubmitted
    <2>2. orderMap' = [orderMap EXCEPT ![client] = kept]
      BY <1>3 DEF RecordSubmitted, RecordSubmittedOrder
    <2>3. kept \in RecordType /\ kept.id \in {NoId, orderId}
      BY <2>1 DEF RecordType
    <2>4. orderMap \in [Clients -> RecordType]
      BY DEF MapInv, ExecutionTypeOK, RecordType, StatusTexts
    <2> HIDE DEF kept
    <2>5. orderMap' \in [Clients -> RecordType] /\ RoutedToPlacer'
      BY <1>3, <2>1, <2>2, <2>3, <2>4 DEF MapInv, RoutedToPlacer, RecordSubmitted
    <2>6. ExecutionTypeOK'
      BY <1>3, <2>5 DEF MapInv, ExecutionTypeOK, RecordSubmitted, RecordType, StatusTexts
    <2>7. OpenType' = OpenType
      BY <1>3 DEF OpenType, RecordSubmitted
    <2>8. QED
      BY <1>3, <2>5, <2>6, <2>7 DEF MapInv, RecordSubmitted, quarVars, walkVars
  <1>4. QED
    BY <1>1, <1>2, <1>3

\* A callback, delivered by the reader or repeated by the driver.
LEMMA CallbackKeepsMap ==
    ASSUME MapInv,
           UNCHANGED <<placed, received, client, orderId>>,
           pc' \in {pc, "idle", "openOrders", "statuses"},
           orderMap' \in [Clients -> RecordType],
           \A c \in Clients : orderMap'[c].id # NoId => c \in placed[orderMap'[c].id],
           quarStatus' \in Seq(StatusType), statusTodo' \in Seq(StatusType), statusKept' \in Seq(StatusType),
           quarOpen' \subseteq OpenType, openTodo' \subseteq OpenType, openKept' \subseteq OpenType
    PROVE  MapInv'
  <1>1. ExecutionTypeOK'
    BY DEF MapInv, ExecutionTypeOK, RecordType, StatusTexts
  <1>2. OpenType' = OpenType
    BY DEF OpenType
  <1>3. QED
    BY <1>1, <1>2 DEF MapInv, RoutedToPlacer

\* The payloads the reader delivers are of their types.
LEMMA PayloadTypes ==
    ASSUME MapInv
    PROVE  StatusPayload \subseteq StatusType /\ OpenPayload \subseteq OpenType
  <1>1. ReceivedIds \subseteq Ids
    BY DEF MapInv, ExecutionTypeOK, ReceivedIds
  <1>2. \A s \in Statuses : s[1] \in StatusTexts /\ s[2] \in {"zero", "own"}
    BY ExecutionAssumption DEF StatusTexts
  <1>3. StatusPayload \subseteq StatusType
    BY <1>1, <1>2 DEF StatusPayload, StatusType
  <1>4. \A r \in received : r[1] \in Ids /\ r[2] \in Clients /\ r[2] \in placed[r[1]]
    BY DEF MapInv, ExecutionTypeOK
  <1>5. OpenPayload \subseteq OpenType
    BY <1>4, ExecutionAssumption DEF OpenPayload, OpenType
  <1>6. QED
    BY <1>3, <1>5

\* Callbacks on either thread, and the walks of resolve_quarantined.
LEMMA CallbacksKeepMap ==
    ASSUME MapInv,
           \/ \E p \in StatusPayload : HandleOrderStatus(p)
           \/ \E p \in OpenPayload : HandleOpenOrder(p)
           \/ \E p \in openTodo : ResolveOpenOrder(p)
           \/ ResolveStarts \/ ReplaceOpenOrders \/ ResolveOrderStatus \/ ReplaceOrderStatuses
    PROVE  MapInv'
  <1>1. orderMap \in [Clients -> RecordType]
    BY DEF MapInv, ExecutionTypeOK, RecordType, StatusTexts
  <1>2. \A c \in Clients : orderMap[c].id # NoId => c \in placed[orderMap[c].id]
    BY DEF MapInv, RoutedToPlacer
  <1>3. ASSUME NEW p \in StatusPayload, HandleOrderStatus(p)
        PROVE  MapInv'
    <2>1. p \in StatusType
      BY PayloadTypes
    <2>2. /\ orderMap' \in [Clients -> RecordType]
          /\ \A c \in Clients : orderMap'[c].id = orderMap[c].id
      BY <1>3, <2>1, OnOrderStatusDone DEF HandleOrderStatus, MapInv
    <2>3. quarStatus' \in Seq(StatusType)
      <3>1. quarStatus \in Seq(StatusType) /\ Append(quarStatus, p) \in Seq(StatusType)
        BY <2>1 DEF MapInv
      <3>2. quarStatus' \in {quarStatus, Append(quarStatus, p)}
        BY <1>3 DEF HandleOrderStatus
      <3>3. QED
        BY <3>1, <3>2
    <2>4. QED
      BY <1>2, <1>3, <2>2, <2>3, CallbackKeepsMap DEF HandleOrderStatus, MapInv, driverVars, walkVars
  <1>4. ASSUME NEW p \in OpenPayload, HandleOpenOrder(p)
        PROVE  MapInv'
    <2>1. p \in OpenType
      BY PayloadTypes
    <2>2. /\ orderMap' \in [Clients -> RecordType]
          /\ \A c \in Clients : orderMap'[c].id # NoId => c \in placed[orderMap'[c].id]
      BY <1>4, <2>1, OnOpenOrderDone DEF HandleOpenOrder, MapInv
    <2>3. quarOpen' \subseteq OpenType
      BY <1>4, <2>1 DEF HandleOpenOrder, MapInv
    <2>4. QED
      BY <1>4, <2>2, <2>3, CallbackKeepsMap DEF HandleOpenOrder, MapInv, driverVars, walkVars
  <1>5. ASSUME NEW p \in openTodo, ResolveOpenOrder(p)
        PROVE  MapInv'
    <2>1. p \in OpenType
      BY DEF MapInv
    <2>2. /\ orderMap' \in [Clients -> RecordType]
          /\ \A c \in Clients : orderMap'[c].id # NoId => c \in placed[orderMap'[c].id]
      BY <1>5, <2>1, OnOpenOrderDone DEF ResolveOpenOrder, MapInv
    <2>3. /\ openTodo' \subseteq OpenType /\ openKept' \subseteq OpenType
          /\ statusTodo' \in Seq(StatusType) /\ statusKept' \in Seq(StatusType)
          /\ pc' \in {pc, "idle"}
      <3>1. /\ openTodo' \in {{}, openTodo \ {p}} /\ openKept' \in {{}, openKept, openKept \cup {p}}
            /\ statusTodo' \in {<<>>, statusTodo} /\ statusKept' \in {<<>>, statusKept}
            /\ pc' \in {pc, "idle"}
        BY <1>5 DEF ResolveOpenOrder, WalkRaises
      <3>2. <<>> \in Seq(StatusType)
        OBVIOUS
      <3>3. QED
        BY <2>1, <3>1, <3>2 DEF MapInv
    <2>4. QED
      BY <1>5, <2>2, <2>3, CallbackKeepsMap DEF ResolveOpenOrder, MapInv, quarVars
  <1>6. CASE ResolveOrderStatus
    <2>1. Head(statusTodo) \in StatusType /\ Tail(statusTodo) \in Seq(StatusType)
      BY <1>6 DEF ResolveOrderStatus, MapInv
    <2>2. /\ orderMap' \in [Clients -> RecordType]
          /\ \A c \in Clients : orderMap'[c].id = orderMap[c].id
      BY <1>6, <2>1, OnOrderStatusDone DEF ResolveOrderStatus, MapInv
    <2>3. /\ openTodo' \subseteq OpenType /\ openKept' \subseteq OpenType
          /\ statusTodo' \in Seq(StatusType) /\ statusKept' \in Seq(StatusType)
          /\ pc' \in {pc, "idle"}
      <3> DEFINE p == Head(statusTodo)
      <3>1. /\ openTodo' \in {{}, openTodo} /\ openKept' \in {{}, openKept}
            /\ statusTodo' \in {<<>>, Tail(statusTodo)}
            /\ statusKept' \in {<<>>, statusKept, Append(statusKept, p)}
            /\ pc' \in {pc, "idle"}
        BY <1>6 DEF ResolveOrderStatus, WalkRaises
      <3>2. <<>> \in Seq(StatusType) /\ Append(statusKept, p) \in Seq(StatusType)
        BY <2>1 DEF MapInv
      <3>3. QED
        BY <2>1, <3>1, <3>2 DEF MapInv
    <2>4. QED
      BY <1>2, <1>6, <2>2, <2>3, CallbackKeepsMap DEF ResolveOrderStatus, MapInv, quarVars
  <1>7. CASE ResolveStarts \/ ReplaceOpenOrders \/ ReplaceOrderStatuses
    <2>1. /\ quarStatus' \in Seq(StatusType) /\ statusTodo' \in Seq(StatusType) /\ statusKept' \in Seq(StatusType)
          /\ quarOpen' \subseteq OpenType /\ openTodo' \subseteq OpenType /\ openKept' \subseteq OpenType
      BY <1>7 DEF ResolveStarts, ReplaceOpenOrders, ReplaceOrderStatuses, MapInv, quarVars
    <2>2. UNCHANGED <<placed, received, client, orderId, orderMap>> /\ pc' \in {"idle", "openOrders", "statuses"}
      BY <1>7 DEF ResolveStarts, ReplaceOpenOrders, ReplaceOrderStatuses, normVars
    <2>3. QED
      BY <1>1, <1>2, <2>1, <2>2, CallbackKeepsMap
  <1>8. QED
    BY <1>3, <1>4, <1>5, <1>6, <1>7

\* Every callback that is delivered, quarantined or walked over carries an id its
\* order was placed under, and the map holds no other.
THEOREM MapInvariant == Spec => []MapInv
  <1>1. Init => MapInv
    BY ExecutionAssumption DEF Init, MapInv, ExecutionTypeOK, RoutedToPlacer, NoRecord
  <1>2. MapInv /\ [Next]_vars => MapInv'
    <2> SUFFICES ASSUME MapInv, [Next]_vars
                 PROVE  MapInv'
      OBVIOUS
    <2>1. CASE MapQuiet
      BY <2>1, QuietKeepsMap
    <2>2. CASE Restart
      BY <2>2, ExecutionAssumption DEF Restart, MapInv, ExecutionTypeOK, RoutedToPlacer, NoRecord
    <2>3. CASE DriverThread
      <3>1. CASE SubmitRaises \/ WaitTakes \/ WaitTimesOut
        BY <3>1, QuietKeepsMap
        DEF MapQuiet, SubmitRaises, WaitTakes, WaitTimesOut, EndWait, normVars, quarVars, walkVars
      <3>2. ASSUME NEW w, StartWait(w)
            PROVE  MapInv'
        BY <3>2, QuietKeepsMap DEF MapQuiet, StartWait, normVars, quarVars, walkVars
      <3>3. QED
        BY <2>3, <3>1, <3>2, SubmissionKeepsMap, CallbacksKeepMap DEF DriverThread
    <2>4. CASE ReaderThread
      <3>1. ASSUME NEW x, HandleOther(x)
            PROVE  MapInv'
        BY <3>1, QuietKeepsMap DEF MapQuiet, HandleOther, driverVars, normVars, walkVars
      <3>2. ASSUME NEW event, Publish(event)
            PROVE  MapInv'
        BY <3>2, QuietKeepsMap DEF MapQuiet, Publish, driverVars, normVars, quarVars, walkVars
      <3>3. QED
        BY <2>4, <3>1, <3>2, CallbacksKeepMap DEF ReaderThread, PublishFill, HandleEvent
    <2>5. CASE UNCHANGED vars
      BY <2>5, QuietKeepsMap DEF MapQuiet, vars, driverVars, normVars, quarVars, walkVars
    <2>6. QED
      BY <2>2, <2>3, <2>4, <2>5 DEF Next
  <1>3. QED
    BY <1>1, <1>2, PTL DEF Spec

\* An order id leads to an order it was placed for, for any callbacks in any order.
THEOREM RoutedToPlacerAlways == Spec => []RoutedToPlacer
  <1>1. MapInv => RoutedToPlacer
    BY DEF MapInv
  <1>2. QED
    BY <1>1, MapInvariant, PTL

\* A status that counts as seen was reported or is being collected, unless a
\* resolve attempt raised.
THEOREM SeenMeansReportedAlways == Spec => []SeenMeansReported
  <1>1. Init => SeenMeansReported
    BY DEF Init, SeenMeansReported
  <1>2. MapInv /\ SeenMeansReported /\ [Next]_vars => SeenMeansReported'
    <2> SUFFICES ASSUME MapInv, SeenMeansReported, [Next]_vars
                 PROVE  SeenMeansReported'
      OBVIOUS
    <2>1. ASSUME NEW p \in StatusPayload, HandleOrderStatus(p)
          PROVE  SeenMeansReported'
      <3>1. p \in StatusType /\ ExecutionTypeOK
        BY PayloadTypes DEF MapInv
      <3>2. \A k \in OnOrderStatus(p).seen : Supported(k[2]) => k \in seenStatus \cup OnOrderStatus(p).out
        BY <3>1, OnOrderStatusDone
      <3>3. QED
        BY <2>1, <3>2 DEF HandleOrderStatus, SeenMeansReported, walkVars
    <2>2. CASE ResolveOrderStatus
      <3> DEFINE p == Head(statusTodo)
      <3>1. p \in StatusType /\ ExecutionTypeOK
        BY <2>2 DEF ResolveOrderStatus, MapInv
      <3>2. \A k \in OnOrderStatus(p).seen : Supported(k[2]) => k \in seenStatus \cup OnOrderStatus(p).out
        BY <3>1, OnOrderStatusDone
      <3>3. QED
        BY <2>2, <3>2 DEF ResolveOrderStatus, WalkRaises, SeenMeansReported, outVars
    <2>3. ASSUME NEW p, ResolveOpenOrder(p)
          PROVE  SeenMeansReported'
      BY <2>3 DEF ResolveOpenOrder, WalkRaises, SeenMeansReported, outVars
    <2>4. CASE ReplaceOrderStatuses
      BY <2>4 DEF ReplaceOrderStatuses, SeenMeansReported, normVars
    <2>5. CASE Restart
      BY <2>5 DEF Restart, SeenMeansReported
    <2>6. CASE UNCHANGED <<seenStatus, passedOn, collected, raised>>
      BY <2>6 DEF SeenMeansReported
    <2>7. CASE DriverThread
      BY <2>2, <2>3, <2>4, <2>6, <2>7
      DEF DriverThread, ToOrderRequest, PlaceOrder, SubmitRaises, RecordSubmitted, ResolveStarts,
          ReplaceOpenOrders, StartWait, WaitTakes, WaitTimesOut, normVars, walkVars, outVars
    <2>8. CASE ReaderThread
      BY <2>1, <2>6, <2>8
      DEF ReaderThread, HandleOpenOrder, HandleOther, PublishFill, HandleEvent, Publish, normVars,
          walkVars, outVars
    <2>9. QED
      BY <2>5, <2>6, <2>7, <2>8 DEF Next, vars, normVars, walkVars, outVars
  <1>3. QED
    BY <1>1, <1>2, MapInvariant, PTL DEF Spec
=============================================================================
