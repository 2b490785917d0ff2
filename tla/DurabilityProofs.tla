--------------------------- MODULE DurabilityProofs ---------------------------
(***************************************************************************)
(* A log that recovery accepts is complete and in order, and the drill     *)
(* that replays it recovers exactly the actors whose last change its one   *)
(* sequence number does not hide; for any number of stores and actors, any *)
(* events and a file of any length.                                        *)
(***************************************************************************)
EXTENDS Durability, WellFoundedInduction, TLAPS

\* A non-empty set of numbers up to n has a largest one.
LEMMA LargestExists ==
    ASSUME NEW n \in Nat, NEW S, S \subseteq 0..n, S # {}
    PROVE  \E x \in S : \A y \in S : y <= x
<1> DEFINE T == {n - x : x \in S}
<1>1. T \subseteq Nat /\ T # {}
  <2>1. \A x \in S : n - x \in Nat
    OBVIOUS
  <2>2. PICK x \in S : TRUE
    OBVIOUS
  <2>3. n - x \in T
    OBVIOUS
  <2> QED BY <2>1, <2>3
<1> DEFINE R == OpToRel(<, Nat)
<1>2. IsWellFoundedOn(R, Nat)
  BY NatLessThanWellFounded
<1>3. \E t \in T : \A u \in T : ~(<<u, t>> \in R)
  <2> HIDE DEF R, T
  <2> QED BY <1>1, <1>2, WFMin
<1>4. PICK t \in T : \A u \in T : ~(<<u, t>> \in R)
  BY <1>3
<1>5. PICK x \in S : t = n - x
  OBVIOUS
<1>6. ASSUME NEW y \in S PROVE y <= x
  <2>1. n - y \in T /\ n - y \in Nat /\ n - x \in Nat
    OBVIOUS
  <2>2. ~(<<n - y, n - x>> \in R)
    BY <1>4, <1>5, <2>1
  <2>3. ~(n - y < n - x)
    BY <2>1, <2>2 DEF OpToRel
  <2> QED BY <2>3
<1> QED BY <1>6

(***************************************************************************)
(* The inductive invariant.  While every line parses, no line's number and *)
(* no open store's counter is ahead of the file, so a store that is not up *)
(* to date repeats a number that is there; and nothing acknowledged is     *)
(* lost.  A line that does not parse stays, so the rest needs no promise.  *)
(***************************************************************************)
InOrder == \A i \in DOMAIN lines : lines[i].sequence = i

Repeats ==
    \E i, j \in DOMAIN lines : i # j /\ lines[i].sequence = lines[j].sequence

Numbered ==
    /\ \A i \in DOMAIN lines : lines[i] \in Record /\ lines[i].sequence <= i
    /\ \A s \in Stores : nextSequence[s] <= Len(lines) + 1
    /\ InOrder \/ Repeats
    /\ \A k \in DOMAIN acked : \E i \in DOMAIN lines : lines[i] = acked[k]

StoreInv ==
    /\ StoreTypeOK
    /\ ~ended => lines # <<>>
    /\ Readable => Numbered

\* The highest number is one of the file's, and the file is at least as long
\* (_highest_sequence).
LEMMA HighestBounded ==
    ASSUME StoreInv, Readable
    PROVE  HighestSequence \in 0..Len(lines)
<1>1. \A i \in DOMAIN lines : lines[i].sequence \in Nat /\ lines[i].sequence <= i
  BY DEF StoreInv, Numbered, Record
<1>2. DOMAIN lines = 1..Len(lines) /\ Len(lines) \in Nat
  BY DEF StoreInv, StoreTypeOK
<1>3. PersistedSequences \cup {0} \subseteq 0..Len(lines)
  BY <1>1, <1>2 DEF PersistedSequences
<1>4. \E x \in PersistedSequences \cup {0} : \A y \in PersistedSequences \cup {0} : y <= x
  BY <1>2, <1>3, LargestExists
<1>5. HighestSequence \in PersistedSequences \cup {0}
  BY <1>4 DEF HighestSequence
<1> QED BY <1>3, <1>5

\* A line that does not parse never goes away.
LEMMA BrokenStays ==
    ASSUME StoreInv, NEW line, NEW newline \in BOOLEAN, Write(line, newline), Readable'
    PROVE  Readable /\ ended /\ lines' = Append(lines, line)
<1>1. lines \in Seq(Record \cup {BrokenLine}) /\ (~ended => lines # <<>>)
  BY DEF StoreInv, StoreTypeOK
<1>2. ASSUME ~ended PROVE FALSE
  <2>1. Len(lines) \in DOMAIN lines
    BY <1>1, <1>2
  <2>2. lines'[Len(lines)] = BrokenLine /\ DOMAIN lines' = DOMAIN lines
    BY <1>1, <1>2, <2>1 DEF Write
  <2> QED BY <2>1, <2>2 DEF Readable
<1>3. ended /\ lines' = Append(lines, line)
  BY <1>2 DEF Write
<1>4. \A i \in DOMAIN lines : i \in DOMAIN lines' /\ lines'[i] = lines[i]
  BY <1>1, <1>3
<1> QED BY <1>3, <1>4 DEF Readable

\* A line with the counter of a store goes on with the numbering or repeats a
\* number that is there (append).
LEMMA NumberingGoesOn ==
    ASSUME StoreInv, Readable, NEW s \in Stores, NEW e \in Events, nextSequence[s] # 0,
           lines' = Append(lines, [sequence |-> nextSequence[s], event |-> e])
    PROVE  /\ \A i \in DOMAIN lines' : lines'[i] \in Record /\ lines'[i].sequence <= i
           /\ (InOrder \/ Repeats)'
           /\ Len(lines') = Len(lines) + 1
<1> DEFINE n == nextSequence[s]
           line == [sequence |-> n, event |-> e]
<1>1. /\ lines \in Seq(Record \cup {BrokenLine}) /\ Len(lines) \in Nat
      /\ n \in Nat /\ n # 0 /\ n <= Len(lines) + 1
  BY DEF StoreInv, StoreTypeOK, Numbered
<1>2. line \in Record
  BY <1>1 DEF Record
<1>3. /\ DOMAIN lines = 1..Len(lines) /\ DOMAIN lines' = 1..(Len(lines) + 1)
      /\ Len(lines') = Len(lines) + 1
      /\ \A i \in DOMAIN lines : lines'[i] = lines[i]
      /\ lines'[Len(lines) + 1] = line
  BY <1>1, <1>2
<1>4. \A i \in DOMAIN lines : lines[i] \in Record /\ lines[i].sequence <= i
  BY DEF StoreInv, Numbered
<1>5. ASSUME NEW i \in DOMAIN lines' PROVE lines'[i] \in Record /\ lines'[i].sequence <= i
  <2>1. CASE i = Len(lines) + 1
    BY <1>1, <1>2, <1>3, <2>1
  <2>2. CASE i # Len(lines) + 1
    BY <1>1, <1>3, <1>4, <2>2
  <2> QED BY <2>1, <2>2
<1>6. (InOrder \/ Repeats)'
  <2>1. CASE Repeats
    <3>1. PICK i \in DOMAIN lines, j \in DOMAIN lines :
               i # j /\ lines[i].sequence = lines[j].sequence
      BY <2>1 DEF Repeats
    <3>2. i \in DOMAIN lines' /\ j \in DOMAIN lines' /\ lines'[i].sequence = lines'[j].sequence
      BY <1>1, <1>3, <3>1
    <3> QED BY <3>1, <3>2 DEF Repeats
  <2>2. CASE InOrder /\ n = Len(lines) + 1
    <3>1. ASSUME NEW i \in DOMAIN lines' PROVE lines'[i].sequence = i
      BY <1>1, <1>3, <2>2 DEF InOrder
    <3> QED BY <3>1 DEF InOrder
  <2>3. CASE InOrder /\ n # Len(lines) + 1
    <3>1. n \in DOMAIN lines
      BY <1>1, <1>3, <2>3
    <3>2. lines'[n].sequence = n /\ lines'[Len(lines) + 1].sequence = n
      BY <1>3, <2>3, <3>1 DEF InOrder
    <3>3. n \in DOMAIN lines' /\ Len(lines) + 1 \in DOMAIN lines' /\ n # Len(lines) + 1
      BY <1>1, <1>3, <2>3, <3>1
    <3> QED BY <3>2, <3>3 DEF Repeats
  <2> QED BY <2>1, <2>2, <2>3 DEF StoreInv, Numbered
<1> QED BY <1>3, <1>5, <1>6

\* What a write puts into the file keeps its type (append).
LEMMA WriteTyped ==
    ASSUME StoreInv, NEW line \in Record \cup {BrokenLine}, NEW newline \in BOOLEAN,
           Write(line, newline)
    PROVE  /\ lines' \in Seq(Record \cup {BrokenLine}) /\ ended' \in BOOLEAN
           /\ lines' # <<>>
<1>1. lines \in Seq(Record \cup {BrokenLine}) /\ (~ended => lines # <<>>)
  BY DEF StoreInv, StoreTypeOK
<1>2. CASE ended
  BY <1>1, <1>2 DEF Write
<1>3. CASE ~ended
  <2>1. Len(lines) \in DOMAIN lines
    BY <1>1, <1>3
  <2> QED BY <1>1, <1>3, <2>1 DEF Write
<1> QED BY <1>2, <1>3

\* Every operation of every store keeps the invariant.
LEMMA StoreInvStep ==
    ASSUME StoreInv, [StoreNext]_storeVars
    PROVE  StoreInv'
<1>0. StoreTypeOK
  BY DEF StoreInv
<1>1. CASE UNCHANGED storeVars
  BY <1>1 DEF storeVars, StoreInv, StoreTypeOK, Readable, Numbered, InOrder, Repeats
<1>2. ASSUME NEW s \in Stores, Open(s) PROVE StoreInv'
  <2>1. Readable /\ HighestSequence \in 0..Len(lines) /\ Len(lines) \in Nat
    BY <1>0, <1>2, HighestBounded DEF Open, StoreTypeOK
  <2>2. StoreTypeOK'
    BY <1>0, <1>2, <2>1 DEF Open, StoreTypeOK
  <2>3. Numbered
    BY <2>1 DEF StoreInv
  <2>4. \A t \in Stores : nextSequence'[t] <= Len(lines') + 1
    BY <1>0, <1>2, <2>1, <2>3 DEF Open, Numbered, StoreTypeOK
  <2>5. Numbered'
    BY <1>2, <2>3, <2>4 DEF Open, Numbered, InOrder, Repeats
  <2> QED BY <1>2, <2>2, <2>5 DEF StoreInv, Open
<1>3. ASSUME NEW s \in Stores, Close(s) PROVE StoreInv'
  <2>1. StoreTypeOK'
    BY <1>0, <1>3, StoreAssumption DEF Close, StoreTypeOK
  <2> QED BY <1>3, <2>1 DEF Close, StoreInv, Readable, Numbered, InOrder, Repeats
<1>4. ASSUME NEW s \in Stores, Drop(s) PROVE StoreInv'
  <2>1. StoreTypeOK'
    BY <1>0, <1>4, StoreAssumption DEF Drop, StoreTypeOK
  <2>2. Readable' <=> Readable
    BY <1>4 DEF Drop, Readable
  <2>3. Len(lines) \in Nat
    BY <1>0 DEF StoreTypeOK
  <2>4. Numbered => \A t \in Stores : nextSequence'[t] <= Len(lines') + 1
    BY <1>0, <1>4, <2>3 DEF Drop, Numbered, StoreTypeOK
  <2>5. Numbered => Numbered'
    BY <1>4, <2>4 DEF Drop, Numbered, InOrder, Repeats
  <2> QED BY <1>4, <2>1, <2>2, <2>5 DEF StoreInv, Drop
<1>5. ASSUME NEW s \in Stores, NEW e \in Events, AppendEvent(s, e) PROVE StoreInv'
  <2> DEFINE line == [sequence |-> nextSequence[s], event |-> e]
  <2>1. nextSequence[s] \in Nat \ {0}
    BY <1>0, <1>5 DEF AppendEvent, Lock, StoreTypeOK
  <2>2. line \in Record
    BY <2>1 DEF Record
  <2>3. lines' \in Seq(Record \cup {BrokenLine}) /\ ended' \in BOOLEAN /\ lines' # <<>>
    BY <1>5, <2>2, WriteTyped DEF AppendEvent
  <2>4. acked' = Append(acked, line) /\ acked' \in Seq(Record)
    BY <1>0, <1>5, <2>2 DEF AppendEvent, StoreTypeOK
  <2>5. StoreTypeOK'
    BY <1>0, <1>5, <2>1, <2>3, <2>4 DEF AppendEvent, Lock, StoreTypeOK
  <2>6. ASSUME Readable' PROVE Numbered'
    <3>1. Readable /\ lines' = Append(lines, line)
      BY <1>5, <2>6, BrokenStays DEF AppendEvent
    <3>2. /\ \A i \in DOMAIN lines' : lines'[i] \in Record /\ lines'[i].sequence <= i
          /\ (InOrder \/ Repeats)'
          /\ Len(lines') = Len(lines) + 1
      BY <2>1, <3>1, NumberingGoesOn
    <3>3. Numbered /\ Len(lines) \in Nat
      BY <1>0, <3>1 DEF StoreInv, StoreTypeOK
    <3>4. \A t \in Stores : nextSequence'[t] <= Len(lines') + 1
      BY <1>0, <1>5, <3>2, <3>3 DEF AppendEvent, Numbered, StoreTypeOK
    <3>5. ASSUME NEW k \in DOMAIN acked' PROVE \E i \in DOMAIN lines' : lines'[i] = acked'[k]
      <4>1. /\ acked \in Seq(Record) /\ lines \in Seq(Record \cup {BrokenLine})
        BY <1>0 DEF StoreTypeOK
      <4>2. CASE k \in DOMAIN acked
        <5>1. acked'[k] = acked[k]
          BY <2>4, <4>1, <4>2
        <5>2. PICK i \in DOMAIN lines : lines[i] = acked[k]
          BY <3>3, <4>2 DEF Numbered
        <5>3. i \in DOMAIN lines' /\ lines'[i] = lines[i]
          BY <3>1, <4>1, <5>2
        <5> QED BY <5>1, <5>2, <5>3
      <4>3. CASE k \notin DOMAIN acked
        <5>1. acked'[k] = line
          BY <2>4, <4>1, <4>3
        <5>2. Len(lines) + 1 \in DOMAIN lines' /\ lines'[Len(lines) + 1] = line
          BY <3>1, <4>1
        <5> QED BY <5>1, <5>2
      <4> QED BY <4>2, <4>3
    <3> QED BY <3>2, <3>4, <3>5 DEF Numbered
  <2> QED BY <2>3, <2>5, <2>6 DEF StoreInv
<1>6. ASSUME NEW s \in Stores, NEW e \in Events, TornAppend(s, e) PROVE StoreInv'
  <2> DEFINE whole == [sequence |-> nextSequence[s], event |-> e]
  <2>1. nextSequence[s] \in Nat \ {0}
    BY <1>0, <1>6 DEF TornAppend, Lock, StoreTypeOK
  <2>2. whole \in Record
    BY <2>1 DEF Record
  <2>3. PICK line \in {BrokenLine, whole} : Write(line, FALSE)
    BY <1>6 DEF TornAppend
  <2>4. lines' \in Seq(Record \cup {BrokenLine}) /\ ended' \in BOOLEAN /\ lines' # <<>>
    BY <2>2, <2>3, WriteTyped
  <2>5. StoreTypeOK'
    BY <1>0, <1>6, <2>1, <2>4 DEF TornAppend, Lock, StoreTypeOK
  <2>6. ASSUME Readable' PROVE Numbered'
    <3>1. Readable /\ lines' = Append(lines, line) /\ lines \in Seq(Record \cup {BrokenLine})
      BY <1>0, <2>3, <2>6, BrokenStays DEF StoreTypeOK
    <3>2. line = whole
      <4>1. Len(lines) + 1 \in DOMAIN lines' /\ lines'[Len(lines) + 1] = line
        BY <3>1
      <4> QED BY <2>3, <2>6, <4>1 DEF Readable
    <3>3. /\ \A i \in DOMAIN lines' : lines'[i] \in Record /\ lines'[i].sequence <= i
          /\ (InOrder \/ Repeats)'
          /\ Len(lines') = Len(lines) + 1
      BY <2>1, <3>1, <3>2, NumberingGoesOn
    <3>4. Numbered /\ Len(lines) \in Nat
      BY <3>1 DEF StoreInv
    <3>5. \A t \in Stores : nextSequence'[t] <= Len(lines') + 1
      BY <1>0, <1>6, <3>3, <3>4 DEF TornAppend, Numbered, StoreTypeOK
    <3>6. ASSUME NEW k \in DOMAIN acked' PROVE \E i \in DOMAIN lines' : lines'[i] = acked'[k]
      <4>1. acked' = acked
        BY <1>6 DEF TornAppend
      <4>2. PICK i \in DOMAIN lines : lines[i] = acked[k]
        BY <3>4, <4>1 DEF Numbered
      <4>3. i \in DOMAIN lines' /\ lines'[i] = lines[i]
        BY <3>1, <4>2
      <4> QED BY <4>1, <4>2, <4>3
    <3> QED BY <3>3, <3>5, <3>6 DEF Numbered
  <2> QED BY <2>4, <2>5, <2>6 DEF StoreInv
<1> QED BY <1>1, <1>2, <1>3, <1>4, <1>5, <1>6 DEF StoreNext

\* A new log satisfies the invariant.
LEMMA StoreInvInit == StoreInit => StoreInv
<1> SUFFICES ASSUME StoreInit PROVE StoreInv
  OBVIOUS
<1>1. lines = <<>> /\ acked = <<>> /\ DOMAIN lines = {} /\ DOMAIN acked = {} /\ Len(lines) = 0
  BY DEF StoreInit
<1>2. StoreTypeOK
  BY <1>1 DEF StoreInit, StoreTypeOK
<1>3. Numbered
  BY <1>1 DEF StoreInit, Numbered, InOrder
<1> QED BY <1>2, <1>3 DEF StoreInit, StoreInv

-----------------------------------------------------------------------------
\* The store's counters, lock and file are well typed (FileEventStore).
THEOREM StoreTypeCorrect == StoreSpec => []StoreTypeOK
<1>1. StoreInv => StoreTypeOK
  BY DEF StoreInv
<1> QED BY <1>1, StoreInvInit, StoreInvStep, PTL DEF StoreSpec

\* A log without gaps and duplicates is complete and in order, for any number
\* of stores, stale or not, and any torn writes (validate_sequence).
THEOREM StoreAllowedMeansComplete == StoreSpec => []AllowedMeansComplete
<1>1. StoreInv => AllowedMeansComplete
  <2> SUFFICES ASSUME StoreInv, RecoveryAllowed PROVE AllowedMeansComplete
    BY DEF AllowedMeansComplete
  <2>1. Numbered
    BY DEF RecoveryAllowed, StoreInv
  <2>2. ~Repeats
    BY DEF RecoveryAllowed, DuplicateSequences, Repeats, PersistedSequences
  <2> QED BY <2>1, <2>2 DEF Numbered, InOrder, AllowedMeansComplete
<1> QED BY <1>1, StoreInvInit, StoreInvStep, PTL DEF StoreSpec

-----------------------------------------------------------------------------

(***************************************************************************)
(* The drill on top of the event store.  While the log is readable and in  *)
(* order it holds the versions of every actor in the order they were       *)
(* reached, the last of them the actor's state, and the end of the log     *)
(* when a snapshot was saved divides the actor's changes into those it     *)
(* holds and later ones, whatever number the session gave it.              *)
(***************************************************************************)
ChangesOf(a) == {i \in DOMAIN lines : lines[i].event # NoState /\ lines[i].event.actor = a}
Version(i) == lines[i].event.version

VersionsLogged ==
    \A a \in ActorIds :
        /\ \A i \in ChangesOf(a) : Version(i) \in 1..live[a]
        /\ \A i, j \in ChangesOf(a) : i < j => Version(i) < Version(j)
        /\ live[a] # 0 => \E i \in ChangesOf(a) : Version(i) = live[a]

SnapshotsMark ==
    \A a \in ActorIds :
        /\ snapshots[a].version <= live[a]
        /\ savedAt[a] <= Len(lines)
        /\ \A i \in ChangesOf(a) : i <= savedAt[a] <=> Version(i) <= snapshots[a].version

LogInv == Readable /\ InOrder => VersionsLogged /\ SnapshotsMark

\* Every step of the drill is a step of its event store, or leaves it alone.
LEMMA DrillStepsStore ==
    ASSUME DurabilityTypeOK, [DurabilityNext]_durabilityVars
    PROVE  [StoreNext]_storeVars
<1>1. ASSUME NEW s \in Stores, NEW a \in ActorIds, Change(s, a) PROVE StoreNext
  <2>1. live[a] \in 0..MaxVersion /\ live[a] < MaxVersion /\ MaxVersion \in Nat
    BY <1>1, DurabilityAssumption DEF Change, DurabilityTypeOK
  <2>2. [actor |-> a, version |-> live[a] + 1] \in StateEvent
    BY <2>1 DEF StateEvent
  <2>3. [actor |-> a, version |-> live[a] + 1] \in Events
    BY <2>2, DurabilityAssumption
  <2> QED BY <1>1, <2>3 DEF Change, StoreNext
<1>2. NoState \in Events
  BY DurabilityAssumption
<1>3. ASSUME NEW s \in Stores, WriteWithoutState(s) \/ StoreStep(s) \/ EndSession(s)
      PROVE  StoreNext
  BY <1>2, <1>3 DEF WriteWithoutState, StoreStep, EndSession, StoreNext
<1>4. ASSUME NEW s \in Stores, NEW a \in ActorIds, NEW b \in BOOLEAN, SaveSnapshot(s, a, b)
      PROVE  UNCHANGED storeVars
  BY <1>4 DEF SaveSnapshot
<1>5. ASSUME NEW s \in Stores, WriteRefused(s) PROVE UNCHANGED storeVars
  BY <1>5 DEF WriteRefused
<1> QED BY <1>1, <1>3, <1>4, <1>5 DEF DurabilityNext, durabilityVars

\* Every step keeps the drill well typed.
LEMMA DrillTypeStep ==
    ASSUME StoreInv, DurabilityTypeOK, [DurabilityNext]_durabilityVars
    PROVE  DurabilityTypeOK'
<1>1. StoreTypeOK'
  BY DrillStepsStore, StoreInvStep DEF StoreInv
<1>2. live' \in [ActorIds -> 0..MaxVersion]
  <2>1. ASSUME NEW s \in Stores, NEW a \in ActorIds, Change(s, a)
        PROVE  live' \in [ActorIds -> 0..MaxVersion]
    BY <2>1, DurabilityAssumption DEF Change, DurabilityTypeOK
  <2> QED BY <2>1 DEF DurabilityNext, WriteWithoutState, WriteRefused, StoreStep, EndSession,
                      SaveSnapshot, durabilityVars, DurabilityTypeOK
<1>3. written' \in [Stores -> 0..MaxWritten]
  <2>1. ASSUME NEW s \in Stores, Counted(s) PROVE written' \in [Stores -> 0..MaxWritten]
    BY <2>1, DurabilityAssumption DEF Counted, DurabilityTypeOK
  <2>2. ASSUME NEW s \in Stores, EndSession(s) PROVE written' \in [Stores -> 0..MaxWritten]
    BY <2>2, DurabilityAssumption DEF EndSession, DurabilityTypeOK
  <2> QED BY <2>1, <2>2 DEF DurabilityNext, Change, WriteWithoutState, WriteRefused, StoreStep,
                            SaveSnapshot, durabilityVars, DurabilityTypeOK
<1>4. snapshots' \in [ActorIds -> Snapshot] /\ savedAt' \in [ActorIds -> Nat]
  <2>1. ASSUME NEW s \in Stores, NEW a \in ActorIds, NEW b \in BOOLEAN, SaveSnapshot(s, a, b)
        PROVE  snapshots' \in [ActorIds -> Snapshot] /\ savedAt' \in [ActorIds -> Nat]
    <3>1. written[s] \in 0..MaxWritten /\ live[a] \in 0..MaxVersion /\ Len(lines) \in Nat
      BY DEF DurabilityTypeOK, StoreTypeOK
    <3>2. [version |-> live[a], last_sequence |-> written[s], supported |-> b] \in Snapshot
      BY <3>1 DEF Snapshot
    <3> QED BY <2>1, <3>1, <3>2 DEF SaveSnapshot, Save, DurabilityTypeOK
  <2> QED BY <2>1 DEF DurabilityNext, Change, WriteWithoutState, WriteRefused, StoreStep,
                      EndSession, durabilityVars, DurabilityTypeOK
<1> QED BY <1>1, <1>2, <1>3, <1>4 DEF DurabilityTypeOK

\* A write after which the log is still readable and in order added one line
\* with the next number (append).
LEMMA LogGrows ==
    ASSUME StoreInv, NEW line \in Record \cup {BrokenLine}, NEW newline \in BOOLEAN,
           Write(line, newline), Readable', InOrder'
    PROVE  /\ Readable /\ InOrder
           /\ lines \in Seq(Record \cup {BrokenLine}) /\ Len(lines) \in Nat
           /\ DOMAIN lines = 1..Len(lines) /\ DOMAIN lines' = 1..(Len(lines) + 1)
           /\ Len(lines') = Len(lines) + 1
           /\ \A i \in DOMAIN lines : lines'[i] = lines[i]
           /\ lines'[Len(lines) + 1] = line
           /\ line # BrokenLine /\ line.sequence = Len(lines) + 1
<1>1. Readable /\ lines' = Append(lines, line)
  BY BrokenStays
<1>2. lines \in Seq(Record \cup {BrokenLine}) /\ Len(lines) \in Nat
  BY DEF StoreInv, StoreTypeOK
<1>3. /\ DOMAIN lines = 1..Len(lines) /\ DOMAIN lines' = 1..(Len(lines) + 1)
      /\ Len(lines') = Len(lines) + 1
      /\ \A i \in DOMAIN lines : lines'[i] = lines[i]
      /\ lines'[Len(lines) + 1] = line
  BY <1>1, <1>2
<1>4. InOrder
  BY <1>2, <1>3 DEF InOrder
<1>5. Len(lines) + 1 \in DOMAIN lines'
  BY <1>2, <1>3
<1>6. line # BrokenLine /\ line.sequence = Len(lines) + 1
  BY <1>3, <1>5 DEF Readable, InOrder
<1> QED BY <1>1, <1>2, <1>3, <1>4, <1>6

\* The versions and the numbers the invariant compares.
LEMMA DrillNumbers ==
    ASSUME DurabilityTypeOK, NEW a \in ActorIds
    PROVE  /\ live[a] \in Nat /\ snapshots[a].version \in Nat
           /\ snapshots[a].last_sequence \in 0..MaxWritten /\ savedAt[a] \in Nat
BY DurabilityAssumption DEF DurabilityTypeOK, Snapshot

\* An event without a state changes no actor's history, acknowledged or torn
\* (append).
LEMMA NoStateKeepsLog ==
    ASSUME StoreInv, DurabilityTypeOK, LogInv, NEW s \in Stores,
           AppendEvent(s, NoState) \/ TornAppend(s, NoState), UNCHANGED <<live, snapshots, savedAt>>
    PROVE  LogInv'
<1> SUFFICES ASSUME Readable', InOrder' PROVE (VersionsLogged /\ SnapshotsMark)'
  BY DEF LogInv
<1> DEFINE whole == [sequence |-> nextSequence[s], event |-> NoState]
<1>1. nextSequence[s] \in Nat \ {0}
  BY DEF AppendEvent, TornAppend, Lock, StoreInv, StoreTypeOK
<1>2. whole \in Record /\ whole.event = NoState
  BY <1>1, DurabilityAssumption DEF Record
<1>3. PICK line \in {BrokenLine, whole} : \E newline \in BOOLEAN : Write(line, newline)
  BY DEF AppendEvent, TornAppend
<1>4. PICK newline \in BOOLEAN : Write(line, newline)
  BY <1>3
<1>5. line \in Record \cup {BrokenLine}
  BY <1>2
<1> HIDE DEF whole
<1>6. /\ Readable /\ InOrder /\ Len(lines) \in Nat
      /\ DOMAIN lines = 1..Len(lines) /\ DOMAIN lines' = 1..(Len(lines) + 1)
      /\ Len(lines') = Len(lines) + 1
      /\ \A i \in DOMAIN lines : lines'[i] = lines[i]
      /\ lines'[Len(lines) + 1] = line
      /\ line # BrokenLine /\ line.sequence = Len(lines) + 1
  BY <1>4, <1>5, LogGrows
<1>7. line = whole /\ line.event = NoState
  BY <1>2, <1>6
<1>8. VersionsLogged /\ SnapshotsMark
  BY <1>6 DEF LogInv
<1>9. \A a : ChangesOf(a)' = ChangesOf(a)
  BY <1>6, <1>7 DEF ChangesOf
<1>10. \A a : \A i \in ChangesOf(a) : i \in DOMAIN lines /\ Version(i)' = Version(i)
  BY <1>6 DEF ChangesOf, Version
<1>11. VersionsLogged'
  BY <1>8, <1>9, <1>10 DEF VersionsLogged
<1>12. SnapshotsMark'
  <2> SUFFICES ASSUME NEW a \in ActorIds
               PROVE  /\ snapshots[a].version <= live[a]
                      /\ savedAt[a] <= Len(lines')
                      /\ \A i \in ChangesOf(a) :
                            i <= savedAt[a] <=> Version(i)' <= snapshots[a].version
    BY <1>9 DEF SnapshotsMark
  <2>1. savedAt[a] <= Len(lines')
    BY <1>6, <1>8, DrillNumbers DEF SnapshotsMark
  <2> QED BY <1>8, <1>10, <2>1 DEF SnapshotsMark
<1> QED BY <1>11, <1>12

\* A change is logged with the actor's next version, after everything a
\* snapshot covers (append).
LEMMA ChangeKeepsLog ==
    ASSUME StoreInv, DurabilityTypeOK, LogInv, NEW s \in Stores, NEW b \in ActorIds, Change(s, b)
    PROVE  LogInv'
<1> SUFFICES ASSUME Readable', InOrder' PROVE (VersionsLogged /\ SnapshotsMark)'
  BY DEF LogInv
<1> DEFINE e == [actor |-> b, version |-> live[b] + 1]
           line == [sequence |-> nextSequence[s], event |-> e]
<1>1. nextSequence[s] \in Nat \ {0}
  BY DEF Change, AppendEvent, Lock, StoreInv, StoreTypeOK
<1>2. live[b] \in Nat /\ live[b] < MaxVersion /\ live \in [ActorIds -> 0..MaxVersion]
  BY DrillNumbers DEF Change, DurabilityTypeOK
<1>3. e \in StateEvent
  BY <1>2, DurabilityAssumption DEF StateEvent
<1>4. e \in Events /\ e # NoState
  BY <1>3, DurabilityAssumption
<1>5. line \in Record /\ line.event = e
  BY <1>1, <1>4 DEF Record
<1>6. Write(line, TRUE) /\ acked' = Append(acked, line) /\ acked \in Seq(Record)
  BY DEF Change, AppendEvent, StoreInv, StoreTypeOK
<1>7. e.actor = b /\ e.version = live[b] + 1
  OBVIOUS
<1>8. live' = [live EXCEPT ![b] = @ + 1] /\ UNCHANGED <<snapshots, savedAt>>
  BY DEF Change
<1> HIDE DEF e, line
<1>0. PICK n \in Nat : n = Len(lines) + 1
  BY DEF StoreInv, StoreTypeOK
<1>9. /\ Readable /\ InOrder /\ Len(lines) \in Nat
      /\ DOMAIN lines = 1..Len(lines) /\ DOMAIN lines' = 1..n
      /\ Len(lines') = n
      /\ \A i \in DOMAIN lines : lines'[i] = lines[i]
      /\ lines'[n] = line
      /\ line.sequence = n
  BY <1>5, <1>6, <1>0, LogGrows
<1>10. VersionsLogged /\ SnapshotsMark
  BY <1>9 DEF LogInv
<1>12. n \in Nat /\ n = Len(lines) + 1 /\ n \notin DOMAIN lines /\ \A i \in DOMAIN lines : i < n
  BY <1>0, <1>9
<1>13. \A a : ChangesOf(a) \subseteq DOMAIN lines
  BY DEF ChangesOf
<1>14. ChangesOf(b)' = ChangesOf(b) \cup {n} /\ Version(n)' = live[b] + 1
  BY <1>4, <1>5, <1>7, <1>9, <1>12 DEF ChangesOf, Version
<1>15. \A a : a # b => ChangesOf(a)' = ChangesOf(a)
  BY <1>4, <1>5, <1>7, <1>9, <1>12 DEF ChangesOf
<1>16. \A i \in DOMAIN lines : Version(i)' = Version(i)
  BY <1>9 DEF Version
<1>17. \A a \in ActorIds : live'[a] = IF a = b THEN live[b] + 1 ELSE live[a]
  BY <1>2, <1>8
<1>18. VersionsLogged'
  <2> SUFFICES ASSUME NEW a \in ActorIds
               PROVE  /\ \A i \in ChangesOf(a)' : Version(i)' \in 1..live'[a]
                      /\ \A i, j \in ChangesOf(a)' : i < j => Version(i)' < Version(j)'
                      /\ live'[a] # 0 => \E i \in ChangesOf(a)' : Version(i)' = live'[a]
    BY DEF VersionsLogged
  <2>1. CASE a # b
    BY <1>10, <1>13, <1>15, <1>16, <1>17, <2>1 DEF VersionsLogged
  <2>2. CASE a = b
    <3>1. \A i \in ChangesOf(b) : Version(i)' \in 1..live[b] /\ i < n /\ i \in Nat
      BY <1>9, <1>10, <1>12, <1>13, <1>16 DEF VersionsLogged
    <3>2. \A i, j \in ChangesOf(b) : i < j => Version(i)' < Version(j)'
      BY <1>10, <1>13, <1>16 DEF VersionsLogged
    <3> QED BY <1>2, <1>12, <1>14, <1>17, <2>2, <3>1, <3>2
  <2> QED BY <2>1, <2>2
<1>19. SnapshotsMark'
  <2> SUFFICES ASSUME NEW a \in ActorIds
               PROVE  /\ snapshots[a].version <= live'[a]
                      /\ savedAt[a] <= Len(lines')
                      /\ \A i \in ChangesOf(a)' :
                            i <= savedAt[a] <=> Version(i)' <= snapshots[a].version
    BY <1>8 DEF SnapshotsMark
  <2>1. live[a] \in Nat /\ snapshots[a].version \in Nat /\ savedAt[a] \in Nat
    BY DrillNumbers
  <2>2. snapshots[a].version <= live[a] /\ savedAt[a] <= Len(lines)
    BY <1>10 DEF SnapshotsMark
  <2>3. ASSUME NEW i \in ChangesOf(a)
        PROVE  i <= savedAt[a] <=> Version(i)' <= snapshots[a].version
    <3>1. i \in DOMAIN lines
      BY <1>13
    <3> QED BY <1>10, <1>16, <3>1 DEF SnapshotsMark
  <2>4. a = b => (n <= savedAt[a] <=> Version(n)' <= snapshots[a].version)
    BY <1>9, <1>12, <1>14, <2>1, <2>2
  <2> QED BY <1>9, <1>12, <1>14, <1>15, <1>17, <2>1, <2>2, <2>3, <2>4
<1> QED BY <1>18, <1>19

\* A snapshot holds every change logged so far (FileSnapshotStore.save).
LEMMA SaveKeepsLog ==
    ASSUME StoreInv, DurabilityTypeOK, LogInv, NEW s \in Stores, NEW b \in ActorIds,
           NEW supported \in BOOLEAN, SaveSnapshot(s, b, supported)
    PROVE  LogInv'
<1>1. UNCHANGED <<lines, live>>
  BY DEF SaveSnapshot, storeVars
<1> SUFFICES ASSUME Readable, InOrder PROVE (VersionsLogged /\ SnapshotsMark)'
  BY <1>1 DEF LogInv, Readable, InOrder
<1>2. VersionsLogged /\ SnapshotsMark
  BY DEF LogInv
<1>3. Len(lines) \in Nat /\ DOMAIN lines = 1..Len(lines)
  BY DEF StoreInv, StoreTypeOK
<1>4. (\A a : ChangesOf(a)' = ChangesOf(a)) /\ (\A i : Version(i)' = Version(i))
  BY <1>1 DEF ChangesOf, Version
<1>5. VersionsLogged'
  BY <1>1, <1>2, <1>4 DEF VersionsLogged
<1>6. \A a \in ActorIds :
         IF a = b THEN snapshots'[a].version = live[b] /\ savedAt'[a] = Len(lines)
         ELSE snapshots'[a] = snapshots[a] /\ savedAt'[a] = savedAt[a]
  BY DEF SaveSnapshot, Save, DurabilityTypeOK
<1>7. SnapshotsMark'
  <2> SUFFICES ASSUME NEW a \in ActorIds
               PROVE  /\ snapshots'[a].version <= live[a]
                      /\ savedAt'[a] <= Len(lines)
                      /\ \A i \in ChangesOf(a) :
                            i <= savedAt'[a] <=> Version(i) <= snapshots'[a].version
    BY <1>1, <1>4 DEF SnapshotsMark
  <2>1. CASE a # b
    BY <1>2, <1>6, <2>1 DEF SnapshotsMark
  <2>2. CASE a = b
    <3>1. live[b] \in Nat
      BY DrillNumbers
    <3>2. \A i \in ChangesOf(b) : i <= Len(lines) /\ Version(i) \in 1..live[b]
      BY <1>2, <1>3 DEF ChangesOf, VersionsLogged
    <3> QED BY <1>3, <1>6, <2>2, <3>1, <3>2
  <2> QED BY <2>1, <2>2
<1> QED BY <1>5, <1>7

\* Every step of the drill keeps log, states and snapshots together.
LEMMA LogInvStep ==
    ASSUME StoreInv, DurabilityTypeOK, LogInv, [DurabilityNext]_durabilityVars
    PROVE  LogInv'
<1>1. CASE UNCHANGED <<lines, live, snapshots, savedAt>>
  <2>1. (\A a : ChangesOf(a)' = ChangesOf(a)) /\ (\A i : Version(i)' = Version(i))
    BY <1>1 DEF ChangesOf, Version
  <2> QED BY <1>1, <2>1 DEF LogInv, Readable, InOrder, VersionsLogged, SnapshotsMark
<1>2. ASSUME NEW s \in Stores, WriteWithoutState(s) PROVE LogInv'
  BY <1>2, NoStateKeepsLog DEF WriteWithoutState
<1>3. ASSUME NEW s \in Stores, WriteRefused(s) \/ StoreStep(s) \/ EndSession(s) PROVE LogInv'
  BY <1>1, <1>3 DEF WriteRefused, StoreStep, EndSession, Open, Close, Drop, storeVars
<1> QED BY <1>1, <1>2, <1>3, ChangeKeepsLog, SaveKeepsLog
        DEF DurabilityNext, durabilityVars, storeVars

\* The drill starts with an empty log and no snapshots.
LEMMA DrillInit == DurabilityInit => DurabilityTypeOK /\ StoreInv /\ LogInv
<1> SUFFICES ASSUME DurabilityInit PROVE DurabilityTypeOK /\ StoreInv /\ LogInv
  OBVIOUS
<1>1. StoreInv
  BY StoreInvInit DEF DurabilityInit
<1>2. NoSnapshot \in Snapshot
  BY DurabilityAssumption DEF NoSnapshot, Snapshot
<1>3. DurabilityTypeOK
  BY <1>1, <1>2, DurabilityAssumption DEF DurabilityInit, DurabilityTypeOK, StoreInv
<1>4. DOMAIN lines = {} /\ Len(lines) = 0
  BY DEF DurabilityInit, StoreInit
<1>5. VersionsLogged /\ SnapshotsMark
  BY <1>4 DEF DurabilityInit, VersionsLogged, SnapshotsMark, ChangesOf, NoSnapshot
<1> QED BY <1>1, <1>3, <1>5 DEF LogInv

\* The drill uses the event store as module EventStore describes it, so that
\* the store's theorems hold of it (RuntimeDurabilityDrill).
THEOREM DrillImplementsStore == DurabilitySpec => StoreSpec
<1>1. DurabilityInit => StoreInit
  BY DEF DurabilityInit
<1>2. StoreInv /\ DurabilityTypeOK /\ [DurabilityNext]_durabilityVars
      => StoreInv' /\ DurabilityTypeOK'
  BY DrillStepsStore, StoreInvStep, DrillTypeStep
<1> QED BY <1>1, <1>2, DrillInit, DrillStepsStore, PTL DEF DurabilitySpec, StoreSpec

\* The largest number of a set is in it.
LEMMA LastIsLargest ==
    ASSUME NEW n \in Nat, NEW S, S \subseteq 0..n, S # {}
    PROVE  Last(S) \in S /\ \A j \in S : j <= Last(S)
BY LargestExists DEF Last

\* What recover() returns, from the invariant.
LEMMA RecoveredFromLog ==
    ASSUME StoreInv, DurabilityTypeOK, LogInv, Recovers, NEW a \in ActorIds
    PROVE  RecoveredState[a] = live[a] <=>
               \/ LastChange(a) <= savedAt[a]
               \/ LastChange(a) > LatestSnapshotSequence
<1> DEFINE M == LatestSnapshotSequence
           L == LastChange(a)
<1>1. Readable /\ InOrder
  <2>1. ~Repeats
    BY DEF Recovers, RecoveryAllowed, DuplicateSequences, Repeats, PersistedSequences
  <2> QED BY <2>1 DEF Recovers, RecoveryAllowed, StoreInv, Numbered
<1>2. VersionsLogged /\ SnapshotsMark
  BY <1>1 DEF LogInv
<1>3. Len(lines) \in Nat /\ DOMAIN lines = 1..Len(lines)
  BY DEF StoreInv, StoreTypeOK
<1>4. M \in Nat
  <2> DEFINE S == {snapshots[c].last_sequence : c \in ActorIds}
  <2>1. \A c \in ActorIds : snapshots[c].last_sequence \in 0..MaxWritten
    BY DrillNumbers
  <2>2. S \subseteq 0..MaxWritten /\ S # {}
    BY <2>1
  <2>3. \E x \in S : \A y \in S : y <= x
    <3> HIDE DEF S
    <3> QED BY <2>2, LargestExists, DurabilityAssumption
  <2>4. \E x \in S : \A c \in ActorIds : snapshots[c].last_sequence <= x
    BY <2>3
  <2>5. M \in S
    BY <2>4 DEF LatestSnapshotSequence
  <2> QED BY <2>2, <2>5, DurabilityAssumption
<1>5. ChangesOf(a) \subseteq 1..Len(lines)
  BY <1>3 DEF ChangesOf
<1>6. L = IF ChangesOf(a) = {} THEN 0 ELSE Last(ChangesOf(a))
  BY DEF LastChange, ChangesOf
<1>7. ReplayedFor(a) = {i \in ChangesOf(a) : i > M}
  BY <1>1 DEF ReplayedFor, ChangesOf, InOrder
<1>8. RecoveredState[a] = IF ReplayedFor(a) = {} THEN snapshots[a].version
                          ELSE Version(Last(ReplayedFor(a)))
  BY DEF RecoveredState, Version
<1>9. /\ live[a] \in Nat /\ snapshots[a].version \in Nat
      /\ savedAt[a] \in Nat /\ snapshots[a].version <= live[a]
  BY <1>2, <1>4, DrillNumbers DEF SnapshotsMark
<1> HIDE DEF M, L
<1>10. CASE ChangesOf(a) = {}
  <2>1. live[a] = 0
    BY <1>2, <1>10 DEF VersionsLogged
  <2>2. RecoveredState[a] = live[a] /\ L = 0
    BY <1>6, <1>7, <1>8, <1>9, <1>10, <2>1
  <2> QED BY <1>9, <2>2 DEF L
<1>11. CASE ChangesOf(a) # {}
  <2>1. L \in ChangesOf(a) /\ \A j \in ChangesOf(a) : j <= L
    <3>1. ChangesOf(a) \subseteq 0..Len(lines)
      BY <1>3, <1>5
    <3> QED BY <1>3, <1>6, <1>11, <3>1, LastIsLargest
  <2>2. Version(L) = live[a]
    <3>1. Version(L) \in 1..live[a] /\ \A i \in ChangesOf(a) : Version(i) \in 1..live[a]
      BY <1>2, <2>1 DEF VersionsLogged
    <3>2. live[a] # 0
      BY <1>9, <3>1
    <3>3. PICK i \in ChangesOf(a) : Version(i) = live[a]
      BY <1>2, <3>2 DEF VersionsLogged
    <3>4. i <= L /\ i \in Nat /\ L \in Nat
      BY <1>3, <1>5, <2>1
    <3>5. i < L => Version(i) < Version(L)
      BY <1>2, <2>1 DEF VersionsLogged
    <3> QED BY <1>9, <3>1, <3>3, <3>4, <3>5
  <2>3. L <= savedAt[a] <=> live[a] <= snapshots[a].version
    BY <1>2, <2>1, <2>2 DEF SnapshotsMark
  <2>4. L \in Nat
    BY <1>3, <1>5, <2>1
  <2>5. CASE L > M
    <3>1. ReplayedFor(a) \subseteq 0..Len(lines) /\ L \in ReplayedFor(a)
      BY <1>3, <1>5, <1>7, <2>1, <2>5
    <3>2. /\ Last(ReplayedFor(a)) \in ReplayedFor(a)
          /\ \A j \in ReplayedFor(a) : j <= Last(ReplayedFor(a))
      BY <1>3, <3>1, LastIsLargest
    <3>3. Last(ReplayedFor(a)) \in ChangesOf(a)
      BY <1>7, <3>2
    <3>4. Last(ReplayedFor(a)) <= L /\ L <= Last(ReplayedFor(a)) /\ Last(ReplayedFor(a)) \in Nat
      BY <1>3, <1>5, <2>1, <3>1, <3>2, <3>3
    <3>5. Last(ReplayedFor(a)) = L
      BY <2>4, <3>4
    <3>6. RecoveredState[a] = live[a]
      BY <1>8, <2>2, <3>1, <3>5
    <3> QED BY <2>5, <3>6 DEF L, M
  <2>6. CASE ~(L > M)
    <3>1. ReplayedFor(a) = {}
      BY <1>3, <1>4, <1>5, <1>7, <2>1, <2>4, <2>6
    <3>2. RecoveredState[a] = snapshots[a].version
      BY <1>8, <3>1
    <3>3. RecoveredState[a] = live[a] <=> L <= savedAt[a]
      BY <1>9, <2>3, <3>2
    <3> QED BY <2>6, <3>3 DEF L, M
  <2> QED BY <2>5, <2>6
<1> QED BY <1>10, <1>11

\* Recovery gives back an actor's state exactly if the actor's last change was in
\* the log when its snapshot was saved or is numbered above every snapshot, for any
\* number of actors, sessions, stores and events, after any torn and refused writes
\* (_write, _load_snapshot_state, replay_after).
THEOREM DrillRecoveredIff == DurabilitySpec => []RecoveredIff
<1>1. StoreInv /\ DurabilityTypeOK /\ LogInv => RecoveredIff
  BY RecoveredFromLog DEF RecoveredIff
<1>2. StoreInv /\ DurabilityTypeOK /\ LogInv /\ [DurabilityNext]_durabilityVars
      => StoreInv' /\ DurabilityTypeOK' /\ LogInv'
  BY DrillStepsStore, StoreInvStep, DrillTypeStep, LogInvStep
<1> QED BY <1>1, <1>2, DrillInit, PTL DEF DurabilitySpec

===============================================================================
