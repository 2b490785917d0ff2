------------------------ MODULE MarketDataFeedProofs ------------------------
(***************************************************************************)
(* Proofs about the transport's half of MarketDataFeed, for any number of  *)
(* requests, connections and instruments.                                  *)
(*                                                                         *)
(* A callback holds a request id across steps in which the driver may      *)
(* cancel the request, disconnect, reconnect and restore.  What saves it   *)
(* is that ids are never used again: the tables either no longer know the  *)
(* id or still know it as the contract the broker sent the event for.      *)
(***************************************************************************)
EXTENDS MarketDataFeed, TLAPS

\* The registration tables agree with each other and with the broker, and no id
\* from nextReq on has been used.
Tables ==
    /\ symbols \in [Requests -> Streams \cup {None}]
    /\ active \in [Requests -> Streams \cup {None}]
    /\ broker \in [Requests -> Streams \cup {None}]
    /\ nextReq \in Nat /\ nextReq >= 1
    /\ \A r \in Requests : r >= nextReq => symbols[r] = None /\ active[r] = None
    /\ \A r \in Requests : symbols[r] # None /\ active[r] # None => symbols[r] = active[r]
    /\ StreamingRegistered

\* Where the driver is within a call.
Place ==
    /\ pc = "registered" =>
         cur \in Requests /\ cur < nextReq /\ symbols[cur] # None /\ active[cur] = None
    /\ pc = "cancelled" => cur \in Requests
    /\ pc = "resubscribing" => todo \subseteq Active

\* The callback's request is known as its contract or not at all.
Owned ==
    cb # None =>
        /\ cb \in Callback
        /\ cb.req < nextReq
        /\ symbols[cb.req] \in {None, cb.contract}
        /\ active[cb.req] \in {None, cb.contract}
        /\ cb.step # "lookup" => cb.stream = cb.contract

Sane == /\ connected \in BOOLEAN /\ conn \in 0..MaxConnections /\ (connected => conn \in Connections)
        /\ subs \subseteq Watched

FeedInv == Sane /\ Tables /\ Place /\ Owned

-----------------------------------------------------------------------------
\* Nothing is registered initially.
LEMMA FeedInitial == FeedInit => FeedInv
<1> SUFFICES ASSUME FeedInit PROVE FeedInv
  OBVIOUS
<1> USE FeedAssumption DEF FeedInit
<1>1. Sane
  <2>1. conn \in 0..MaxConnections
    OBVIOUS
  <2>2. subs \subseteq Watched
    OBVIOUS
  <2> QED BY <2>1, <2>2 DEF Sane
<1>2. Tables
  BY DEF Tables, StreamingRegistered
<1>3. Place /\ Owned
  BY DEF Place, Owned
<1> QED BY <1>1, <1>2, <1>3 DEF FeedInv

\* Connections come and go without disturbing who owns an id.
LEMMA ConnectionSteps ==
    ASSUME FeedInv, Connect \/ Disconnect \/ ConnectionLost
    PROVE  FeedInv'
<1> USE FeedAssumption DEF FeedInv
<1>1. CASE Connect
  <2>1. Sane'
    BY <1>1 DEF Connect, Sane, Connections, sourceVars, signalVars
  <2>2. Tables'
    BY <1>1 DEF Connect, Tables, StreamingRegistered
  <2>3. (Place /\ Owned)'
    BY <1>1 DEF Connect, Place, Owned, Active, driverVars
  <2> QED BY <2>1, <2>2, <2>3
<1>2. CASE Disconnect
  <2>1. Sane'
    BY <1>2 DEF Disconnect, Sane, sourceVars, signalVars
  <2>2. Tables'
    BY <1>2 DEF Disconnect, Tables, StreamingRegistered, Silent
  <2>3. Place'
    BY <1>2 DEF Disconnect, Place, driverVars
  <2>4. Owned'
    BY <1>2 DEF Disconnect, Owned, Silent, Callback
  <2> QED BY <2>1, <2>2, <2>3, <2>4
<1>3. CASE ConnectionLost
  <2>1. Sane'
    BY <1>3 DEF ConnectionLost, Sane, sourceVars, signalVars
  <2>2. Tables'
    BY <1>3 DEF ConnectionLost, Tables, StreamingRegistered, Silent
  <2>3. (Place /\ Owned)'
    BY <1>3 DEF ConnectionLost, Place, Owned, Active, driverVars
  <2> QED BY <2>1, <2>2, <2>3
<1> QED BY <1>1, <1>2, <1>3

\* A request is registered under a new id, requested, cancelled and restored.
LEMMA SubscribeStep ==
    ASSUME FeedInv, NEW s \in Streams, Subscribe(s)
    PROVE  FeedInv'
<1> USE FeedAssumption DEF FeedInv, Subscribe
<1>1. Sane'
  BY DEF Sane, sourceVars, signalVars
<1>2. Tables'
  BY DEF Tables, StreamingRegistered, Requests
<1>3. Place'
  BY DEF Place, Tables, Requests
<1>4. Owned'
  BY DEF Owned, Tables, Callback, Requests
<1> QED BY <1>1, <1>2, <1>3, <1>4

\* Sending, cancelling and restoring touch only ids that are registered or active.
LEMMA RequestSteps ==
    ASSUME FeedInv,
           \/ SendRequest \/ ForgetRequest \/ \E r \in Requests : Unsubscribe(r)
           \/ Resubscribe \/ ResubscribeNext \/ ResubscribeEnds
    PROVE  FeedInv'
<1> USE FeedAssumption DEF FeedInv
<1>1. CASE SendRequest
  <2> USE <1>1 DEF SendRequest
  <2>0. cur \in Requests /\ symbols[cur] # None /\ cur < nextReq /\ symbols[cur] \in Streams
    BY DEF Place, Tables
  <2>1. Sane'
    BY DEF Sane, sourceVars, signalVars
  <2>2. Tables'
    BY <2>0 DEF Tables, StreamingRegistered, Requested, Requests
  <2>3. Place'
    BY DEF Place
  <2>4. Owned'
    BY <2>0 DEF Owned, Tables, Callback
  <2> QED BY <2>1, <2>2, <2>3, <2>4
<1>2. CASE ForgetRequest
  <2> USE <1>2 DEF ForgetRequest
  <2>0. cur \in Requests
    BY DEF Place
  <2>1. Sane'
    BY DEF Sane, sourceVars, signalVars
  <2>2. Tables'
    BY <2>0 DEF Tables, StreamingRegistered
  <2>3. Place'
    BY DEF Place
  <2>4. Owned'
    BY <2>0 DEF Owned, Tables, Callback
  <2> QED BY <2>1, <2>2, <2>3, <2>4
<1>3. ASSUME NEW r \in Requests, Unsubscribe(r) PROVE FeedInv'
  BY <1>3 DEF Unsubscribe, Sane, Tables, StreamingRegistered, Place, Owned,
              transportVars, sourceVars, signalVars
<1>4. CASE Resubscribe
  BY <1>4 DEF Resubscribe, Sane, Tables, StreamingRegistered, Place, Owned, Active,
              transportVars, sourceVars, signalVars
<1>5. CASE ResubscribeNext
  <2> USE <1>5 DEF ResubscribeNext
  <2>0. PICK r \in todo : /\ symbols' = [symbols EXCEPT ![r] = active[r]]
                          /\ broker' = Requested(r, active[r])
                          /\ todo' = todo \ {r}
    OBVIOUS
  <2>r. r \in Requests /\ active[r] # None /\ r < nextReq
    BY <2>0 DEF Place, Active, Tables, Requests
  <2>1. Sane'
    BY DEF Sane, sourceVars, signalVars
  <2>2. Tables'
    BY <2>0, <2>r DEF Tables, StreamingRegistered, Requested, Requests
  <2>3. Place'
    BY <2>0 DEF Place, Active
  <2>4. Owned'
    BY <2>0, <2>r DEF Owned, Tables, Callback
  <2> QED BY <2>1, <2>2, <2>3, <2>4
<1>6. CASE ResubscribeEnds
  BY <1>6 DEF ResubscribeEnds, Sane, Tables, StreamingRegistered, Place, Owned,
              sourceVars, signalVars
<1> QED BY <1>1, <1>2, <1>3, <1>4, <1>5, <1>6

\* The broker ends streams; the tables stay.
LEMMA ErrorSteps ==
    ASSUME FeedInv, \E R \in SUBSET Requests : HandleError(R)
    PROVE  FeedInv'
<1> USE FeedAssumption DEF FeedInv
<1>1. PICK R \in SUBSET Requests : HandleError(R)
  OBVIOUS
<1>2. UNCHANGED <<connected, conn, symbols, active, nextReq, cb, pc, cur, todo, subs>>
  BY <1>1 DEF HandleError, driverVars, sourceVars, signalVars
<1>3. broker' = [r \in Requests |-> IF r \in R THEN None ELSE broker[r]]
  BY <1>1 DEF HandleError
<1>4. Tables'
  BY <1>2, <1>3 DEF Tables, StreamingRegistered
<1>5. (Sane /\ Place /\ Owned)'
  BY <1>2 DEF Sane, Place, Owned, Active
<1> QED BY <1>4, <1>5

\* A callback starts with a request that is registered as its contract, and finds
\* the same contract or nothing when it looks the request up.
LEMMA ReaderSteps ==
    ASSUME FeedInv,
           \/ \E r \in Requests, kind \in {"bid", "ask", "size", "last"} : HandleTick(r, kind)
           \/ ReaderStep
    PROVE  FeedInv'
<1> USE FeedAssumption DEF FeedInv
<1>1. ASSUME NEW r \in Requests, NEW kind \in {"bid", "ask", "size", "last"}, HandleTick(r, kind)
      PROVE  FeedInv'
  <2>0. /\ broker[r] # None /\ symbols[r] = broker[r] /\ broker[r] \in Streams
        /\ active[r] \in {None, broker[r]} /\ r < nextReq
        /\ conn \in Connections /\ cb = None
    <3>1. broker[r] # None /\ symbols[r] # None /\ connected /\ cb = None
      BY <1>1 DEF HandleTick
    <3>2. symbols[r] = broker[r] /\ broker[r] \in Streams /\ active[r] \in {None, broker[r]}
      BY <3>1 DEF Tables, StreamingRegistered
    <3>3. r < nextReq
      BY <3>1 DEF Tables, Requests
    <3> QED BY <3>1, <3>2, <3>3 DEF Sane
  <2>1. UNCHANGED <<connected, conn, symbols, active, nextReq, broker, pc, cur, todo, subs>>
    BY <1>1 DEF HandleTick, driverVars, sourceVars, signalVars
  <2>2. PICK m \in BOOLEAN :
          \/ cb' = None
          \/ cb' = [step |-> "lookup", on |-> conn, req |-> r, contract |-> broker[r],
                    stream |-> None, keys |-> {}, mixed |-> m]
    <3> DEFINE m == kind # "last" /\ quote'[r].bid # quote'[r].ask
    <3>1. m \in BOOLEAN
      OBVIOUS
    <3>2. \/ cb' = cb
          \/ cb' = [step |-> "lookup", on |-> conn, req |-> r, contract |-> broker[r],
                    stream |-> None, keys |-> {}, mixed |-> m]
      BY <1>1 DEF HandleTick
    <3> HIDE DEF m
    <3> QED BY <2>0, <3>1, <3>2
  <2>3. (Sane /\ Tables /\ Place)'
    BY <2>1 DEF Sane, Tables, StreamingRegistered, Place, Active
  <2>4. Owned'
    BY <2>0, <2>1, <2>2 DEF Owned, Callback
  <2> QED BY <2>3, <2>4
<1>2. CASE LookupSymbol
  <2>0. UNCHANGED <<connected, conn, symbols, active, nextReq, broker, pc, cur, todo, subs>>
    BY <1>2 DEF LookupSymbol, transportVars, driverVars, sourceVars, signalVars
  <2>1. (Sane /\ Tables /\ Place)'
    BY <2>0 DEF Sane, Tables, StreamingRegistered, Place, Active
  <2>2. /\ cb \in Callback /\ cb.step = "lookup" /\ symbols[cb.req] = cb.contract
        /\ cb.contract \in Streams /\ subs \in SUBSET Watched
    BY <1>2 DEF LookupSymbol, Owned, Callback, Sane
  <2>3. /\ cb' \in Callback /\ cb'.req = cb.req /\ cb'.contract = cb.contract
        /\ cb'.stream = cb.contract
    BY <1>2, <2>2 DEF LookupSymbol, Callback
  <2>4. Owned'
    BY <1>2, <2>0, <2>3 DEF Owned, LookupSymbol
  <2> QED BY <2>1, <2>4
<1>3. ASSUME ReaderDies, UNCHANGED <<pc, cur, todo, subs>> PROVE FeedInv'
  <2>1. (Sane /\ Tables)'
    BY <1>3 DEF ReaderDies, Sane, Tables, StreamingRegistered, Silent
  <2>2. (Place /\ Owned)'
    BY <1>3 DEF ReaderDies, Place, Owned, Active
  <2> QED BY <2>1, <2>2
<1>4. CASE LookupFails
  BY <1>3, <1>4 DEF LookupFails, driverVars, sourceVars, signalVars
<1>5. CASE RecordFails
  BY <1>3, <1>5 DEF RecordFails, driverVars
<1>6. CASE RecordEvent
  <2>0. UNCHANGED <<connected, conn, symbols, active, nextReq, broker, pc, cur, todo, subs>>
    BY <1>6 DEF RecordEvent, transportVars, driverVars
  <2>1. (Sane /\ Tables /\ Place)'
    BY <2>0 DEF Sane, Tables, StreamingRegistered, Place, Active
  <2>2. cb \in Callback /\ cb.step = "record" /\ cb' = [cb EXCEPT !.step = "append"]
    BY <1>6 DEF RecordEvent, Owned
  <2>3. /\ cb' \in Callback /\ cb'.req = cb.req /\ cb'.contract = cb.contract
        /\ cb'.stream = cb.stream
    BY <2>2 DEF Callback
  <2>4. Owned'
    BY <1>6, <2>0, <2>2, <2>3 DEF Owned, RecordEvent
  <2> QED BY <2>1, <2>4
<1>7. CASE AppendEvent
  BY <1>7 DEF AppendEvent, Sane, Tables, StreamingRegistered, Place, Owned, Active,
              transportVars, driverVars
<1> QED BY <1>1, <1>2, <1>4, <1>5, <1>6, <1>7 DEF ReaderStep

\* The source's own steps leave the transport's tables alone.
LEMMA SourceSteps ==
    ASSUME FeedInv,
           \/ \E s \in Watched : SourceSubscribe(s) \/ SourceUnsubscribe(s)
           \/ \E n \in 1..Cardinality(Watched) : SubscriptionEvents(n)
           \/ Drain \/ DrainStep \/ Tick
    PROVE  FeedInv'
<1>1. UNCHANGED <<connected, conn, symbols, active, nextReq, broker, cb>> /\ subs' \subseteq Watched
  BY DEF FeedInv, Sane, SourceSubscribe, SourceUnsubscribe, SubscriptionEvents, Drain, DrainStep,
         Tick, CheckStream, MarkStale, CopyPending, ClearPending, transportVars, sourceVars,
         signalVars
<1>2. pc' \notin {"registered", "cancelled", "resubscribing"} \/ UNCHANGED <<pc, cur, todo>>
  BY DEF SourceSubscribe, SourceUnsubscribe, SubscriptionEvents, Drain, DrainStep, Tick,
         CheckStream, MarkStale, CopyPending, ClearPending, driverVars
<1> QED BY <1>1, <1>2 DEF FeedInv, Sane, Tables, StreamingRegistered, Place, Owned, Active

-----------------------------------------------------------------------------
\* Ids, tables and callbacks stay in step through every interleaving of the driver
\* and the readers.
THEOREM FeedInvariant == FeedSpec => []FeedInv
<1>1. FeedInit => FeedInv
  BY FeedInitial
<1>2. FeedInv /\ [FeedNext]_feedVars => FeedInv'
  <2> SUFFICES ASSUME FeedInv, [FeedNext]_feedVars PROVE FeedInv'
    OBVIOUS
  <2>1. CASE UNCHANGED feedVars
    BY <2>1 DEF feedVars, transportVars, driverVars, sourceVars, signalVars, FeedInv, Sane,
                Tables, StreamingRegistered, Place, Owned, Active
  <2>2. CASE FeedNext
    BY <2>2, ConnectionSteps, SubscribeStep, RequestSteps, ErrorSteps, ReaderSteps, SourceSteps
       DEF FeedNext
  <2> QED BY <2>1, <2>2
<1> QED BY <1>1, <1>2, PTL DEF FeedSpec

\* Whatever the broker streams is registered under its own symbol, in the middle of
\* every call and for any number of connections (subscribe_market_data,
\* resubscribe_market_data, disconnect).
THEOREM StreamingRegisteredAlways == FeedSpec => []StreamingRegistered
<1>1. FeedInv => StreamingRegistered
  BY DEF FeedInv, Tables
<1> QED BY <1>1, FeedInvariant, PTL

\* An event is filed under the instrument whose contract the broker sent it for,
\* however the driver and the reader interleave (handle_tick_price,
\* _broker_symbol_for).
THEOREM QuoteAttributionAlways == FeedSpec => []QuoteAttribution
<1>1. FeedInv => QuoteAttribution
  BY DEF FeedInv, Owned, QuoteAttribution
<1> QED BY <1>1, FeedInvariant, PTL
-----------------------------------------------------------------------------
(***************************************************************************)
(* What the broker streams on the current connection.                      *)
(***************************************************************************)

\* The broker streams a request only as the transport believes it active; all of
\* them but those it ended itself, once the connection's requests have been restored;
\* and of a restoration that is under way, all those it has visited.  Nothing outlives
\* a connection.
StreamInv ==
    /\ ended \subseteq Requests
    /\ ~connected => broker = Silent /\ ended = {}
    /\ \A r \in Requests : broker[r] \in {None, active[r]}
    /\ \A r \in ended : broker[r] = None /\ active[r] # None
    /\ connected /\ restored => \A r \in Requests \ ended : broker[r] = active[r]
    /\ connected /\ pc = "resubscribing" =>
         \A r \in Requests \ (todo \cup ended) : broker[r] = active[r]

\* A new connection streams nothing, and counts as restored only if nothing was active.
LEMMA ConnectionsStream ==
    ASSUME FeedInv, StreamInv, Connect \/ Disconnect \/ ConnectionLost
    PROVE  StreamInv'
<1>0. active \in [Requests -> Streams \cup {None}]
  BY DEF FeedInv, Tables
<1>1. CASE Connect
  BY <1>0, <1>1 DEF Connect, StreamInv, Silent, Active, driverVars
<1>2. CASE Disconnect \/ ConnectionLost
  <2>1. ~connected' /\ broker' = Silent /\ ended' = {} /\ active' = active
    BY <1>2 DEF Disconnect, ConnectionLost
  <2>2. \A r \in Requests : broker'[r] \in {None, active'[r]}
    BY <2>1 DEF Silent
  <2> QED BY <2>1, <2>2 DEF StreamInv, Silent
<1> QED BY <1>1, <1>2

\* A request becomes active and is streamed, or neither, in one step; a restoration
\* reaches every active request before it ends.
LEMMA RequestsStream ==
    ASSUME FeedInv, StreamInv,
           \/ \E s \in Streams : Subscribe(s)
           \/ SendRequest \/ ForgetRequest \/ \E r \in Requests : Unsubscribe(r)
           \/ Resubscribe \/ ResubscribeNext \/ ResubscribeEnds
    PROVE  StreamInv'
<1>0. /\ active \in [Requests -> Streams \cup {None}]
      /\ broker \in [Requests -> Streams \cup {None}]
      /\ connected \in BOOLEAN
  BY DEF FeedInv, Tables, Sane
<1>1. CASE \E s \in Streams : Subscribe(s)
  BY <1>1 DEF Subscribe, StreamInv, Silent
<1>2. CASE SendRequest
  <2>1. cur \in Requests /\ active[cur] = None
    BY <1>2 DEF SendRequest, FeedInv, Place
  <2>2. CASE connected
    BY <1>0, <1>2, <2>1, <2>2 DEF SendRequest, StreamInv, Requested
  <2>3. CASE ~connected
    BY <1>0, <1>2, <2>1, <2>3 DEF SendRequest, StreamInv, Requested, Silent
  <2> QED BY <2>2, <2>3
<1>3. CASE ForgetRequest
  <2>1. cur \in Requests
    BY <1>3 DEF ForgetRequest, FeedInv, Place
  <2>2. ~connected => broker' = Silent /\ ended' = {}
    BY <1>0, <1>3, <2>1 DEF ForgetRequest, StreamInv, Silent
  <2> QED BY <1>0, <1>3, <2>1, <2>2 DEF ForgetRequest, StreamInv, Silent
<1>4. CASE \E r \in Requests : Unsubscribe(r)
  BY <1>4 DEF Unsubscribe, StreamInv, transportVars, Silent
<1>5. CASE Resubscribe
  <2>1. \A r \in Requests \ Active : broker[r] = active[r]
    BY DEF Active, StreamInv
  <2> QED BY <1>5, <2>1 DEF Resubscribe, StreamInv, transportVars, Silent
<1>6. CASE ResubscribeNext
  <2>1. PICK r \in todo : broker' = Requested(r, active[r]) /\ todo' = todo \ {r} /\ ended' = ended \ {r}
    BY <1>6 DEF ResubscribeNext
  <2>2. r \in Requests /\ pc = "resubscribing"
    BY <1>6 DEF ResubscribeNext, FeedInv, Place, Active
  <2>3. CASE connected
    BY <1>0, <1>6, <2>1, <2>2, <2>3 DEF ResubscribeNext, StreamInv, Requested
  <2>4. CASE ~connected
    BY <1>0, <1>6, <2>1, <2>2, <2>4 DEF ResubscribeNext, StreamInv, Requested, Silent
  <2> QED BY <2>3, <2>4
<1>7. CASE ResubscribeEnds
  BY <1>7 DEF ResubscribeEnds, StreamInv, Silent
<1> QED BY <1>1, <1>2, <1>3, <1>4, <1>5, <1>6, <1>7

\* A callback leaves the streams alone, or ends its own connection by raising.
LEMMA ReaderStreams ==
    ASSUME FeedInv, StreamInv,
           \/ \E r \in Requests, kind \in {"bid", "ask", "size", "last"} : HandleTick(r, kind)
           \/ ReaderStep
    PROVE  StreamInv'
<1>1. UNCHANGED <<pc, todo>>
  BY DEF HandleTick, ReaderStep, LookupSymbol, LookupFails, RecordEvent, AppendEvent, RecordFails,
         driverVars
<1>2. UNCHANGED <<active, restored>>
  BY DEF HandleTick, ReaderStep, LookupSymbol, LookupFails, RecordEvent, AppendEvent, RecordFails,
         ReaderDies, transportVars
<1>3. UNCHANGED <<connected, broker, ended>> \/ (~connected' /\ broker' = Silent /\ ended' = {})
  BY DEF HandleTick, ReaderStep, LookupSymbol, LookupFails, RecordEvent, AppendEvent, RecordFails,
         ReaderDies, transportVars
<1>4. CASE UNCHANGED <<connected, broker, ended>>
  BY <1>1, <1>2, <1>4 DEF StreamInv, Silent
<1>5. CASE ~connected' /\ broker' = Silent /\ ended' = {}
  <2>1. \A r \in Requests : broker'[r] \in {None, active'[r]}
    BY <1>5 DEF Silent
  <2> QED BY <1>5, <2>1 DEF StreamInv, Silent
<1> QED BY <1>3, <1>4, <1>5

\* A stream the broker ends was active, and is known to have ended.
LEMMA ErrorsStream ==
    ASSUME FeedInv, StreamInv, \E R \in SUBSET Requests : HandleError(R)
    PROVE  StreamInv'
<1>1. PICK R \in SUBSET Requests : HandleError(R)
  OBVIOUS
<1>2. /\ UNCHANGED <<connected, active, restored, pc, todo>> /\ connected
      /\ broker' = [r \in Requests |-> IF r \in R THEN None ELSE broker[r]]
      /\ ended' = ended \cup R /\ R \subseteq Streaming
  BY <1>1 DEF HandleError, driverVars
<1>3. \A r \in R : broker'[r] = None /\ active[r] # None
  BY <1>2 DEF Streaming, StreamInv
<1>4. \A r \in ended : broker'[r] = None
  BY <1>2 DEF StreamInv, Streaming
<1>5. \A r \in Requests : broker'[r] \in {None, active[r]}
  BY <1>2 DEF StreamInv
<1> QED BY <1>2, <1>3, <1>4, <1>5 DEF StreamInv

\* The streams stay in step with the requests the transport believes active.
THEOREM StreamInvariant == FeedSpec => []StreamInv
<1>1. FeedInit => StreamInv
  BY DEF FeedInit, StreamInv, Silent
<1>2. FeedInv /\ StreamInv /\ [FeedNext]_feedVars => StreamInv'
  <2> SUFFICES ASSUME FeedInv, StreamInv, [FeedNext]_feedVars PROVE StreamInv'
    OBVIOUS
  <2>1. CASE UNCHANGED feedVars
    BY <2>1 DEF feedVars, transportVars, driverVars, StreamInv, Silent
  <2>2. ASSUME \/ \E s \in Watched : SourceSubscribe(s) \/ SourceUnsubscribe(s)
               \/ \E n \in 1..Cardinality(Watched) : SubscriptionEvents(n)
               \/ Drain \/ DrainStep \/ Tick
        PROVE  StreamInv'
    <3>1. UNCHANGED <<connected, active, broker, restored, ended>>
      BY <2>2 DEF SourceSubscribe, SourceUnsubscribe, SubscriptionEvents, Drain, DrainStep, Tick,
                  CheckStream, MarkStale, CopyPending, ClearPending, transportVars
    <3>2. pc' # "resubscribing" \/ UNCHANGED <<pc, todo>>
      BY <2>2 DEF SourceSubscribe, SourceUnsubscribe, SubscriptionEvents, Drain, DrainStep, Tick,
                  CheckStream, MarkStale, CopyPending, ClearPending, driverVars
    <3> QED BY <3>1, <3>2 DEF StreamInv, Silent
  <2>3. CASE FeedNext
    BY <2>2, <2>3, ConnectionsStream, RequestsStream, ErrorsStream, ReaderStreams DEF FeedNext
  <2> QED BY <2>1, <2>3
<1> QED BY <1>1, <1>2, FeedInvariant, PTL DEF FeedSpec

\* Once a connection's requests have been restored, the broker streams exactly the
\* requests the transport believes active but those it ended itself since they were
\* last made, for any number of requests and losses of the connection
\* (resubscribe_market_data).
THEOREM RestoredStreamsAlways == FeedSpec => []RestoredStreams
<1>1. FeedInv /\ StreamInv => RestoredStreams
  BY DEF FeedInv, Tables, StreamInv, RestoredStreams
<1> QED BY <1>1, FeedInvariant, StreamInvariant, PTL

=============================================================================
