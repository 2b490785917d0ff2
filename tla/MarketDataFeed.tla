---------------------------- MODULE MarketDataFeed ----------------------------
(***************************************************************************)
(* The live market-data path: IbkrTwsMarketDataTransport and, as its       *)
(* callback sink, StreamingMarketDataSource.  Two threads share both       *)
(* without a lock.  The driver calls connect, subscribe, unsubscribe,      *)
(* resubscribe, disconnect and drain; ibapi's reader, one per connection,  *)
(* calls the tick handlers, and ends its connection when a handler raises. *)
(*                                                                         *)
(* A price is abstracted to the connection it came in on, the queue of     *)
(* pending events to its length, and a time to how long ago it was, capped *)
(* just above max_age.  Calls and callbacks take no time on that scale.    *)
(*                                                                         *)
(* The broker may refuse a request after it was made, drop a stream, and   *)
(* ends a snapshot by itself.  Of an error the transport keeps only the    *)
(* message: a queued one and a pacing backoff refuse a later subscription, *)
(* which then changes nothing, so that the error queue and the deadline    *)
(* are left out, and what is left of handle_error is that the tables stay. *)
(***************************************************************************)
EXTENDS Naturals, FiniteSets

CONSTANTS
    Streams,          \* instruments; one broker symbol and one logical key each
    Watched,          \* the instruments subscribed at the source
    MaxRequests,      \* bound: market-data requests made
    MaxConnections,   \* bound: connections made
    MaxAge,           \* max_age, in clock ticks
    MaxPending,       \* bound: queued events
    None

ASSUME FeedAssumption ==
    /\ MaxRequests \in Nat /\ MaxConnections \in Nat /\ MaxAge \in Nat /\ MaxPending \in Nat
    /\ Watched \subseteq Streams /\ None \notin Streams

Requests == 1..MaxRequests
Connections == 1..MaxConnections
Age == 0..(MaxAge + 1)

VARIABLES
    connected,   \* connected
    conn,        \* the connections made; the last one is the current one
    symbols,     \* _request_symbols
    active,      \* _active_requests
    quote,       \* _quote_state: the connection of each side's price, 0 for None
    nextReq,     \* _next_req_id
    broker,      \* external: the contract the broker streams for each request
    cb,          \* the callback a reader is in the middle of (bound: one at a time)
    pc,          \* what the driver is in the middle of
    cur,         \* the request or the stream it is at
    todo,        \* the requests or the streams it has still to visit
    subs,        \* _subscriptions
    last,        \* the keys of _last_event_at
    age,         \* time since the stream's reference time
    stale,       \* _stale_emitted
    pending,     \* number of events in _pending
    copied,      \* number of events in the tuple drain is about to return
    restored,    \* history: every active request was requested on this connection
    ended,       \* history: requests the broker ended, and not requested again since
    heard,       \* history: time since an event of the stream reached its subscription
    degraded     \* history: signalled as stale since its last event or (un)subscription

transportVars == <<connected, conn, symbols, active, quote, nextReq, broker, restored, ended>>
driverVars == <<pc, cur, todo>>
signalVars == <<subs, last, age, stale, heard, degraded>>
queueVars == <<pending, copied>>
sourceVars == <<signalVars, queueVars>>
feedVars == <<transportVars, cb, driverVars, sourceVars>>

NoQuote == [bid |-> 0, ask |-> 0]

Callback ==
    [step : {"lookup"}, on : Connections, req : Requests, contract : Streams,
     stream : {None}, keys : {{}}, mixed : BOOLEAN]
        \cup [step : {"record", "append"}, on : Connections, req : Requests, contract : Streams,
              stream : Streams, keys : SUBSET Watched, mixed : BOOLEAN]

Active == {r \in Requests : active[r] # None}

TransportTypeOK ==
    /\ connected \in BOOLEAN /\ conn \in 0..MaxConnections
    /\ symbols \in [Requests -> Streams \cup {None}]
    /\ active \in [Requests -> Streams \cup {None}]
    /\ quote \in [Requests -> [bid : 0..MaxConnections, ask : 0..MaxConnections]]
    /\ nextReq \in 1..(MaxRequests + 1)
    /\ broker \in [Requests -> Streams \cup {None}]
    /\ restored \in BOOLEAN /\ ended \subseteq Requests
    /\ cb \in Callback \cup {None}

DriverTypeOK ==
    /\ pc \in {"idle", "registered", "cancelled", "resubscribing", "check", "mark", "clear"}
    /\ cur \in CASE pc \in {"registered", "cancelled"} -> Requests
                [] pc = "mark" -> Watched
                [] OTHER -> {None}
    /\ todo \subseteq CASE pc = "resubscribing" -> Active
                       [] pc \in {"check", "mark"} -> subs
                       [] OTHER -> {}

SourceTypeOK ==
    /\ subs \subseteq Watched /\ last \subseteq Watched /\ stale \subseteq Watched
    /\ age \in [Watched -> Age] /\ heard \in [Watched -> Age]
    /\ degraded \subseteq Watched
    /\ pending \in 0..MaxPending /\ copied \in 0..MaxPending

FeedTypeOK == TransportTypeOK /\ DriverTypeOK /\ SourceTypeOK

FeedInit ==
    /\ connected = FALSE /\ conn = 0
    /\ symbols = [r \in Requests |-> None] /\ active = [r \in Requests |-> None]
    /\ quote = [r \in Requests |-> NoQuote]
    /\ nextReq = 1
    /\ broker = [r \in Requests |-> None]
    /\ cb = None
    /\ pc = "idle" /\ cur = None /\ todo = {}
    /\ subs = {} /\ last = {} /\ stale = {}
    /\ age = [s \in Watched |-> 0] /\ heard = [s \in Watched |-> MaxAge + 1]
    /\ degraded = {}
    /\ pending = 0 /\ copied = 0
    /\ restored = FALSE /\ ended = {}

Silent == [r \in Requests |-> None]

-----------------------------------------------------------------------------
(***************************************************************************)
(* The connection.                                                         *)
(***************************************************************************)

\* connect: a new app and reader; what the last connection left in the
\* registration and quote tables stays there.
Connect ==
    /\ pc = "idle" /\ ~connected
    /\ conn < MaxConnections
    /\ connected' = TRUE
    /\ conn' = conn + 1
    /\ restored' = (Active = {})
    /\ UNCHANGED <<symbols, active, quote, nextReq, broker, ended, cb, driverVars,
                   sourceVars>>

\* A disconnect after which requests are numbered from 1 again.
DisconnectRenumbers ==
    /\ pc = "idle"
    /\ connected' = FALSE
    /\ symbols' = Silent
    /\ quote' = [r \in Requests |-> NoQuote]
    /\ broker' = Silent /\ ended' = {}
    /\ nextReq' = 1
    /\ UNCHANGED <<conn, active, restored, cb, driverVars, sourceVars>>

\* disconnect, also as the way out of a connect that fails.  The reader is
\* joined for two seconds at most, so it may still be in a callback.
Disconnect ==
    /\ pc = "idle"
    /\ connected' = FALSE
    /\ symbols' = Silent
    /\ quote' = [r \in Requests |-> NoQuote]
    /\ broker' = Silent /\ ended' = {}
    /\ UNCHANGED <<conn, active, nextReq, restored, cb, driverVars, sourceVars>>

\* external: the socket closes, at any point of a call.
ConnectionLost ==
    /\ connected
    /\ connected' = FALSE
    /\ broker' = Silent /\ ended' = {}
    /\ UNCHANGED <<conn, symbols, active, quote, nextReq, restored, cb,
                   driverVars, sourceVars>>

-----------------------------------------------------------------------------
(***************************************************************************)
(* Requests.  ibapi drops a request on a closed connection; an open one    *)
(* streams until the broker or the transport ends it.                      *)
(***************************************************************************)
Requested(r, s) == IF connected THEN [broker EXCEPT ![r] = s] ELSE broker

Streaming == {r \in Requests : broker[r] # None}

\* external: the broker ends streams of its own.  handle_error of a refusal (200,
\* 354, 10168) or of lost data (1101, which ends them all) puts the message on the
\* error queue and leaves the request registered and active; the end of a snapshot
\* has no handler.
HandleError(R) ==
    /\ connected /\ cb = None
    /\ R # {} /\ R \subseteq Streaming
    /\ Cardinality(R) = 1 \/ R = Streaming
    /\ broker' = [r \in Requests |-> IF r \in R THEN None ELSE broker[r]]
    /\ ended' = ended \cup R
    /\ UNCHANGED <<connected, conn, symbols, active, quote, nextReq, restored, cb,
                   driverVars, sourceVars>>

\* A subscription that sends its request before it registers the symbol.
RequestFirst(s) ==
    /\ pc = "idle" /\ connected
    /\ nextReq \in Requests
    /\ nextReq' = nextReq + 1
    /\ broker' = Requested(nextReq, s)
    /\ symbols' = symbols
    /\ active' = [active EXCEPT ![nextReq] = s]
    /\ pc' = "registered" /\ cur' = nextReq
    /\ UNCHANGED <<connected, conn, quote, restored, ended, cb, todo, sourceVars>>

\* subscribe_market_data up to register_market_data_request.
Subscribe(s) ==
    /\ pc = "idle" /\ connected
    /\ nextReq \in Requests
    /\ nextReq' = nextReq + 1
    /\ symbols' = [symbols EXCEPT ![nextReq] = s]
    /\ pc' = "registered" /\ cur' = nextReq
    /\ UNCHANGED <<connected, conn, active, quote, broker, restored, ended, cb, todo,
                   sourceVars>>

\* reqMktData, and the request becomes active.
SendRequest ==
    /\ pc = "registered"
    /\ broker' = Requested(cur, symbols[cur])
    /\ active' = [active EXCEPT ![cur] = symbols[cur]]
    /\ pc' = "idle" /\ cur' = None
    /\ UNCHANGED <<connected, conn, symbols, quote, nextReq, restored, ended, cb, todo,
                   sourceVars>>

\* unsubscribe_market_data: cancelMktData first; callbacks keep coming ...
Unsubscribe(r) ==
    /\ pc = "idle" /\ connected
    /\ r \in Active
    /\ pc' = "cancelled" /\ cur' = r
    /\ UNCHANGED <<transportVars, cb, todo, sourceVars>>

\* A cancellation that leaves the request to be restored after a reconnect.
ForgetAllButActive ==
    /\ pc = "cancelled"
    /\ symbols' = [symbols EXCEPT ![cur] = None]
    /\ quote' = [quote EXCEPT ![cur] = NoQuote]
    /\ broker' = [broker EXCEPT ![cur] = None] /\ ended' = ended \ {cur}
    /\ pc' = "idle" /\ cur' = None
    /\ UNCHANGED <<connected, conn, active, nextReq, restored, cb, todo, sourceVars>>

\* ... then the tables forget the request; what still comes in is ignored.
ForgetRequest ==
    /\ pc = "cancelled"
    /\ active' = [active EXCEPT ![cur] = None]
    /\ symbols' = [symbols EXCEPT ![cur] = None]
    /\ quote' = [quote EXCEPT ![cur] = NoQuote]
    /\ broker' = [broker EXCEPT ![cur] = None] /\ ended' = ended \ {cur}
    /\ pc' = "idle" /\ cur' = None
    /\ UNCHANGED <<connected, conn, nextReq, restored, cb, todo, sourceVars>>

\* resubscribe_market_data: every active request, in order, under its old id.
\* The quote state is kept (setdefault).
Resubscribe ==
    /\ pc = "idle" /\ connected
    /\ pc' = "resubscribing" /\ todo' = Active
    /\ UNCHANGED <<transportVars, cb, cur, sourceVars>>

ResubscribeNext ==
    /\ pc = "resubscribing"
    /\ \E r \in todo :
          /\ \A q \in todo : r <= q
          /\ symbols' = [symbols EXCEPT ![r] = active[r]]
          /\ broker' = Requested(r, active[r])
          /\ ended' = ended \ {r}
          /\ todo' = todo \ {r}
    /\ UNCHANGED <<connected, conn, active, quote, nextReq, restored, cb, pc,
                   cur, sourceVars>>

ResubscribeEnds ==
    /\ pc = "resubscribing" /\ todo = {}
    /\ pc' = "idle"
    /\ restored' = TRUE
    /\ UNCHANGED <<connected, conn, symbols, active, quote, nextReq, broker, ended, cb,
                   cur, todo, sourceVars>>

-----------------------------------------------------------------------------
(***************************************************************************)
(* The reader's callbacks.                                                 *)
(***************************************************************************)

\* handle_tick_price and handle_tick_size, up to the lookup of the symbol.  A
\* request that is not registered is ignored; a side is stored; a quote needs
\* both sides, a trade none.
HandleTick(r, kind) ==
    /\ connected /\ cb = None
    /\ broker[r] # None /\ symbols[r] # None
    /\ quote' = CASE kind = "bid" -> [quote EXCEPT ![r].bid = conn]
                  [] kind = "ask" -> [quote EXCEPT ![r].ask = conn]
                  [] OTHER -> quote
    /\ LET q == quote'[r]
       IN cb' = IF kind = "last" \/ (q.bid # 0 /\ q.ask # 0)
                THEN [step |-> "lookup", on |-> conn, req |-> r, contract |-> broker[r],
                      stream |-> None, keys |-> {}, mixed |-> kind # "last" /\ q.bid # q.ask]
                ELSE cb
    /\ UNCHANGED <<connected, conn, symbols, active, nextReq, broker, restored, ended,
                   driverVars, sourceVars>>

\* external: EClient.run ends in a finally that disconnects the app it belongs
\* to, which is the transport's app only on the current connection.
ReaderDies ==
    /\ cb' = None
    /\ IF cb.on = conn THEN connected' = FALSE /\ broker' = Silent /\ ended' = {}
                       ELSE UNCHANGED <<connected, broker, ended>>
    /\ UNCHANGED <<conn, symbols, active, quote, nextReq, restored>>

\* _broker_symbol_for, then the sink's normalisation, up to the first item of
\* _record_event's iteration.
LookupSymbol ==
    /\ cb # None /\ cb.step = "lookup"
    /\ symbols[cb.req] # None
    /\ cb' = [cb EXCEPT !.step = "record", !.stream = symbols[cb.req], !.keys = subs]
    /\ UNCHANGED <<transportVars, driverVars, sourceVars>>

LookupFails ==
    /\ cb # None /\ cb.step = "lookup"
    /\ symbols[cb.req] = None
    /\ ReaderDies
    /\ UNCHANGED <<driverVars, sourceVars>>

\* What _record_event does to a subscription of the stream.
Heard(s) ==
    /\ last' = last \cup {s}
    /\ age' = [age EXCEPT ![s] = 0]
    /\ stale' = stale \ {s}
    /\ heard' = [heard EXCEPT ![s] = 0]

\* on_quote and on_tick refresh the matching subscription ...
RecordEvent ==
    /\ cb # None /\ cb.step = "record"
    /\ Cardinality(subs) = Cardinality(cb.keys)
    /\ IF cb.stream \in subs
       THEN Heard(cb.stream)
       ELSE UNCHANGED <<last, age, stale, heard>>
    /\ cb' = [cb EXCEPT !.step = "append"]
    /\ UNCHANGED <<transportVars, driverVars, subs, degraded, queueVars>>

\* ... and then queue the event, whether or not there is one.
AppendEvent ==
    /\ cb # None /\ cb.step = "append"
    /\ pending < MaxPending
    /\ pending' = pending + 1
    /\ degraded' = degraded \ {cb.stream}
    /\ cb' = None
    /\ UNCHANGED <<transportVars, driverVars, subs, last, age, stale, heard, copied>>

\* The driver changed the dictionary's size during the iteration: it raises,
\* before or after it has reached the stream's own entry.
RecordFails ==
    /\ cb # None /\ cb.step = "record"
    /\ Cardinality(subs) # Cardinality(cb.keys)
    /\ \/ cb.stream \in cb.keys /\ Heard(cb.stream) /\ degraded' = degraded \ {cb.stream}
       \/ UNCHANGED <<last, age, stale, heard, degraded>>
    /\ ReaderDies
    /\ UNCHANGED <<driverVars, subs, queueVars>>

-----------------------------------------------------------------------------
(***************************************************************************)
(* The source's side of the driver.                                        *)
(***************************************************************************)

\* subscribe, also of a key that is already there.
SourceSubscribe(s) ==
    /\ pc = "idle"
    /\ pending < MaxPending
    /\ subs' = subs \cup {s}
    /\ stale' = stale \ {s}
    /\ degraded' = degraded \ {s}
    /\ age' = [age EXCEPT ![s] = IF s \in last THEN @ ELSE 0]
    /\ pending' = pending + 1
    /\ UNCHANGED <<transportVars, cb, driverVars, last, heard, copied>>

SourceUnsubscribe(s) ==
    /\ pc = "idle"
    /\ s \in subs
    /\ pending < MaxPending
    /\ subs' = subs \ {s}
    /\ last' = last \ {s}
    /\ stale' = stale \ {s}
    /\ degraded' = degraded \ {s}
    /\ age' = [age EXCEPT ![s] = 0]
    /\ pending' = pending + 1
    /\ UNCHANGED <<transportVars, cb, driverVars, heard, copied>>

\* mark_resubscribed, mark_subscription_failed: an event for one subscription;
\* resubscribe_active_subscriptions: one for each.
SubscriptionEvents(n) ==
    /\ pc = "idle"
    /\ n \in {1, Cardinality(subs)} /\ subs # {}
    /\ pending + n <= MaxPending
    /\ pending' = pending + n
    /\ UNCHANGED <<transportVars, cb, driverVars, signalVars, copied>>

-----------------------------------------------------------------------------
(***************************************************************************)
(* drain.                                                                  *)
(***************************************************************************)
Drain ==
    /\ pc = "idle"
    /\ pc' = "check" /\ todo' = subs
    /\ UNCHANGED <<transportVars, cb, cur, sourceVars>>

\* _append_stale_degradations reads the reference time and _stale_emitted ...
CheckStream(s) ==
    /\ pc = "check" /\ s \in todo
    /\ todo' = todo \ {s}
    /\ IF age[s] > MaxAge /\ s \notin stale
       THEN pc' = "mark" /\ cur' = s
       ELSE UNCHANGED <<pc, cur>>
    /\ UNCHANGED <<transportVars, cb, sourceVars>>

\* ... and then queues the signal and remembers it.
MarkStale ==
    /\ pc = "mark" /\ pending < MaxPending
    /\ pending' = pending + 1
    /\ stale' = stale \cup {cur}
    /\ degraded' = degraded \cup {cur}
    /\ pc' = "check" /\ cur' = None
    /\ UNCHANGED <<transportVars, cb, todo, subs, last, age, heard, copied>>

\* tuple(self._pending)
CopyPending ==
    /\ pc = "check" /\ todo = {}
    /\ copied' = pending
    /\ pc' = "clear"
    /\ UNCHANGED <<transportVars, cb, cur, todo, signalVars, pending>>

\* self._pending.clear()
ClearPending ==
    /\ pc = "clear"
    /\ pending' = 0 /\ copied' = 0
    /\ pc' = "idle"
    /\ UNCHANGED <<transportVars, cb, cur, todo, signalVars>>

\* The clock.
Older(a) == [s \in Watched |-> IF a[s] > MaxAge THEN a[s] ELSE a[s] + 1]

Tick ==
    /\ pc = "idle" /\ cb = None
    /\ age' = [s \in Watched |-> IF s \in subs \cup last THEN Older(age)[s] ELSE age[s]]
    /\ heard' = Older(heard)
    /\ UNCHANGED <<transportVars, cb, driverVars, subs, last, stale, degraded,
                   queueVars>>

-----------------------------------------------------------------------------
DrainStep ==
    \/ \E s \in Watched : CheckStream(s)
    \/ MarkStale \/ CopyPending \/ ClearPending

ReaderStep ==
    LookupSymbol \/ LookupFails \/ RecordEvent \/ AppendEvent \/ RecordFails

FeedNext ==
    \/ Connect \/ Disconnect \/ ConnectionLost
    \/ \E s \in Streams : Subscribe(s)
    \/ SendRequest
    \/ \E r \in Requests : Unsubscribe(r)
    \/ ForgetRequest
    \/ Resubscribe \/ ResubscribeNext \/ ResubscribeEnds
    \/ \E R \in SUBSET Requests : HandleError(R)
    \/ \E r \in Requests, kind \in {"bid", "ask", "size", "last"} : HandleTick(r, kind)
    \/ ReaderStep
    \/ \E s \in Watched : SourceSubscribe(s) \/ SourceUnsubscribe(s)
    \/ \E n \in 1..Cardinality(Watched) : SubscriptionEvents(n)
    \/ Drain \/ DrainStep
    \/ Tick

FeedSpec == FeedInit /\ [][FeedNext]_feedVars

-----------------------------------------------------------------------------
(***************************************************************************)
(* Properties.                                                             *)
(***************************************************************************)

\* Whatever the broker streams is registered under its own symbol, in the middle
\* of every call and across reconnects: no quote of a live request is dropped as
\* unknown (subscribe_market_data, unsubscribe_market_data, resubscribe_market_data,
\* disconnect).
StreamingRegistered ==
    \A r \in Requests : broker[r] # None => symbols[r] = broker[r]

\* Once a connection's requests have been restored, the broker streams exactly
\* the requests the transport believes active but those it has ended itself since
\* they were last made, and on a new connection these are requested too: through
\* later subscriptions and cancellations, however often the connection was lost
\* before, and also when it closes in the middle (resubscribe_market_data).
RestoredStreams ==
    restored /\ connected /\ pc = "idle" =>
        \A r \in Requests : broker[r] = (IF r \in ended THEN None ELSE active[r])

\* An event is filed under the instrument whose contract the broker sent it for,
\* also when the reader looks the request up after the driver has cancelled it,
\* disconnected, or made other requests (handle_tick_price, _broker_symbol_for).
QuoteAttribution ==
    cb # None /\ cb.step # "lookup" => cb.stream = cb.contract

\* A stream is found stale only when nothing reached its subscription for more than
\* max_age, whatever subscriptions, cancellations and callbacks that raised came
\* in between (_record_event, _append_stale_degradations).
StaleMeansSilent ==
    [][pc = "check" /\ pc' = "mark" => heard[cur'] > MaxAge]_feedVars

\* A signal is given once: a stream signalled as stale is not signalled again
\* before an event of it or a new subscription (_stale_emitted).
OneShotDegradation ==
    [][\A s \in Watched : pc = "mark" /\ cur = s /\ pending' > pending /\ pc' = "check"
          => s \notin degraded]_feedVars

\* drain: "Return queued events and one-shot stale-data degradation signals."
\* What the reader queues is returned by some drain.
NoEventLost == [][pc = "clear" /\ pc' = "idle" => pending = copied]_feedVars

\* drain's "one-shot stale-data degradation signals": when a drain is over, every
\* subscription that has been silent for too long was signalled since it was last
\* heard of.
SilenceReported ==
    [][pc = "clear" /\ pc' = "idle" =>
          \A s \in subs : age[s] > MaxAge => s \in degraded]_feedVars

\* The transport's callbacks never raise into ibapi's reader.
ReaderNeverRaises ==
    [][cb # None /\ cb' = None => pending' > pending]_feedVars

\* resubscribe_market_data: "Restore active market-data subscriptions after
\* reconnect."  What the transport believes active is streamed, whatever errors the
\* broker has sent (_active_requests, handle_error).
ActiveIsStreamed == restored /\ connected /\ pc = "idle" => broker = active

\* A quote has both its sides from one connection (_maybe_emit_quote).
QuoteOfOneConnection == cb # None => ~cb.mixed

=============================================================================
