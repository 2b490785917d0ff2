SPECIFICATION FeedSpec
CONSTANTS
    Streams = {es, nq}
    Watched = {es}
    MaxRequests = 2
    MaxConnections = 2
    MaxAge = 1
    MaxPending = 2
    None = None
CHECK_DEADLOCK FALSE
INVARIANTS
    StreamingRegistered
    RestoredStreams
    QuoteAttribution
