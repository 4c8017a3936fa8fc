CONSTANTS
    Callers = {c1, c2}
    GlobalPayload = getMediaStatus
    Channels = {receiver, media}
    MediaChannels = {media}
    MaxRequests = 2
SPECIFICATION FairSpec
INVARIANTS
    RequestIDsUnique
    ReplyMatchesRequest
    InFlightIsPending
    StallMeansTimeout
PROPERTIES
    ImplementsRequestReply
    WaitingRequestReturns
CHECK_DEADLOCK FALSE
