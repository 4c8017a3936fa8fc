CONSTANTS
    Writers = {ticker, dispatcher, caller}
    Stream <- MCStream
    Header <- MCHeader
SPECIFICATION FairPacketSpec
INVARIANTS
    FramedUnlessOverlapping
    DeliveredInOrder
PROPERTY ArrivedIsDelivered
CHECK_DEADLOCK FALSE
