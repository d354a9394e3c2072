\* Two publishers with two events each, two subscribers with room for one.
CONSTANTS
    Publishers = {p1, p2}
    Subscribers = {s1, s2}
    Buffer = 1
    MaxEvents = 2
SPECIFICATION FairSpec
INVARIANTS
    NoSendOnClosed
    NoSilentLoss
PROPERTIES
    PublishReturns
    UnsubscribeEnds
CHECK_DEADLOCK FALSE
