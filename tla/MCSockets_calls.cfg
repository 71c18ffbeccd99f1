SPECIFICATION Spec
CONSTANTS
    c1 = c1
    c2 = c2
    Accepted = {c2}
    Conns = {c1, c2}
    NONE = NONE
    EvMax = 16
    KinLen = 8
    AtxLen = 1
    RxLen = 2
    TxLen = 1
    RxTotal <- Rx
    TxTotal <- Tx
    ArxLen = 1
    Refused = {"open", "listen"}
    Manners = {"prompt", "confirmed", "polled", "quiet", "open", "listening"}
CHECK_DEADLOCK FALSE
INVARIANTS   BumpListExact ReadyIsSet Driven
