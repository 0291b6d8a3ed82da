CONSTANTS
    StrikePairs = {"u"}
    Tokens = {1, 2}
    legsOf <- ScannerLegs
    MaxPipelines = 1
    MaxFills = 2
    MaxStoreLosses = 1
SPECIFICATION ScannerSpec
INVARIANT NoFillForgotten
CHECK_DEADLOCK FALSE
