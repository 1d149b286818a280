SPECIFICATION PipeSpec
CONSTANTS
    Writers = {w1, w2, w3}
    Items = {i1, i2}
    NoItem = nil
    CloseInParallel = TRUE
PROPERTIES
    WriteReturns
    ReaderLearnsEnd
CHECK_DEADLOCK FALSE
