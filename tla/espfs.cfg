SPECIFICATION Spec
CONSTANTS
    Inputs <- MCInputs
    Asked <- MCAsked
    ReadLens = {1, 4, 64}
    FeedSize = 3
    NULL = NULL
INVARIANTS RoundTrip OpensRight
PROPERTIES CallsReturn
CHECK_DEADLOCK FALSE
