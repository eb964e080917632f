SPECIFICATION Spec
CONSTANTS
    Inputs <- MCInputs
    Null = Null
    Broken = Broken
    Unsupported = Unsupported
    Narrow = FALSE
    Half32 = 4
    Half64 = 16
INVARIANTS AnswerExact SumExact NoWorkerStopped
