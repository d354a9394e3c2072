\* Every spoiled file is loaded; those that are accepted with a timeout of at
\* most 5.5 s are played out, with a handler slow enough to stop the reader.
SPECIFICATION Spec
CONSTANTS
    Texts <- MCTexts
    Inputs <- MCInputs
    r1 = r1
    r2 = r2
    Reporters = {r1, r2}
    Initial = 1
    CallBuffer = 0
    CallTimeout = 7
    MaxDelay = 1
    MaxWork = 2
    MaxTimeout = 11
    Intervals = {0, 1, 2, 3}
    Timeouts = {0, 1, 2, 3, 10, 11}
SYMMETRY Symmetry
INVARIANTS
    LoadedIsUsable
    AllProblemsReported
    PunctualIsKept
    SilenceIsNoticed
