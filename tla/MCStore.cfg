\* Two updaters and four generations, on a platform that syncs directories and
\* on one that does not.
CONSTANTS
    Updaters = {u1, u2}
    NoOne = NoOne
    MaxGen = 4
SPECIFICATION Spec
INVARIANTS
    NeverTorn
    AckedNeverReused
    MemoryMatchesFile
PROPERTIES
    UnreadableIsKept
    ImplementsAtomic
