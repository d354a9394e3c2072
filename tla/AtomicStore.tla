---------------------------- MODULE AtomicStore ----------------------------
(***************************************************************************)
(* What state.Store promises its callers, without files: one value that an *)
(* update replaces in one step, and that is reported to the caller only    *)
(* once it is in place.  A crash may take back values; where the file      *)
(* system syncs directories, only those that were never reported.          *)
(***************************************************************************)
EXTENDS Integers

CONSTANTS MaxGen, Unreadable

VARIABLES
    value,      \* the state in force: its generation, or Unreadable
    acked,      \* the generations whose update was reported as successful
    durable     \* the file system syncs directories

vars == <<value, acked, durable>>

Init == value = 0 /\ acked = {} /\ durable \in BOOLEAN

\* An update takes effect.
Replace ==
    /\ value \in 0 .. MaxGen - 1
    /\ value' = value + 1
    /\ UNCHANGED <<acked, durable>>

\* Its caller is told, at most once per generation that cannot be lost.
Report ==
    /\ value \in 1 .. MaxGen
    /\ durable => value \notin acked
    /\ acked' = acked \cup {value}
    /\ UNCHANGED <<value, durable>>

\* A crash goes back to an earlier value, and if values are
\* durable to none older than a reported one.
TakeBack(v) ==
    /\ value \in 1 .. MaxGen
    /\ v < value
    /\ durable => \A a \in acked : a <= v
    /\ value' = v
    /\ UNCHANGED <<acked, durable>>

\* Someone else writes a file this build cannot read: it stays.
Spoil == value' = Unreadable /\ UNCHANGED <<acked, durable>>

\* The operator moves an unreadable file aside and starts over.
StartOver ==
    /\ value = Unreadable
    /\ value' = 0
    /\ acked' = {}
    /\ UNCHANGED durable

Next == Replace \/ Report \/ (\E v \in 0 .. MaxGen : TakeBack(v)) \/ Spoil \/ StartOver

Spec == Init /\ [][Next]_vars
=============================================================================
