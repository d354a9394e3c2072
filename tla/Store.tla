------------------------------- MODULE Store -------------------------------
(***************************************************************************)
(* The state file (internal/state): Open, and Update with its atomic       *)
(* replacement of the file, interrupted at any point by the death of the   *)
(* process or by a power cut.                                              *)
(*                                                                         *)
(* A state is abstracted to its generation: every successful fn makes the  *)
(* next one, as the id counters in it do (NextReservationID++).  A file is *)
(* the content a reader sees now and the content that is on stable storage *)
(* (safe); they differ until the file is synced.  A rename replaces the    *)
(* directory entry at once for readers, but a power cut may undo it until  *)
(* the directory is synced.                                                *)
(***************************************************************************)
EXTENDS Integers

CONSTANTS
    Updaters,       \* the goroutines that call Update
    NoOne,          \* nobody holds Store.mu
    MaxGen          \* bound on the generations written

ASSUME StoreAssumption ==
    /\ NoOne \notin Updaters
    /\ MaxGen \in Nat

\* Contents of a file other than a state's generation.
Absent     == -1    \* no such file
Torn       == -2    \* part of a state
Unreadable == -3    \* not JSON, no version, or a version of another cpms

Generations == 0 .. MaxGen
Contents    == Generations \cup {Absent, Torn, Unreadable}
Files       == [now : Contents, safe : Contents]

Kept(content) == [now |-> content, safe |-> content]

VARIABLES
    proc,       \* "down", "up", or "refused" when Open returned an error
    mem,        \* Store.state
    lock,       \* Store.mu
    pc,         \* where the holder of the mutex is in Update
    tmp,        \* the temporary file of the write in progress
    file,       \* the file the path names
    entry,      \* the files the path may name after a power cut
    durable,    \* external: directory syncs succeed (on Windows none is made)
    acked,      \* history: generations whose Update returned nil
    reused      \* history: some generation was reported twice

vars == <<proc, mem, lock, pc, tmp, file, entry, durable, acked, reused>>

Steps == {"idle", "create", "write", "sync", "close", "rename", "syncdir", "assign"}

Init ==
    /\ proc = "down"
    /\ mem = 0
    /\ lock = NoOne
    /\ pc = "idle"
    /\ tmp = Kept(Absent)
    /\ file = Kept(Absent)
    /\ entry = {Kept(Absent)}
    /\ durable \in BOOLEAN
    /\ acked = {}
    /\ reused = FALSE

-----------------------------------------------------------------------------
\* parse: what a readable file, or none, stands for.
parse(content) == IF content = Absent THEN 0 ELSE content

\* Mutant of Open: a file that cannot be parsed is taken for a missing one.
OpenAnyway ==
    /\ proc = "down"
    /\ proc' = "up"
    /\ mem' = IF file.now \in Generations THEN file.now ELSE 0
    /\ UNCHANGED <<lock, pc, tmp, file, entry, acked, reused>>

\* Open: loads the file, or refuses to run on one it cannot parse.
Open ==
    /\ proc = "down"
    /\ \/ /\ file.now \in Generations \cup {Absent}
          /\ proc' = "up"
          /\ mem' = parse(file.now)
       \/ /\ file.now \in {Torn, Unreadable}
          /\ proc' = "refused"
          /\ UNCHANGED mem
    /\ UNCHANGED <<lock, pc, tmp, file, entry, acked, reused>>

\* Update takes the mutex, clones the state and calls fn, which succeeds; an
\* fn that fails changes nothing.
Update(u) ==
    /\ proc = "up"
    /\ lock = NoOne
    /\ mem < MaxGen
    /\ lock' = u
    /\ pc' = "create"
    /\ UNCHANGED <<proc, mem, tmp, file, entry, acked, reused>>

Advance(from, to) ==
    /\ pc = from
    /\ pc' = to
    /\ UNCHANGED <<proc, mem, lock, acked, reused>>

CreateTemp ==
    /\ Advance("create", "write")
    /\ tmp' = Kept(Torn)
    /\ UNCHANGED <<file, entry>>

Write ==
    /\ Advance("write", "sync")
    /\ tmp' = [tmp EXCEPT !.now = mem + 1]
    /\ UNCHANGED <<file, entry>>

\* Mutant of Sync: the file is not flushed.
SyncSkipped == Advance("sync", "close") /\ UNCHANGED <<tmp, file, entry>>

Sync ==
    /\ Advance("sync", "close")
    /\ tmp' = Kept(tmp.now)
    /\ UNCHANGED <<file, entry>>

Close == Advance("close", "rename") /\ UNCHANGED <<tmp, file, entry>>

Rename ==
    /\ Advance("rename", "syncdir")
    /\ file' = tmp
    /\ entry' = entry \cup {tmp}
    /\ tmp' = Kept(Absent)

\* One of the steps up to the rename fails: the temporary file is removed and
\* Update returns the error.
WriteFails ==
    /\ pc \in {"create", "write", "sync", "close", "rename"}
    /\ pc' = "idle"
    /\ lock' = NoOne
    /\ tmp' = Kept(Absent)
    /\ UNCHANGED <<proc, mem, file, entry, acked, reused>>

\* Mutant of SyncDir: the directory is not synced.
SyncDirSkipped == Advance("syncdir", "assign") /\ UNCHANGED <<tmp, file, entry>>

\* Mutant of SyncDir: a failure is reported as a failed update.
SyncDirReported ==
    \/ Advance("syncdir", "assign") /\ entry' = {file} /\ UNCHANGED <<tmp, file>>
    \/ /\ ~durable
       /\ pc = "syncdir"
       /\ pc' = "idle"
       /\ lock' = NoOne
       /\ UNCHANGED <<proc, mem, tmp, file, entry, acked, reused>>

\* syncDir, whose result is ignored.
SyncDir ==
    /\ Advance("syncdir", "assign")
    /\ \/ entry' = {file}
       \/ ~durable /\ UNCHANGED entry
    /\ UNCHANGED <<tmp, file>>

\* The new state becomes visible and Update returns nil.
Assign ==
    /\ pc = "assign"
    /\ mem' = mem + 1
    /\ acked' = acked \cup {mem + 1}
    /\ reused' = (reused \/ mem + 1 \in acked)
    /\ pc' = "idle"
    /\ lock' = NoOne
    /\ UNCHANGED <<proc, tmp, file, entry>>

-----------------------------------------------------------------------------
\* The process ends, by itself or killed; a temporary file stays behind under
\* a name nobody uses again.
Stopped ==
    /\ proc' = "down"
    /\ mem' = 0
    /\ lock' = NoOne
    /\ pc' = "idle"
    /\ tmp' = Kept(Absent)
    /\ UNCHANGED <<acked, reused>>

Killed ==
    /\ proc = "up"
    /\ Stopped
    /\ UNCHANGED <<file, entry>>

\* The machine loses power: only what was synced is left.
PowerCut(f) ==
    /\ Stopped
    /\ file' = Kept(f.safe)
    /\ entry' = {Kept(f.safe)}

\* Between two runs another cpms, or an editor, leaves a file this build does
\* not read.
Spoiled ==
    /\ proc = "down"
    /\ file' = Kept(Unreadable)
    /\ entry' = {Kept(Unreadable)}
    /\ UNCHANGED <<proc, mem, lock, pc, tmp, acked, reused>>

\* What Open's error asks the operator to do.
MovedAside ==
    /\ proc = "refused"
    /\ proc' = "down"
    /\ file' = Kept(Absent)
    /\ entry' = {Kept(Absent)}
    /\ acked' = {}
    /\ UNCHANGED <<mem, lock, pc, tmp, reused>>

Writing == CreateTemp \/ Write \/ Sync \/ Close \/ Rename \/ WriteFails \/ SyncDir \/ Assign

Next ==
    /\ \/ Open
       \/ \E u \in Updaters : Update(u)
       \/ Writing
       \/ Killed
       \/ \E f \in entry : PowerCut(f)
       \/ Spoiled
       \/ MovedAside
    /\ UNCHANGED durable

Spec == Init /\ [][Next]_vars
-----------------------------------------------------------------------------
TypeOK ==
    /\ proc \in {"down", "up", "refused"}
    /\ mem \in Generations
    /\ lock \in Updaters \cup {NoOne}
    /\ pc \in Steps
    /\ tmp \in Files
    /\ file \in Files
    /\ entry \in SUBSET Files
    /\ durable \in BOOLEAN
    /\ acked \in SUBSET Generations
    /\ reused \in BOOLEAN

\* write's promise: a reader, and a restart after the process died or power
\* was lost at any point, finds the old file or the new one, never a torn mix.
NeverTorn ==
    /\ file.now # Torn
    /\ \A f \in entry : f.safe # Torn

\* Until the rename, the commit point, and again once Update has returned,
\* memory and file hold the same state, whichever step failed in between: a
\* failed update changes neither, and Get never shows what is not on disk.
MemoryMatchesFile ==
    proc = "up" /\ pc \notin {"syncdir", "assign"} =>
        file.now \in Generations \cup {Absent} /\ mem = parse(file.now)

\* Where the directory sync works, a state reported as saved is never handed
\* out again: no crash, and no failed step of a later update, loses it.
AckedNeverReused == durable => ~reused

\* A file this build cannot read is only ever replaced after Open refused it
\* and the operator moved it aside: it may hold the only copy of a token.
UnreadableIsKept ==
    [][file.now = Unreadable /\ file'.now # Unreadable => proc = "refused"]_vars

\* Implementation: the value in force is the content of the file.
Abs == INSTANCE AtomicStore WITH value <- parse(file.now)

\* Store implements the atomic store.
ImplementsAtomic == Abs!Spec
=============================================================================
