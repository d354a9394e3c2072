---------------------------- MODULE StoreProofs ----------------------------
(***************************************************************************)
(* Proofs about the state file, for any number of updaters and any number  *)
(* of generations: it is never torn, memory and file agree, nothing that   *)
(* was reported as saved is handed out again, and Store implements         *)
(* AtomicStore.                                                            *)
(***************************************************************************)
EXTENDS Store, TLAPS

Readable == Generations \cup {Absent}

\* Whatever the path names, now or after a power cut, was synced before it
\* was renamed into place, and is whole.
SyncedInv ==
    /\ file \in entry
    /\ \A f \in entry : f.now = f.safe /\ f.now # Torn
    /\ pc = "sync" => tmp.now = mem + 1
    /\ pc \in {"close", "rename"} => tmp = Kept(mem + 1)

\* Where the file is relative to memory at each step of an update, and to what
\* a power cut may leave.  There may be several candidates for that, since a
\* process killed between rename and sync starts again without syncing; none is
\* newer than the file readers see.
MemoryInv ==
    /\ lock = NoOne <=> pc = "idle"
    /\ pc # "idle" => proc = "up" /\ mem < MaxGen
    /\ proc = "up" /\ pc \notin {"syncdir", "assign"} =>
          file.now \in Readable /\ mem = parse(file.now)
    /\ pc \in {"syncdir", "assign"} => file.now = mem + 1
    /\ proc = "refused" => file.now = Unreadable
    /\ file.now = Unreadable => entry = {file}
    /\ file.now # Unreadable => \A f \in entry :
          f.now \in Readable /\ parse(f.now) <= parse(file.now)

\* What survives a power cut, where the directory sync works: none of the
\* candidates is older than anything reported.  When Update reports there is
\* only one.
DurableInv ==
    /\ pc = "assign" => entry = {file}
    /\ proc = "up" => \A a \in acked : a <= mem
    /\ file.now # Unreadable =>
          \A f \in entry : \A a \in acked : a <= parse(f.now)
    /\ ~reused

IInv ==
    /\ TypeOK
    /\ SyncedInv
    /\ MemoryInv
    /\ durable => DurableInv

\* IInv holds before the first run.
LEMMA InitIInv == Init => IInv
<1> SUFFICES ASSUME Init PROVE IInv
  OBVIOUS
<1> USE StoreAssumption DEF Init, Kept, Absent, Torn, Unreadable
<1>1. TypeOK
  <2>1. Kept(Absent) \in Files
    BY DEF Files, Contents
  <2>2. 0 \in Generations
    BY DEF Generations
  <2>3. QED
    BY <2>1, <2>2, Zenon DEF TypeOK, Steps
<1>2. SyncedInv
  BY DEF SyncedInv
<1>3. MemoryInv /\ DurableInv
  BY DEF MemoryInv, DurableInv, Readable, parse
<1>4. QED
  BY <1>1, <1>2, <1>3 DEF IInv

\* Every step, every failure and every crash preserves IInv.
LEMMA StepIInv == IInv /\ [Next]_vars => IInv'
<1> SUFFICES ASSUME IInv, [Next]_vars PROVE IInv'
  OBVIOUS
<1>0. UNCHANGED durable
  BY DEF Next, vars
<1> USE <1>0, StoreAssumption
    DEF IInv, TypeOK, SyncedInv, MemoryInv, DurableInv, Steps, Files, Contents,
        Generations, Absent, Torn, Unreadable, Kept, Readable, parse
<1>1. CASE Open
  BY <1>1 DEF Open
<1>2. ASSUME NEW u \in Updaters, Update(u) PROVE IInv'
  <2>1. TypeOK' /\ SyncedInv'
    BY <1>2 DEF Update
  <2>2. MemoryInv'
    BY <1>2 DEF Update
  <2>3. durable' => DurableInv'
    BY <1>2 DEF Update
  <2>4. QED
    BY <2>1, <2>2, <2>3
<1>3. CASE CreateTemp
  BY <1>3 DEF CreateTemp, Advance
<1>4. CASE Write
  BY <1>4 DEF Write, Advance
<1>5. CASE Sync
  BY <1>5 DEF Sync, Advance
<1>6. CASE Close
  BY <1>6 DEF Close, Advance
<1>7. CASE Rename
  <2>1. /\ pc = "rename" /\ pc' = "syncdir"
        /\ UNCHANGED <<proc, mem, lock, acked, reused>>
        /\ file' = tmp /\ entry' = entry \cup {tmp} /\ tmp' = Kept(Absent)
    BY <1>7 DEF Rename, Advance
  <2>2. tmp = Kept(mem + 1) /\ mem + 1 \in Generations /\ mem = parse(file.now)
    BY <2>1
  <2>3. file.now \in Readable
    BY <2>1
  <2>4. ASSUME NEW f \in entry'
        PROVE  f.now \in Readable /\ parse(f.now) <= mem + 1
    <3>1. CASE f = tmp
      BY <2>2, <3>1
    <3>2. CASE f \in entry
      BY <2>2, <2>3, <3>2
    <3>3. QED
      BY <2>1, <2>4, <3>1, <3>2
  <2>5. TypeOK' /\ SyncedInv'
    BY <2>1, <2>2
  <2>6. MemoryInv'
    BY <2>1, <2>2, <2>4
  <2>7. ASSUME durable PROVE DurableInv'
    <3>1. \A a \in acked : a <= mem
      BY <2>1, <2>7
    <3>2. ASSUME NEW f \in entry', NEW a \in acked PROVE a <= parse(f.now)
      <4>1. CASE f = tmp
        BY <2>2, <3>1, <4>1
      <4>2. CASE f \in entry
        BY <2>2, <2>3, <2>7, <4>2
      <4>3. QED
        BY <2>1, <3>2, <4>1, <4>2
    <3>3. QED
      BY <2>1, <2>7, <3>1, <3>2
  <2>8. QED
    BY <2>5, <2>6, <2>7
<1>8. CASE WriteFails
  BY <1>8 DEF WriteFails
<1>9. CASE SyncDir
  BY <1>9 DEF SyncDir, Advance
<1>10. CASE Assign
  BY <1>10 DEF Assign
<1>11. CASE Killed
  BY <1>11 DEF Killed, Stopped
<1>12. ASSUME NEW f \in entry, PowerCut(f) PROVE IInv'
  BY <1>12 DEF PowerCut, Stopped
<1>13. CASE Spoiled
  BY <1>13 DEF Spoiled
<1>14. CASE MovedAside
  BY <1>14 DEF MovedAside
<1>15. CASE UNCHANGED vars
  BY <1>15 DEF vars
<1>16. QED
  BY <1>1, <1>2, <1>3, <1>4, <1>5, <1>6, <1>7, <1>8, <1>9, <1>10, <1>11, <1>12,
     <1>13, <1>14, <1>15
     DEF Next, Writing

\* IInv is an invariant of the store.
THEOREM IInvHolds == Spec => []IInv
BY InitIInv, StepIInv, PTL DEF Spec

-----------------------------------------------------------------------------
\* The store is type correct.
THEOREM TypeCorrect == Spec => []TypeOK
<1>1. IInv => TypeOK
  BY DEF IInv
<1>2. QED
  BY <1>1, IInvHolds, PTL

\* Neither a reader nor a restart, after a kill or a power cut at any point,
\* finds a torn state file: write syncs before it renames.
THEOREM NeverTornHolds == Spec => []NeverTorn
<1>1. IInv => NeverTorn
  BY DEF IInv, SyncedInv, NeverTorn
<1>2. QED
  BY <1>1, IInvHolds, PTL

\* Memory and file agree outside of the commit point, whichever step of an
\* update failed.
THEOREM MemoryMatchesFileHolds == Spec => []MemoryMatchesFile
<1>1. IInv => MemoryMatchesFile
  BY DEF IInv, MemoryInv, MemoryMatchesFile, Readable
<1>2. QED
  BY <1>1, IInvHolds, PTL

\* Where the directory sync works, no state that Update reported as saved is
\* handed out a second time.
THEOREM AckedNeverReusedHolds == Spec => []AckedNeverReused
<1>1. IInv => AckedNeverReused
  BY DEF IInv, DurableInv, AckedNeverReused
<1>2. QED
  BY <1>1, IInvHolds, PTL

-----------------------------------------------------------------------------
\* A file this build cannot read is replaced only after Open refused it.
THEOREM UnreadableIsKeptHolds == Spec => UnreadableIsKept
<1> DEFINE A == file.now = Unreadable /\ file'.now # Unreadable => proc = "refused"
<1>1. IInv /\ [Next]_vars => [A]_vars
  <2> SUFFICES ASSUME IInv, Next, file.now = Unreadable, file'.now # Unreadable
               PROVE  proc = "refused"
    BY DEF vars
  <2> USE DEF IInv, MemoryInv, SyncedInv, Unreadable, Absent, Readable, Generations, Kept
  <2>1. proc # "up" /\ pc = "idle"
    BY StoreAssumption DEF TypeOK
  <2>2. \A f \in entry : f = file /\ f.safe = Unreadable
    OBVIOUS
  <2>3. ~ \E f \in entry : PowerCut(f)
    BY <2>2 DEF PowerCut
  <2>4. ~ Spoiled /\ ~ Open /\ ~ Killed /\ ~ (\E u \in Updaters : Update(u))
    BY <2>1 DEF Spoiled, Open, Killed, Update
  <2>5. ~ Writing
    BY <2>1 DEF Writing, CreateTemp, Write, Sync, Close, Rename, WriteFails, SyncDir,
       Assign, Advance
  <2>6. MovedAside
    BY <2>3, <2>4, <2>5 DEF Next
  <2>7. QED
    BY <2>6 DEF MovedAside
<1>2. QED
  BY <1>1, IInvHolds, PTL DEF Spec, UnreadableIsKept

-----------------------------------------------------------------------------
\* The file readers see starts as the value of the atomic store.
LEMMA InitImplements == Init => Abs!Init
BY DEF Init, Abs!Init, parse, Kept, Absent

\* Every step is one of the atomic store's or changes nothing of it: rename is
\* its Replace, the end of Update its Report, a power cut before the directory
\* was synced its TakeBack.
LEMMA StepImplements ==
    IInv /\ [Next]_vars => [Abs!Next]_(Abs!vars)
<1> SUFFICES ASSUME IInv, [Next]_vars PROVE [Abs!Next]_(Abs!vars)
  OBVIOUS
<1>0. UNCHANGED durable
  BY DEF Next, vars
<1> USE <1>0, StoreAssumption
    DEF IInv, TypeOK, SyncedInv, MemoryInv, DurableInv, Steps, Files, Contents,
        Generations, Absent, Torn, Unreadable, Kept, Readable, parse
<1>1. ASSUME UNCHANGED <<file, acked>> PROVE UNCHANGED Abs!vars
  BY <1>1 DEF Abs!vars
<1>2. CASE Rename
  <2>1. /\ parse(file.now) = mem /\ mem \in 0 .. MaxGen - 1
        /\ parse(file'.now) = mem + 1 /\ UNCHANGED acked
    BY <1>2 DEF Rename, Advance
  <2>2. Abs!Replace
    BY <2>1 DEF Abs!Replace
  <2>3. QED
    BY <2>2 DEF Abs!Next
<1>3. CASE Assign
  <2>1. /\ parse(file.now) = mem + 1 /\ mem + 1 \in 1 .. MaxGen /\ (durable => mem + 1 \notin acked)
        /\ acked' = acked \cup {mem + 1} /\ UNCHANGED file
    BY <1>3 DEF Assign
  <2>2. Abs!Report
    BY <2>1 DEF Abs!Report
  <2>3. QED
    BY <2>2 DEF Abs!Next
<1>4. ASSUME NEW f \in entry, PowerCut(f) PROVE [Abs!Next]_(Abs!vars)
  <2>1. f.safe = f.now /\ file'.now = f.now /\ UNCHANGED acked
    BY <1>4 DEF PowerCut, Stopped
  <2>2. CASE parse(f.now) = parse(file.now)
    BY <2>1, <2>2 DEF Abs!vars
  <2>3. CASE parse(f.now) # parse(file.now)
    <3>1. file.now # Unreadable
      BY <1>4, <2>3
    <3>2. /\ f.now \in Readable /\ file.now \in Readable
          /\ parse(f.now) < parse(file.now)
          /\ durable => \A a \in acked : a <= parse(f.now)
      BY <1>4, <2>3, <3>1
    <3>3. Abs!TakeBack(parse(f.now))
      BY <2>1, <3>2 DEF Abs!TakeBack
    <3>4. parse(f.now) \in 0 .. MaxGen
      BY <3>2
    <3>5. QED
      BY <3>3, <3>4 DEF Abs!Next
  <2>4. QED
    BY <2>2, <2>3
<1>5. CASE Spoiled
  BY <1>5 DEF Spoiled, Abs!Spoil, Abs!Next
<1>6. CASE MovedAside
  BY <1>6 DEF MovedAside, Abs!StartOver, Abs!Next
<1>7. CASE Open \/ \E u \in Updaters : Update(u)
  BY <1>1, <1>7 DEF Open, Update
<1>8. CASE CreateTemp \/ Write \/ Sync \/ Close \/ WriteFails \/ SyncDir
  BY <1>1, <1>8 DEF CreateTemp, Write, Sync, Close, WriteFails, SyncDir, Advance
<1>9. CASE Killed
  BY <1>1, <1>9 DEF Killed, Stopped
<1>10. CASE UNCHANGED vars
  BY <1>1, <1>10 DEF vars
<1>11. QED
  BY <1>2, <1>3, <1>4, <1>5, <1>6, <1>7, <1>8, <1>9, <1>10 DEF Next, Writing

\* The store of temporary files, syncs and renames implements the store that
\* replaces its value in one step.
THEOREM StoreImplementsAtomic == Spec => ImplementsAtomic
BY InitImplements, StepImplements, IInvHolds, PTL
   DEF Spec, ImplementsAtomic, Abs!Spec
=============================================================================
