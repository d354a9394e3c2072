-------------------------- MODULE SimulatorProofs --------------------------
(***************************************************************************)
(* Proofs about the charge point simulator, for any number of connectors   *)
(* and goroutines, whatever the scenario and the order of the commands.    *)
(*                                                                         *)
(* The inductive invariant says what a goroutine may be holding at each    *)
(* place of its code (JobInv), which transactions are held and by whom     *)
(* (HoldInv), that an undisturbed start has a connector without a session  *)
(* to itself (StartInv), and who owes the CSMS a report (ReportInv).       *)
(***************************************************************************)
EXTENDS Simulator, TLAPS

JobRecords ==
    [pc : PCs, settling : BOOLEAN, c : 0 .. N, msg : Statuses,
     then : {"idle", "begin", "free", "next"}, tx : 0 .. MaxTx]

\* What a goroutine's fields mean where it is: a transaction is in its hands
\* only between the answer of the CSMS and the connector, and never while it
\* settles; what follows a report is set only until that report.
JobOK(r) ==
    /\ r.pc \in {"commit", "end"} <=> r.tx # 0
    /\ r.settling => r.pc \in {"set", "report", "take", "alive"}
    /\ r.then # "idle" => r.pc \in {"set", "report"}
    /\ r.then = "next" => r.pc = "report"
    /\ r.pc \in {"begin", "commit", "take", "end"} \/ r.then \in {"begin", "free"} => r.c # 0
    /\ r.pc = "boot" => r.c = 0

JobInv == \A k \in Jobs : JobOK(job[k])

\* What a connector or a goroutine holds runs at the CSMS, and has one holder.
HoldInv ==
    /\ \A n \in running : n < nextTx
    /\ HeldIsRunning
    /\ \A k \in Jobs : job[k].tx # 0 =>
          /\ job[k].tx \in running
          /\ \A d \in ConnectorIDs : transactionID[d] # job[k].tx
          /\ \A l \in Jobs \ {k} : job[l].tx # job[k].tx

\* A start that is not contested is the only one on its connector, which has
\* no session until it commits.
StartInv ==
    \A k \in Jobs, d \in ConnectorIDs : Starting(k, d) /\ d \notin contested =>
        /\ Free(d)
        /\ \A l \in Jobs \ {k} : ~Starting(l, d)

\* Goroutine k will still report on connector d.
Owes(k, d) ==
    \/ job[k].pc = "boot"
    \/ job[k].pc = "next" /\ d > job[k].c
    \/ job[k].pc = "report" /\ job[k].then = "next" /\ d > job[k].c
    \/ job[k].pc \in {"set", "report"} /\ d = job[k].c

\* On a connector that is not blurred one goroutine reports, what it is about
\* to tell is the status, and the CSMS knows it unless that goroutine owes it.
ReportAt(d) ==
    /\ \A k, l \in Jobs : About(k, d) /\ About(l, d) => k = l
    /\ \A k \in Jobs : job[k].pc = "report" /\ job[k].c = d => job[k].msg = status[d]
    /\ told[d] = status[d] \/ \E k \in Jobs : Owes(k, d)

ReportInv ==
    (~done /\ conn = "open") => \A d \in (0 .. N) \ blurred : ReportAt(d)

-----------------------------------------------------------------------------
(***************************************************************************)
(* Types, and what a goroutine's fields mean.                              *)
(***************************************************************************)
\* A goroutine that has its job replaced by r leaves the others alone.
LEMMA Replaced ==
    ASSUME NEW f, NEW g, NEW S, NEW R, f \in [S -> R], NEW x \in S, NEW r \in R,
           g = [f EXCEPT ![x] = r]
    PROVE  /\ g \in [S -> R]
           /\ g[x] = r
           /\ \A y \in S \ {x} : g[y] = f[y]
    OBVIOUS

\* What the type invariant says of one goroutine.
LEMMA JobType ==
    ASSUME TypeOK, NEW k \in Jobs
    PROVE  /\ job \in [Jobs -> JobRecords]
           /\ job[k] \in JobRecords
           /\ job[k].c \in 0 .. N
           /\ job[k].tx \in 0 .. MaxTx
           /\ job[k].msg \in Statuses
    BY DEF TypeOK, JobRecords

\* A job with these fields.
Is(r, pc, settling, c, msg, then, tx) ==
    /\ r \in JobRecords
    /\ r.pc = pc
    /\ r.settling = settling
    /\ r.c = c
    /\ r.msg = msg
    /\ r.then = then
    /\ r.tx = tx

\* A step leaves goroutine k with such a job, and the others with theirs.
Becomes(k, pc, settling, c, msg, then, tx) ==
    /\ job' \in [Jobs -> JobRecords]
    /\ JobOK(job'[k])
    /\ Is(job'[k], pc, settling, c, msg, then, tx)
    /\ \A l \in Jobs \ {k} : job'[l] = job[l]

Ends(k) == Becomes(k, "idle", FALSE, 0, "Available", "idle", 0)

\* A goroutine whose job is replaced.
LEMMA BecomesRecord ==
    ASSUME TypeOK, NEW k \in Jobs, NEW r, NEW pc, NEW settling, NEW c, NEW msg,
           NEW then, NEW tx, Is(r, pc, settling, c, msg, then, tx), JobOK(r),
           job' = [job EXCEPT ![k] = r]
    PROVE  Becomes(k, pc, settling, c, msg, then, tx)
  <1>1. r \in JobRecords
    BY DEF Is
  <1> QED
    BY <1>1, JobType, Replaced DEF Becomes

\* A goroutine that ends.
LEMMA EndsJob ==
    ASSUME TypeOK, NEW k \in Jobs, job' = [job EXCEPT ![k] = NoJob]
    PROVE  Ends(k)
  <1>1. Is(NoJob, "idle", FALSE, 0, "Available", "idle", 0) /\ JobOK(NoJob)
    BY SimulatorAssumption DEF NoJob, Is, JobRecords, JobOK, PCs, Statuses
  <1> QED
    BY <1>1, BecomesRecord DEF Ends

\* SetStatus: the job afterwards.
LEMMA SetStatusJob ==
    ASSUME TypeOK, JobInv, NEW k \in Jobs, SetStatus(k)
    PROVE  Becomes(k, "report", FALSE, job[k].c, job[k].msg, job[k].then, job[k].tx)
  <1> DEFINE r == [job[k] EXCEPT !.settling = FALSE, !.pc = "report"]
  <1>1. job[k] \in JobRecords /\ JobOK(job[k])
    BY JobType DEF JobInv
  <1>2. Is(r, "report", FALSE, job[k].c, job[k].msg, job[k].then, job[k].tx)
    BY <1>1, SimulatorAssumption DEF SetStatus, At, Is, JobRecords, JobOK, PCs, Statuses, TypeOK
  <1>3. JobOK(r)
    BY <1>1, <1>2, SimulatorAssumption DEF SetStatus, At, Is, JobOK, TypeOK
  <1>4. job' = [job EXCEPT ![k] = r]
    BY DEF SetStatus, At, TypeOK
  <1> QED
    BY <1>2, <1>3, <1>4, BecomesRecord

\* Begun: the job afterwards.
LEMMA BegunJob ==
    ASSUME TypeOK, JobInv, NEW k \in Jobs, Begun(k)
    PROVE  Becomes(k, "commit", FALSE, job[k].c, job[k].msg, "idle", nextTx)
  <1> DEFINE r == [job[k] EXCEPT !.pc = "commit", !.tx = nextTx]
  <1>1. job[k] \in JobRecords /\ JobOK(job[k])
    BY JobType DEF JobInv
  <1>2. Is(r, "commit", FALSE, job[k].c, job[k].msg, "idle", nextTx)
    BY <1>1, SimulatorAssumption
       DEF Begun, Answered, At, Is, JobRecords, JobOK, PCs, Statuses, TypeOK
  <1>3. JobOK(r)
    BY <1>1, <1>2, SimulatorAssumption DEF Begun, Answered, At, Is, JobOK, TypeOK
  <1>4. job' = [job EXCEPT ![k] = r]
    BY DEF Begun, Answered, At, TypeOK
  <1> QED
    BY <1>2, <1>3, <1>4, BecomesRecord

\* Refused: the job afterwards.
LEMMA RefusedJob ==
    ASSUME TypeOK, JobInv, NEW k \in Jobs, Refused(k)
    PROVE  Becomes(k, "set", FALSE, job[k].c, "Available", "idle", 0)
  <1> DEFINE r == [job[k] EXCEPT !.pc = "set", !.msg = "Available"]
  <1>1. job[k] \in JobRecords /\ JobOK(job[k])
    BY JobType DEF JobInv
  <1>2. Is(r, "set", FALSE, job[k].c, "Available", "idle", 0)
    BY <1>1, SimulatorAssumption
       DEF Refused, Answered, At, Is, JobRecords, JobOK, PCs, Statuses, TypeOK
  <1>3. JobOK(r)
    BY <1>1, <1>2, SimulatorAssumption DEF Refused, Answered, At, Is, JobOK, TypeOK
  <1>4. job' = [job EXCEPT ![k] = r]
    BY DEF Refused, Answered, At, TypeOK
  <1> QED
    BY <1>2, <1>3, <1>4, BecomesRecord

\* Commit: the job afterwards.
LEMMA CommitJob ==
    ASSUME TypeOK, JobInv, NEW k \in Jobs, Commit(k)
    PROVE  Becomes(k, "set", FALSE, job[k].c, "Charging", "idle", 0)
  <1> DEFINE r == [job[k] EXCEPT !.pc = "set", !.msg = "Charging", !.tx = 0]
  <1>1. job[k] \in JobRecords /\ JobOK(job[k])
    BY JobType DEF JobInv
  <1>2. Is(r, "set", FALSE, job[k].c, "Charging", "idle", 0)
    BY <1>1, SimulatorAssumption DEF Commit, At, Is, JobRecords, JobOK, PCs, Statuses, TypeOK
  <1>3. JobOK(r)
    BY <1>1, <1>2, SimulatorAssumption DEF Commit, At, Is, JobOK, TypeOK
  <1>4. job' = [job EXCEPT ![k] = r]
    BY DEF Commit, At, TypeOK
  <1> QED
    BY <1>2, <1>3, <1>4, BecomesRecord

\* Ended: the job afterwards.
LEMMA EndedJob ==
    ASSUME TypeOK, JobInv, NEW k \in Jobs, Ended(k)
    PROVE  Becomes(k, "set", FALSE, job[k].c, "Finishing", "free", 0)
  <1> DEFINE r == [job[k] EXCEPT !.pc = "set", !.msg = "Finishing", !.then = "free", !.tx = 0]
  <1>1. job[k] \in JobRecords /\ JobOK(job[k])
    BY JobType DEF JobInv
  <1>2. Is(r, "set", FALSE, job[k].c, "Finishing", "free", 0)
    BY <1>1, SimulatorAssumption
       DEF Ended, Answered, At, Is, JobRecords, JobOK, PCs, Statuses, TypeOK
  <1>3. JobOK(r)
    BY <1>1, <1>2, SimulatorAssumption DEF Ended, Answered, At, Is, JobOK, TypeOK
  <1>4. job' = [job EXCEPT ![k] = r]
    BY DEF Ended, Answered, At, TypeOK
  <1> QED
    BY <1>2, <1>3, <1>4, BecomesRecord

\* Booted: the job afterwards.
LEMMA BootedJob ==
    ASSUME TypeOK, JobInv, NEW k \in Jobs, Booted(k)
    PROVE  Becomes(k, "report", FALSE, 0, status[0], "next", 0)
  <1> DEFINE r == [job[k] EXCEPT !.pc = "report", !.msg = status[0], !.then = "next"]
  <1>1. job[k] \in JobRecords /\ JobOK(job[k])
    BY JobType DEF JobInv
  <1>2. Is(r, "report", FALSE, 0, status[0], "next", 0)
    BY <1>1, SimulatorAssumption
       DEF Booted, Answered, At, Is, JobRecords, JobOK, PCs, Statuses, TypeOK
  <1>3. JobOK(r)
    BY <1>1, <1>2, SimulatorAssumption DEF Booted, Answered, At, Is, JobOK, TypeOK
  <1>4. job' = [job EXCEPT ![k] = r]
    BY DEF Booted, Answered, At, TypeOK
  <1> QED
    BY <1>2, <1>3, <1>4, BecomesRecord

\* Reported: the goroutine ends, or goes on with what follows its report.
LEMMA ReportedJob ==
    ASSUME TypeOK, JobInv, NEW k \in Jobs, Reported(k)
    PROVE  \/ job[k].then = "idle" /\ Ends(k)
           \/ /\ job[k].then = "free"
              /\ Becomes(k, "set", FALSE, job[k].c, "Available", "idle", 0)
           \/ /\ job[k].then = "begin"
              /\ Becomes(k, "begin", FALSE, job[k].c, job[k].msg, "idle", 0)
           \/ /\ job[k].then = "next"
              /\ Becomes(k, "next", FALSE, job[k].c, job[k].msg, "idle", 0)
  <1>1. job[k] \in JobRecords /\ JobOK(job[k]) /\ job[k].pc = "report"
    BY JobType DEF JobInv, Reported, Answered, At, JobRecords
  <1>2. CASE job[k].then = "idle"
    BY <1>2, EndsJob DEF Reported, Continue
  <1>3. CASE job[k].then = "free"
    <2> DEFINE r == [job[k] EXCEPT !.settling = FALSE, !.pc = "set", !.msg = "Available",
                                 !.then = "idle"]
    <2>1. Is(r, "set", FALSE, job[k].c, "Available", "idle", 0)
      BY <1>1 DEF Is, JobRecords, JobOK, PCs, Statuses
    <2>2. JobOK(r)
      BY <1>1, <1>3, <2>1 DEF Is, JobOK
    <2>3. job' = [job EXCEPT ![k] = r]
      BY <1>3 DEF Reported, Continue
    <2> QED
      BY <1>3, <2>1, <2>2, <2>3, BecomesRecord
  <1>4. CASE job[k].then \in {"begin", "next"}
    <2> DEFINE r == [job[k] EXCEPT !.settling = FALSE, !.pc = job[k].then, !.then = "idle"]
    <2>1. Is(r, job[k].then, FALSE, job[k].c, job[k].msg, "idle", 0)
      BY <1>1, <1>4 DEF Is, JobRecords, JobOK, PCs, Statuses
    <2>2. JobOK(r)
      BY <1>1, <1>4, <2>1 DEF Is, JobOK
    <2>3. job' = [job EXCEPT ![k] = r]
      BY <1>4 DEF Reported, Continue
    <2>4. Becomes(k, job[k].then, FALSE, job[k].c, job[k].msg, "idle", 0)
      BY <2>1, <2>2, <2>3, BecomesRecord
    <2> QED
      BY <1>4, <2>4
  <1> QED
    BY <1>1, <1>2, <1>3, <1>4 DEF JobRecords

\* Take: the goroutine has the connector's transaction to end, or ends.
LEMMA TakeJob ==
    ASSUME TypeOK, JobInv, NEW k \in Jobs, Take(k)
    PROVE  /\ job[k].c \in ConnectorIDs
           /\ \/ transactionID[job[k].c] = 0 /\ Ends(k)
              \/ /\ transactionID[job[k].c] # 0
                 /\ Becomes(k, "end", FALSE, job[k].c, job[k].msg, "idle", transactionID[job[k].c])
  <1>1. /\ job[k] \in JobRecords /\ JobOK(job[k]) /\ job[k].pc = "take"
        /\ job \in [Jobs -> JobRecords]
    BY JobType DEF JobInv, Take, At, JobRecords
  <1>2. job[k].c \in ConnectorIDs /\ transactionID[job[k].c] \in 0 .. MaxTx
    BY <1>1, JobType, SimulatorAssumption DEF JobOK, TypeOK, ConnectorIDs
  <1>3. CASE transactionID[job[k].c] = 0
    <2>1. job' = [job EXCEPT ![k] = NoJob]
      BY <1>1, <1>3 DEF Take
    <2> QED
      BY <1>2, <1>3, <2>1, EndsJob
  <1>4. CASE transactionID[job[k].c] # 0
    <2> DEFINE r == [job[k] EXCEPT !.settling = FALSE, !.pc = "end",
                                 !.tx = transactionID[job[k].c]]
    <2>1. Is(r, "end", FALSE, job[k].c, job[k].msg, "idle", transactionID[job[k].c])
      BY <1>1, <1>2 DEF Is, JobRecords, JobOK, PCs
    <2>2. JobOK(r)
      BY <1>1, <1>4, <2>1 DEF Is, JobOK
    <2>3. job' = [job EXCEPT ![k] = r]
      BY <1>1, <1>4 DEF Take
    <2> QED
      BY <1>2, <1>4, <2>1, <2>2, <2>3, BecomesRecord
  <1> QED
    BY <1>3, <1>4

\* ReportNext: the next connector's status is to be reported, or Connect ends.
LEMMA ReportNextJob ==
    ASSUME TypeOK, JobInv, NEW k \in Jobs, ReportNext(k)
    PROVE  \/ /\ job[k].c + 1 <= N
              /\ Becomes(k, "report", FALSE, job[k].c + 1, status[job[k].c + 1], "next", 0)
           \/ job[k].c = N /\ Ends(k)
  <1>1. /\ job[k] \in JobRecords /\ JobOK(job[k]) /\ job[k].pc = "next" /\ job[k].settling = FALSE
        /\ job[k].c \in 0 .. N
    BY JobType DEF JobInv, JobOK, ReportNext, At, JobRecords
  <1>2. CASE job[k].c + 1 <= N
    <2> DEFINE c == job[k].c + 1
               r == [job[k] EXCEPT !.pc = "report", !.c = c, !.msg = status[c], !.then = "next"]
    <2>0. c \in 0 .. N /\ status[c] \in Statuses
      BY <1>1, <1>2, SimulatorAssumption DEF TypeOK
    <2>3. job' = [job EXCEPT ![k] = r]
      <3>1. ~(job[k].c + 1 > N)
        BY <1>1, <1>2, SimulatorAssumption
      <3>2. job \in [Jobs -> JobRecords]
        BY JobType
      <3> QED
        BY <3>1, <3>2 DEF ReportNext
    <2> HIDE DEF c
    <2>1. Is(r, "report", FALSE, c, status[c], "next", 0)
      BY <1>1, <2>0 DEF Is, JobRecords, JobOK, PCs
    <2>2. JobOK(r)
      BY <1>1, <2>1 DEF Is, JobOK
    <2> QED
      BY <1>2, <2>1, <2>2, <2>3, BecomesRecord DEF c
  <1>3. CASE job[k].c + 1 > N
    <2>1. job' = [job EXCEPT ![k] = NoJob]
      BY <1>1, <1>3, SimulatorAssumption DEF ReportNext
    <2>2. Ends(k)
      BY <2>1, EndsJob
    <2>3. job[k].c = N
      BY <1>1, <1>3, SimulatorAssumption
    <2> QED
      BY <2>2, <2>3
  <1>4. job[k].c + 1 <= N \/ job[k].c + 1 > N
    BY <1>1, SimulatorAssumption
  <1> QED
    BY <1>2, <1>3, <1>4

\* Run: the job of a goroutine that sets out.
LEMMA RunJob ==
    ASSUME TypeOK, NEW k \in Jobs, NEW pc \in {"set", "report", "take", "alive"},
           NEW settling \in BOOLEAN, NEW then \in {"idle", "begin"}, NEW c \in 0 .. N,
           NEW msg \in Statuses, Run(k, settling, pc, then, c, msg),
           then = "begin" => pc = "set", pc = "take" \/ then = "begin" => c # 0
    PROVE  Becomes(k, pc, settling, c, msg, then, 0)
  <1> DEFINE r == [pc |-> pc, settling |-> settling, c |-> c, msg |-> msg, then |-> then, tx |-> 0]
  <1>1. Is(r, pc, settling, c, msg, then, 0)
    BY SimulatorAssumption DEF Is, JobRecords, PCs
  <1>2. JobOK(r)
    BY DEF JobOK
  <1>3. job' = [job EXCEPT ![k] = r]
    BY DEF Run
  <1> QED
    BY <1>1, <1>2, <1>3, BecomesRecord

-----------------------------------------------------------------------------
(***************************************************************************)
(* What makes a goroutine set out, sorted by what it changes.              *)
(***************************************************************************)
\* Goroutine k sets out about connector c: it meets another one there, it will
\* report with the connector to itself, or it reports nothing yet.
Launched(k, c) ==
    /\ ~Busy(k)
    /\ \/ blurred' = blurred \cup {c}
       \/ /\ \A l \in Jobs : ~About(l, c)
          /\ job'[k].pc \in {"set", "report"}
          /\ blurred' = blurred \ {c}
       \/ /\ job'[k].pc = "alive" \/ \A l \in Jobs : ~About(l, c)
          /\ job'[k].pc \notin {"set", "report"}
          /\ UNCHANGED blurred
    /\ UNCHANGED <<transactionID, link, csms, lost, replaced>>

\* A reservation is entered on a connector without a session, or taken off.
Reserves(k, c) ==
    /\ c \in ConnectorIDs
    /\ \E r \in ReservationIDs \cup {0} :
          /\ reservationID' = [reservationID EXCEPT ![c] = r]
          /\ r # 0 => Free(c)
    /\ \E s \in Statuses :
          /\ status' = [status EXCEPT ![c] = s]
          /\ Becomes(k, "report", TRUE, c, s, "idle", 0)
    /\ UNCHANGED contested

\* A session is to be started.
Starts(k, c) ==
    /\ c \in ConnectorIDs
    /\ \/ c \in contested' /\ contested' = contested \cup {c}
       \/ /\ Free(c)
          /\ \A l \in Jobs : ~Starting(l, c)
          /\ UNCHANGED contested
    /\ \E settling \in BOOLEAN : Becomes(k, "set", settling, c, "Preparing", "begin", 0)
    /\ UNCHANGED <<status, reservationID>>

\* The current status is to be reported.
Reports(k, c) ==
    /\ Becomes(k, "report", TRUE, c, status[c], "idle", 0)
    /\ UNCHANGED <<status, reservationID, contested>>

\* A status is to be set, a session to be ended, a sign of life to be given.
Others(k, c) ==
    /\ \E settling \in BOOLEAN, pc \in {"set", "take", "alive"}, msg \in Statuses :
          Becomes(k, pc, settling, c, msg, "idle", 0)
    /\ UNCHANGED <<status, reservationID, contested>>

SetsOut(k, c) ==
    Launched(k, c) /\ (Reserves(k, c) \/ Starts(k, c) \/ Reports(k, c) \/ Others(k, c))

\* Run, with what it leaves alone.
LEMMA RunLaunches ==
    ASSUME TypeOK, NEW k \in Jobs, NEW settling, NEW pc, NEW then, NEW c, NEW msg,
           Run(k, settling, pc, then, c, msg),
           UNCHANGED <<transactionID, link, csms>>
    PROVE  Launched(k, c)
  <1>1. job'[k].pc = pc
    BY DEF Run, TypeOK
  <1>2. CASE pc # "alive" /\ \E l \in Jobs : About(l, c)
    BY <1>2 DEF Run, Launched
  <1>3. CASE pc = "alive" \/ \A l \in Jobs : ~About(l, c)
    BY <1>1, <1>3 DEF Run, Launched
  <1> QED
    BY <1>2, <1>3

\* The connectors that commands may name.
LEMMA TargetTypes ==
    /\ \A c \in Targets : c \in 0 .. N
    /\ \A c \in Targets \ {0} : c \in ConnectorIDs /\ c \in 0 .. N /\ c # 0
    /\ \A c \in firstFreeConnector : c \in ConnectorIDs /\ c \in 0 .. N /\ c # 0
    BY SimulatorAssumption DEF ConnectorIDs, firstFreeConnector

\* Each command of the CSMS makes a goroutine set out.
LEMMA HandleCallSetsOut ==
    ASSUME TypeOK, NEW k \in Jobs, HandleCall(k)
    PROVE  \E c \in 0 .. N : SetsOut(k, c)
  <1>1. ASSUME NEW c \in Targets \ {0}, NEW r \in ReservationIDs, reserveNow(k, c, r)
        PROVE  \E d \in 0 .. N : SetsOut(k, d)
    <2>1. c \in ConnectorIDs /\ c \in 0 .. N
      BY TargetTypes
    <2>2. Run(k, TRUE, "report", "idle", c, "Reserved")
      BY <1>1 DEF reserveNow, after
    <2>3. Launched(k, c)
      BY <1>1, <2>2, RunLaunches DEF reserveNow
    <2>4. "Reserved" \in Statuses
      BY DEF Statuses
    <2>5. Becomes(k, "report", TRUE, c, "Reserved", "idle", 0)
      BY <2>1, <2>2, <2>4, RunJob
    <2>6. Reserves(k, c)
      BY <1>1, <2>1, <2>4, <2>5 DEF Reserves, reserveNow, Free
    <2> QED
      BY <2>1, <2>3, <2>6 DEF SetsOut
  <1>2. ASSUME NEW c \in Targets \ {0}, NEW r \in ReservationIDs, cancelReservation(k, c, r)
        PROVE  \E d \in 0 .. N : SetsOut(k, d)
    <2>1. c \in ConnectorIDs /\ c \in 0 .. N
      BY TargetTypes
    <2>2. Run(k, TRUE, "report", "idle", c, "Available")
      BY <1>2 DEF cancelReservation, after
    <2>3. Launched(k, c)
      BY <1>2, <2>2, RunLaunches DEF cancelReservation
    <2>4. "Available" \in Statuses
      BY DEF Statuses
    <2>5. Becomes(k, "report", TRUE, c, "Available", "idle", 0)
      BY <2>1, <2>2, <2>4, RunJob
    <2>6. Reserves(k, c)
      BY <1>2, <2>1, <2>4, <2>5 DEF Reserves, cancelReservation
    <2> QED
      BY <2>1, <2>3, <2>6 DEF SetsOut
  <1>3. ASSUME NEW c \in (Targets \ {0}) \cup firstFreeConnector, remoteStart(k, c)
        PROVE  \E d \in 0 .. N : SetsOut(k, d)
    <2>1. c \in ConnectorIDs /\ c \in 0 .. N /\ c # 0
      BY TargetTypes
    <2>2. Run(k, TRUE, "set", "begin", c, "Preparing")
      BY <1>3 DEF remoteStart, after
    <2>3. Launched(k, c)
      BY <1>3, <2>2, RunLaunches DEF remoteStart, connectors
    <2>4. "Preparing" \in Statuses
      BY DEF Statuses
    <2>5. Becomes(k, "set", TRUE, c, "Preparing", "begin", 0)
      BY <2>1, <2>2, <2>4, RunJob
    <2>6. Starts(k, c)
      BY <1>3, <2>1, <2>5 DEF Starts, remoteStart, Contest, BeingStarted, connectors
    <2> QED
      BY <2>1, <2>3, <2>6 DEF SetsOut
  <1>4. ASSUME NEW c \in Targets \ {0}, remoteStop(k, c)
        PROVE  \E d \in 0 .. N : SetsOut(k, d)
    <2>1. c \in 0 .. N /\ c # 0
      BY TargetTypes
    <2>2. Run(k, TRUE, "take", "idle", c, "Available")
      BY <1>4 DEF remoteStop, after
    <2>3. Launched(k, c)
      BY <1>4, <2>2, RunLaunches DEF remoteStop, connectors
    <2>4. "Available" \in Statuses
      BY DEF Statuses
    <2>5. Becomes(k, "take", TRUE, c, "Available", "idle", 0)
      BY <2>1, <2>2, <2>4, RunJob
    <2>6. Others(k, c)
      BY <1>4, <2>4, <2>5 DEF Others, remoteStop, connectors
    <2> QED
      BY <2>1, <2>3, <2>6 DEF SetsOut
  <1>5. ASSUME NEW c \in Targets, triggerStatus(k, c)
        PROVE  \E d \in 0 .. N : SetsOut(k, d)
    <2>1. c \in 0 .. N /\ status[c] \in Statuses
      BY TargetTypes DEF TypeOK
    <2>2. Run(k, TRUE, "report", "idle", c, status[c])
      BY <1>5 DEF triggerStatus, after
    <2>3. Launched(k, c)
      BY <1>5, <2>2, RunLaunches DEF triggerStatus, connectors
    <2>4. Becomes(k, "report", TRUE, c, status[c], "idle", 0)
      BY <2>1, <2>2, RunJob
    <2>5. Reports(k, c)
      BY <1>5, <2>4 DEF Reports, triggerStatus, connectors
    <2> QED
      BY <2>1, <2>3, <2>5 DEF SetsOut
  <1>6. ASSUME triggerAlive(k)
        PROVE  \E d \in 0 .. N : SetsOut(k, d)
    <2>1. 0 \in 0 .. N /\ "Available" \in Statuses
      BY SimulatorAssumption DEF Statuses
    <2>2. Run(k, TRUE, "alive", "idle", 0, "Available")
      BY <1>6 DEF triggerAlive
    <2>3. Launched(k, 0)
      BY <1>6, <2>2, RunLaunches DEF triggerAlive, connectors
    <2>4. Becomes(k, "alive", TRUE, 0, "Available", "idle", 0)
      BY <2>1, <2>2, RunJob
    <2>5. Others(k, 0)
      BY <1>6, <2>1, <2>4 DEF Others, triggerAlive, connectors
    <2> QED
      BY <2>1, <2>3, <2>5 DEF SetsOut
  <1>7. ASSUME NEW c \in Targets, NEW s \in Availabilities, changeAvailability(k, c, s)
        PROVE  \E d \in 0 .. N : SetsOut(k, d)
    <2>1. c \in 0 .. N /\ s \in Statuses
      BY TargetTypes, SimulatorAssumption DEF Statuses
    <2>2. Run(k, TRUE, "set", "idle", c, s)
      BY <1>7 DEF changeAvailability, after
    <2>3. Launched(k, c)
      BY <1>7, <2>2, RunLaunches DEF changeAvailability, connectors
    <2>4. Becomes(k, "set", TRUE, c, s, "idle", 0)
      BY <2>1, <2>2, RunJob
    <2>5. Others(k, c)
      BY <1>7, <2>1, <2>4 DEF Others, changeAvailability, connectors
    <2> QED
      BY <2>1, <2>3, <2>5 DEF SetsOut
  <1> QED
    BY <1>1, <1>2, <1>3, <1>4, <1>5, <1>6, <1>7 DEF HandleCall

\* So does each call of the program that runs the simulator.
LEMMA LocalSetsOut ==
    ASSUME TypeOK, NEW k \in Jobs, Local(k)
    PROVE  \E c \in 0 .. N : SetsOut(k, c)
  <1>0. /\ UNCHANGED <<transactionID, link, csms>>
        /\ UNCHANGED <<status, reservationID>>
    BY DEF Local, connectors
  <1>1. ASSUME NEW c \in Targets, NEW s \in LocalStatuses, Run(k, FALSE, "set", "idle", c, s),
               UNCHANGED contested
        PROVE  \E d \in 0 .. N : SetsOut(k, d)
    <2>1. c \in 0 .. N /\ s \in Statuses
      BY TargetTypes, SimulatorAssumption
    <2>2. Launched(k, c)
      BY <1>0, <1>1, RunLaunches
    <2>3. Becomes(k, "set", FALSE, c, s, "idle", 0)
      BY <1>1, <2>1, RunJob
    <2>4. Others(k, c)
      BY <1>0, <1>1, <2>1, <2>3 DEF Others
    <2> QED
      BY <2>1, <2>2, <2>4 DEF SetsOut
  <1>2. ASSUME NEW c \in Targets \ {0}, Run(k, FALSE, "set", "begin", c, "Preparing"),
               Contest(c, BeingStarted(c) \/ ~Free(c))
        PROVE  \E d \in 0 .. N : SetsOut(k, d)
    <2>1. c \in 0 .. N /\ c # 0 /\ c \in ConnectorIDs /\ "Preparing" \in Statuses
      BY TargetTypes DEF Statuses
    <2>2. Launched(k, c)
      BY <1>0, <1>2, RunLaunches
    <2>3. Becomes(k, "set", FALSE, c, "Preparing", "begin", 0)
      BY <1>2, <2>1, RunJob
    <2>4. Starts(k, c)
      BY <1>0, <1>2, <2>1, <2>3 DEF Starts, Contest, BeingStarted
    <2> QED
      BY <2>1, <2>2, <2>4 DEF SetsOut
  <1>3. ASSUME NEW c \in Targets \ {0}, Run(k, FALSE, "take", "idle", c, "Available"),
               UNCHANGED contested
        PROVE  \E d \in 0 .. N : SetsOut(k, d)
    <2>1. c \in 0 .. N /\ c # 0 /\ "Available" \in Statuses
      BY TargetTypes DEF Statuses
    <2>2. Launched(k, c)
      BY <1>0, <1>3, RunLaunches
    <2>3. Becomes(k, "take", FALSE, c, "Available", "idle", 0)
      BY <1>3, <2>1, RunJob
    <2>4. Others(k, c)
      BY <1>0, <1>3, <2>1, <2>3 DEF Others
    <2> QED
      BY <2>1, <2>2, <2>4 DEF SetsOut
  <1> QED
    BY <1>1, <1>2, <1>3 DEF Local

-----------------------------------------------------------------------------
(***************************************************************************)
(* Type correctness.                                                       *)
(***************************************************************************)
\* The jobs keep their type and their meaning, whichever goroutine moves.
LEMMA JobsKept ==
    ASSUME JobInv, NEW k \in Jobs, NEW pc, NEW settling, NEW c, NEW msg, NEW then,
           NEW tx, Becomes(k, pc, settling, c, msg, then, tx)
    PROVE  job' \in [Jobs -> JobRecords] /\ JobInv'
    BY DEF JobInv, Becomes

\* The step of a goroutine keeps the jobs.
LEMMA StepJobs ==
    ASSUME TypeOK, JobInv, NEW k \in Jobs, Step(k)
    PROVE  job' \in [Jobs -> JobRecords] /\ JobInv'
  <1>2. CASE Abandoned(k)
    <2>1. Ends(k)
      BY <1>2, EndsJob DEF Abandoned
    <2> QED
      BY <2>1, JobsKept DEF Ends
  <1>3. CASE SetStatus(k)
    BY <1>3, SetStatusJob, JobsKept DEF Ends
  <1>4. CASE Reported(k)
    BY <1>4, ReportedJob, JobsKept DEF Ends
  <1>5. CASE Alive(k)
    <2>1. Ends(k)
      BY <1>5, EndsJob DEF Alive
    <2> QED
      BY <2>1, JobsKept DEF Ends
  <1>6. CASE Begun(k)
    BY <1>6, BegunJob, JobsKept DEF Ends
  <1>7. CASE Refused(k)
    BY <1>7, RefusedJob, JobsKept DEF Ends
  <1>8. CASE Commit(k)
    BY <1>8, CommitJob, JobsKept DEF Ends
  <1>9. CASE Take(k)
    BY <1>9, TakeJob, JobsKept DEF Ends
  <1>10. CASE Ended(k)
    BY <1>10, EndedJob, JobsKept DEF Ends
  <1>11. CASE Booted(k)
    BY <1>11, BootedJob, JobsKept DEF Ends
  <1>12. CASE ReportNext(k)
    BY <1>12, ReportNextJob, JobsKept DEF Ends
  <1>13. CASE CallFails(k)
    <2>1. Ends(k)
      BY <1>13, EndsJob DEF CallFails
    <2> QED
      BY <2>1, JobsKept DEF Ends
  <1> QED
    BY <1>2, <1>3, <1>4, <1>5, <1>6, <1>7, <1>8, <1>9, <1>10, <1>11, <1>12, <1>13 DEF Step

\* The state apart from the goroutines.
RestOK ==
    /\ status \in [0 .. N -> Statuses]
    /\ transactionID \in [ConnectorIDs -> 0 .. MaxTx]
    /\ reservationID \in [ConnectorIDs -> ReservationIDs \cup {0}]
    /\ done \in BOOLEAN
    /\ conn \in {"open", "closed"}
    /\ serving \in BOOLEAN
    /\ beat \in {"before", "on", "calling", "off"}
    /\ told \in [0 .. N -> Statuses]
    /\ running \subseteq 1 .. MaxTx
    /\ nextTx \in 1 .. MaxTx + 1
    /\ lost \subseteq 1 .. MaxTx
    /\ blurred \subseteq 0 .. N
    /\ replaced \subseteq 1 .. MaxTx

ContestedOK == contested \subseteq ConnectorIDs

\* TypeOK, taken apart.
LEMMA TypeParts == TypeOK <=> RestOK /\ ContestedOK /\ job \in [Jobs -> JobRecords]
    BY DEF TypeOK, RestOK, ContestedOK, JobRecords

\* TypeOK after a step, put together.
LEMMA TypePartsNext == RestOK' /\ ContestedOK' /\ job' \in [Jobs -> JobRecords] => TypeOK'
    BY DEF TypeOK, RestOK, ContestedOK, JobRecords

\* The step of a goroutine keeps the types of the rest.
LEMMA StepRest ==
    ASSUME TypeOK, JobInv, NEW k \in Jobs, Step(k)
    PROVE  RestOK' /\ ContestedOK'
  <1>c. ContestedOK'
    BY TypeParts DEF Step, ContestedOK
  <1> SUFFICES RestOK'
    BY <1>c
  <1> USE SimulatorAssumption DEF connectors, link, csms, history
  <1>0. /\ RestOK
        /\ job[k].c \in 0 .. N
        /\ job[k].tx \in 0 .. MaxTx
        /\ job[k].msg \in Statuses
        /\ job[k].pc \in {"begin", "commit", "take", "end"} => job[k].c \in ConnectorIDs
        /\ job[k].pc = "end" => job[k].tx \in 1 .. MaxTx
    BY JobType, TypeParts DEF JobInv, JobOK, ConnectorIDs
  <1>2. CASE Abandoned(k)
    BY <1>0, <1>2 DEF RestOK, Abandoned
  <1>3. CASE SetStatus(k)
    BY <1>0, <1>3 DEF RestOK, SetStatus, At
  <1>4. CASE Reported(k)
    BY <1>0, <1>4 DEF RestOK, Reported
  <1>5. CASE Alive(k)
    BY <1>0, <1>5 DEF RestOK, Alive
  <1>6. CASE Begun(k)
    BY <1>0, <1>6 DEF RestOK, Begun, Answered, At
  <1>7. CASE Refused(k)
    BY <1>0, <1>7 DEF RestOK, Refused
  <1>8. CASE Commit(k)
    <2>1. transactionID[job[k].c] # 0 => transactionID[job[k].c] \in 1 .. MaxTx
      BY <1>0, <1>8 DEF RestOK, Commit, At
    <2>2. replaced' \subseteq 1 .. MaxTx
      BY <1>0, <1>8, <2>1 DEF RestOK, Commit
    <2> QED
      BY <1>0, <1>8, <2>2 DEF RestOK, Commit, At
  <1>9. CASE Take(k)
    BY <1>0, <1>9 DEF RestOK, Take, At
  <1>10. CASE Ended(k)
    BY <1>0, <1>10 DEF RestOK, Ended, Answered, At
  <1>11. CASE Booted(k)
    BY <1>0, <1>11 DEF RestOK, Booted
  <1>12. CASE ReportNext(k)
    BY <1>0, <1>12 DEF RestOK, ReportNext
  <1>13. CASE CallFails(k)
    <2>1. told' \in [0 .. N -> Statuses] /\ blurred' \subseteq 0 .. N
      BY <1>0, <1>13 DEF RestOK, CallFails, Fails, At
    <2>2. running' \subseteq 1 .. MaxTx /\ nextTx' \in 1 .. MaxTx + 1 /\ lost' \subseteq 1 .. MaxTx
      <3>1. running \subseteq 1 .. MaxTx /\ nextTx \in 1 .. MaxTx + 1 /\ lost \subseteq 1 .. MaxTx
        BY <1>0 DEF RestOK
      <3>2. CASE UNCHANGED <<running, nextTx, lost>>
        BY <3>1, <3>2
      <3>3. CASE /\ nextTx <= MaxTx
                 /\ running' = running \cup {nextTx}
                 /\ lost' = lost \cup {nextTx}
                 /\ nextTx' = nextTx + 1
        BY <3>1, <3>3
      <3>4. CASE /\ job[k].pc = "end"
                 /\ running' \in {running, running \ {job[k].tx}}
                 /\ lost' = lost \cup {job[k].tx}
                 /\ nextTx' = nextTx
        BY <1>0, <3>1, <3>4
      <3> QED
        BY <1>13, <3>2, <3>3, <3>4 DEF CallFails, Fails, At
    <2>3. done' \in BOOLEAN /\ replaced' \subseteq 1 .. MaxTx
      BY <1>0, <1>13 DEF RestOK, CallFails, Fails
    <2> QED
      BY <1>0, <1>13, <2>1, <2>2, <2>3 DEF RestOK, CallFails
  <1> QED
    BY <1>2, <1>3, <1>4, <1>5, <1>6, <1>7, <1>8, <1>9, <1>10, <1>11, <1>12, <1>13 DEF Step

\* A goroutine that sets out keeps the types and the jobs' meaning.
LEMMA SetsOutType ==
    ASSUME TypeOK, JobInv, NEW k \in Jobs, NEW c \in 0 .. N, SetsOut(k, c)
    PROVE  TypeOK' /\ JobInv'
  <1>1. job' \in [Jobs -> JobRecords] /\ JobInv'
    BY JobsKept DEF SetsOut, Reserves, Starts, Reports, Others
  <1>2. RestOK /\ Launched(k, c)
    BY TypeParts DEF SetsOut
  <1>3. /\ status' \in [0 .. N -> Statuses]
        /\ reservationID' \in [ConnectorIDs -> ReservationIDs \cup {0}]
    BY <1>2 DEF RestOK, SetsOut, Reserves, Starts, Reports, Others
  <1>4. RestOK'
    BY <1>2, <1>3 DEF RestOK, Launched, link, csms
  <1>5. ContestedOK'
    BY TypeParts DEF SetsOut, Reserves, Starts, Reports, Others, ContestedOK
  <1> QED
    BY <1>1, <1>4, <1>5, TypePartsNext

\* The steps of no goroutine change neither connectors nor jobs.
Outside ==
    \/ HeartbeatDue \/ HeartbeatAnswered \/ HeartbeatEnds
    \/ Close \/ CloseConn \/ ConnLost \/ RunEnds

\* What is left alone by them.
LEMMA OutsideFacts ==
    ASSUME Outside
    PROVE  /\ UNCHANGED <<status, transactionID, reservationID, job, told, running, nextTx>>
           /\ UNCHANGED <<lost, blurred, contested, replaced>>
           /\ ~done' => ~done
           /\ conn' = "open" => conn = "open"
    BY DEF Outside, HeartbeatDue, HeartbeatAnswered, HeartbeatEnds, Close, CloseConn, ConnLost,
           RunEnds, connectors, csms, history

\* Next, sorted.
LEMMA NextCases ==
    ASSUME TypeOK, Next
    PROVE  \/ \E k \in Jobs : Step(k)
           \/ \E k \in Jobs, c \in 0 .. N : SetsOut(k, c)
           \/ Outside
    BY HandleCallSetsOut, LocalSetsOut DEF Next, Outside

\* The initial states.
LEMMA InitType ==
    Init => TypeOK /\ JobInv
  <1> SUFFICES ASSUME Init PROVE TypeOK /\ JobInv
    OBVIOUS
  <1> USE SimulatorAssumption
  <1>0. "Available" \in Statuses /\ "Unavailable" \in Statuses
    BY DEF Statuses
  <1>1. RestOK
    <2>1. status \in [0 .. N -> Statuses] /\ told \in [0 .. N -> Statuses]
      BY <1>0 DEF Init
    <2>2. /\ transactionID \in [ConnectorIDs -> 0 .. MaxTx]
          /\ reservationID \in [ConnectorIDs -> ReservationIDs \cup {0}]
      BY DEF Init
    <2>3. nextTx \in 1 .. MaxTx + 1 /\ done \in BOOLEAN
      <3>1. nextTx = 1 /\ done = FALSE
        BY DEF Init
      <3>2. 1 \in 1 .. MaxTx + 1
        OBVIOUS
      <3> QED
        BY <3>1, <3>2
    <2>4. /\ running = {} /\ lost = {} /\ blurred = {} /\ replaced = {}
          /\ conn = "open" /\ beat = "before" /\ serving = TRUE
      BY DEF Init
    <2> QED
      BY <2>1, <2>2, <2>3, <2>4 DEF RestOK
  <1> DEFINE b == [NoJob EXCEPT !.pc = "boot"]
  <1>2. NoJob \in JobRecords /\ JobOK(NoJob)
    BY DEF NoJob, JobRecords, JobOK, PCs, Statuses
  <1>3. b \in JobRecords /\ JobOK(b)
    <2>1. /\ b \in JobRecords
          /\ b.pc = "boot" /\ b.settling = FALSE /\ b.c = 0 /\ b.then = "idle" /\ b.tx = 0
      BY <1>2 DEF NoJob, JobRecords, PCs
    <2> QED
      BY <2>1 DEF JobOK
  <1>4. job \in [Jobs -> JobRecords] /\ \A l \in Jobs : job[l] \in {b, NoJob}
    BY <1>2, <1>3 DEF Init
  <1>5. ContestedOK
    BY DEF Init, ContestedOK
  <1> QED
    BY <1>1, <1>2, <1>3, <1>4, <1>5, TypeParts DEF JobInv

\* Every step.
LEMMA NextType ==
    TypeOK /\ JobInv /\ [Next]_vars => TypeOK' /\ JobInv'
  <1> SUFFICES ASSUME TypeOK, JobInv, [Next]_vars PROVE TypeOK' /\ JobInv'
    OBVIOUS
  <1>1. ASSUME NEW k \in Jobs, Step(k) PROVE TypeOK' /\ JobInv'
    BY <1>1, StepJobs, StepRest, TypePartsNext
  <1>2. ASSUME NEW k \in Jobs, NEW c \in 0 .. N, SetsOut(k, c) PROVE TypeOK' /\ JobInv'
    BY <1>2, SetsOutType
  <1>3. CASE Outside
    <2>1. RestOK' /\ ContestedOK'
      BY <1>3, TypeParts
         DEF RestOK, ContestedOK, Outside, HeartbeatDue, HeartbeatAnswered, HeartbeatEnds, Close,
             CloseConn, ConnLost, RunEnds, connectors, csms, history
    <2> QED
      BY <1>3, <2>1, OutsideFacts, TypeParts, TypePartsNext DEF JobInv
  <1>4. CASE UNCHANGED vars
    BY <1>4 DEF vars, connectors, link, csms, history, TypeOK, JobInv
  <1> QED
    BY <1>1, <1>2, <1>3, <1>4, NextCases

\* Types and the meaning of the jobs together, as every later proof uses them.
LEMMA JobsMean == Spec => [](TypeOK /\ JobInv)
    BY InitType, NextType, PTL DEF Spec

\* The connectors, the goroutines and what the CSMS knows keep their types
\* through every command, failure and order of the goroutines' steps.
THEOREM TypeCorrect == Spec => []TypeOK
    BY JobsMean, PTL

-----------------------------------------------------------------------------
(***************************************************************************)
(* Sessions.  The steps of goroutine k, sorted by what becomes of the      *)
(* transactions.                                                           *)
(***************************************************************************)
OthersTx(k) == \A l \in Jobs \ {k} : job'[l].tx = job[l].tx

\* No transaction changes hands.
QuietTx(k) ==
    /\ OthersTx(k) /\ job'[k].tx = job[k].tx
    /\ UNCHANGED <<transactionID, running, nextTx, lost, replaced>>

\* The CSMS opens a transaction; the answer reaches k, or is lost.
OpensTx(k) ==
    /\ OthersTx(k) /\ job[k].tx = 0
    /\ running' = running \cup {nextTx} /\ nextTx' = nextTx + 1
    /\ UNCHANGED <<transactionID, replaced>>
    /\ \/ job'[k].tx = nextTx /\ lost' = lost
       \/ job'[k].tx = 0 /\ lost' = lost \cup {nextTx}

\* The transaction in k's hands is entered on its connector; one it finds
\* there, the start being contested, is given up.
EntersTx(k) ==
    /\ OthersTx(k) /\ job[k].tx # 0 /\ job'[k].tx = 0
    /\ job[k].pc = "commit"
    /\ job[k].c \in ConnectorIDs
    /\ transactionID' = [transactionID EXCEPT ![job[k].c] = job[k].tx]
    /\ replaced \subseteq replaced'
    /\ job[k].c \in contested /\ ~Free(job[k].c) => transactionID[job[k].c] \in replaced'
    /\ UNCHANGED <<running, nextTx, lost>>

\* k takes the transaction of its connector into its hands, if there is one.
TakesTx(k) ==
    /\ OthersTx(k) /\ job[k].tx = 0
    /\ job[k].c \in ConnectorIDs
    /\ job'[k].tx = transactionID[job[k].c]
    /\ transactionID' = [transactionID EXCEPT ![job[k].c] = 0]
    /\ UNCHANGED <<running, nextTx, lost, replaced>>

\* The transaction in k's hands is ended at the CSMS, or the call failed.
ClosesTx(k) ==
    /\ OthersTx(k) /\ job[k].tx # 0 /\ job'[k].tx = 0
    /\ UNCHANGED <<transactionID, nextTx, replaced>>
    /\ \/ running' = running \ {job[k].tx} /\ lost' = lost
       \/ /\ running' = running \/ running' = running \ {job[k].tx}
          /\ lost' = lost \cup {job[k].tx}

\* A goroutine whose call fails.
LEMMA CallFailsTx ==
    ASSUME TypeOK, JobInv, NEW k \in Jobs, CallFails(k)
    PROVE  QuietTx(k) \/ OpensTx(k) \/ ClosesTx(k)
  <1>1. Ends(k) /\ OthersTx(k) /\ job'[k].tx = 0
    BY EndsJob DEF CallFails, Ends, Becomes, Is, OthersTx
  <1>2. job[k].pc \in {"commit", "end"} <=> job[k].tx # 0
    BY DEF JobInv, JobOK
  <1>3. UNCHANGED transactionID
    BY DEF CallFails, connectors
  <1>4. CASE job[k].pc \in {"report", "boot", "alive"}
    BY <1>1, <1>2, <1>3, <1>4 DEF CallFails, Fails, At, QuietTx, csms, history
  <1>5. CASE job[k].pc = "begin"
    BY <1>1, <1>2, <1>3, <1>5 DEF CallFails, Fails, At, QuietTx, OpensTx, csms, history
  <1>6. CASE job[k].pc = "end"
    BY <1>1, <1>2, <1>3, <1>6 DEF CallFails, Fails, At, ClosesTx, csms, history
  <1> QED
    BY <1>4, <1>5, <1>6 DEF CallFails, Fails, At

\* Every step of a goroutine is of one of these sorts.
LEMMA StepTx ==
    ASSUME TypeOK, JobInv, NEW k \in Jobs, Step(k)
    PROVE  QuietTx(k) \/ OpensTx(k) \/ EntersTx(k) \/ TakesTx(k) \/ ClosesTx(k)
  <1> USE DEF connectors, csms, history
  <1>0. /\ job[k].pc \in {"commit", "end"} <=> job[k].tx # 0
        /\ job[k].settling => job[k].tx = 0
        /\ job[k].pc \in {"begin", "commit", "take", "end"} => job[k].c \in ConnectorIDs
    BY JobType, SimulatorAssumption DEF JobInv, JobOK, ConnectorIDs
  <1>2. CASE Abandoned(k)
    <2>1. OthersTx(k) /\ job'[k].tx = 0
      BY <1>2, EndsJob DEF Abandoned, Ends, Becomes, Is, OthersTx
    <2> QED
      BY <1>0, <1>2, <2>1 DEF Abandoned, QuietTx
  <1>3. CASE SetStatus(k)
    <2>1. OthersTx(k) /\ job'[k].tx = job[k].tx
      BY <1>3, SetStatusJob DEF Ends, Becomes, Is, OthersTx
    <2> QED
      BY <1>0, <1>3, <2>1 DEF SetStatus, At, QuietTx
  <1>4. CASE Reported(k)
    <2>1. OthersTx(k) /\ job'[k].tx = 0
      BY <1>4, ReportedJob DEF Ends, Becomes, Is, OthersTx
    <2> QED
      BY <1>0, <1>4, <2>1 DEF Reported, Answered, At, QuietTx
  <1>5. CASE Alive(k)
    <2>1. OthersTx(k) /\ job'[k].tx = 0
      BY <1>5, EndsJob DEF Alive, Ends, Becomes, Is, OthersTx
    <2> QED
      BY <1>0, <1>5, <2>1 DEF Alive, Answered, At, QuietTx
  <1>6. CASE Begun(k)
    <2>1. OthersTx(k) /\ job'[k].tx = nextTx
      BY <1>6, BegunJob DEF Ends, Becomes, Is, OthersTx
    <2> QED
      BY <1>0, <1>6, <2>1 DEF Begun, Answered, At, OpensTx
  <1>7. CASE Refused(k)
    <2>1. OthersTx(k) /\ job'[k].tx = 0
      BY <1>7, RefusedJob DEF Ends, Becomes, Is, OthersTx
    <2> QED
      BY <1>0, <1>7, <2>1 DEF Refused, Answered, At, QuietTx
  <1>8. CASE Commit(k)
    <2>1. OthersTx(k) /\ job'[k].tx = 0
      BY <1>8, CommitJob DEF Ends, Becomes, Is, OthersTx
    <2> QED
      BY <1>0, <1>8, <2>1 DEF Commit, At, EntersTx, Free
  <1>9. CASE Take(k)
    <2>1. OthersTx(k) /\ job'[k].tx = transactionID[job[k].c]
      BY <1>9, TakeJob DEF Ends, Becomes, Is, OthersTx
    <2> QED
      BY <1>0, <1>9, <2>1 DEF Take, At, TakesTx
  <1>10. CASE Ended(k)
    <2>1. OthersTx(k) /\ job'[k].tx = 0
      BY <1>10, EndedJob DEF Ends, Becomes, Is, OthersTx
    <2> QED
      BY <1>0, <1>10, <2>1 DEF Ended, Answered, At, ClosesTx
  <1>11. CASE Booted(k)
    <2>1. OthersTx(k) /\ job'[k].tx = 0
      BY <1>11, BootedJob DEF Ends, Becomes, Is, OthersTx
    <2> QED
      BY <1>0, <1>11, <2>1 DEF Booted, Answered, At, QuietTx
  <1>12. CASE ReportNext(k)
    <2>1. OthersTx(k) /\ job'[k].tx = 0
      BY <1>12, ReportNextJob DEF Ends, Becomes, Is, OthersTx
    <2> QED
      BY <1>0, <1>12, <2>1 DEF ReportNext, At, QuietTx
  <1>13. CASE CallFails(k)
    BY <1>13, CallFailsTx
  <1> QED
    BY <1>2, <1>3, <1>4, <1>5, <1>6, <1>7, <1>8, <1>9, <1>10, <1>11, <1>12, <1>13 DEF Step

\* Nor does one that sets out touch a transaction.
LEMMA SetsOutTx ==
    ASSUME TypeOK, JobInv, NEW k \in Jobs, NEW c \in 0 .. N, SetsOut(k, c)
    PROVE  QuietTx(k)
  <1>1. job[k].tx = 0
    BY DEF SetsOut, Launched, Busy, JobInv, JobOK
  <1>2. OthersTx(k) /\ job'[k].tx = 0
    BY DEF SetsOut, Reserves, Starts, Reports, Others, Becomes, Is, OthersTx
  <1> QED
    BY <1>1, <1>2 DEF SetsOut, Launched, QuietTx, csms

\* What is held is running and has one holder, after any step of a goroutine.
LEMMA HoldStep ==
    ASSUME TypeOK, JobInv, TypeOK', HoldInv, NEW k \in Jobs,
           QuietTx(k) \/ OpensTx(k) \/ EntersTx(k) \/ TakesTx(k) \/ ClosesTx(k)
    PROVE  HoldInv'
  <1> USE DEF HoldInv, HeldIsRunning, OthersTx
  <1>0. /\ transactionID \in [ConnectorIDs -> 0 .. MaxTx]
        /\ running \subseteq 1 .. MaxTx
        /\ nextTx \in 1 .. MaxTx + 1
        /\ MaxTx \in Nat
        /\ \A l \in Jobs : job[l].tx \in 0 .. MaxTx
    BY SimulatorAssumption, JobType DEF TypeOK
  <1>1. CASE QuietTx(k)
    BY <1>1 DEF QuietTx
  <1>2. CASE OpensTx(k)
    <2>1. \A n \in running : n < nextTx /\ n # nextTx /\ n \in Nat
      <3> SUFFICES ASSUME NEW n \in running PROVE n < nextTx /\ n # nextTx /\ n \in Nat
        OBVIOUS
      <3>1. n < nextTx /\ n \in 1 .. MaxTx
        BY <1>0
      <3> QED
        BY <1>0, <3>1
    <2>2. \A n \in running' : n < nextTx'
      BY <1>0, <1>2, <2>1 DEF OpensTx
    <2>3. \A d \in ConnectorIDs : transactionID[d] # nextTx
      BY <1>0, <2>1
    <2>4. \A l \in Jobs : job[l].tx # nextTx
      BY <1>0, <2>1
    <2> QED
      BY <1>0, <1>2, <2>2, <2>3, <2>4 DEF OpensTx
  <1>3. CASE EntersTx(k)
    BY <1>0, <1>3 DEF EntersTx
  <1>4. CASE TakesTx(k)
    BY <1>0, <1>4 DEF TakesTx
  <1>5. CASE ClosesTx(k)
    BY ZenonT(60), <1>0, <1>5 DEF ClosesTx
  <1> QED
    BY <1>1, <1>2, <1>3, <1>4, <1>5

\* The first states: nothing is running.
LEMMA InitHold == Init => HoldInv
  <1> SUFFICES ASSUME Init PROVE HoldInv
    OBVIOUS
  <1>1. \A l \in Jobs : job[l].tx = 0
    BY DEF Init, NoJob
  <1>2. running = {} /\ \A d \in ConnectorIDs : transactionID[d] = 0
    BY DEF Init
  <1> QED
    BY <1>1, <1>2 DEF HoldInv, HeldIsRunning

\* Every step.
LEMMA NextHold ==
    TypeOK /\ JobInv /\ TypeOK' /\ HoldInv /\ [Next]_vars => HoldInv'
  <1> SUFFICES ASSUME TypeOK, JobInv, TypeOK', HoldInv, [Next]_vars PROVE HoldInv'
    OBVIOUS
  <1>1. ASSUME NEW k \in Jobs, Step(k) PROVE HoldInv'
    BY <1>1, StepTx, HoldStep
  <1>2. ASSUME NEW k \in Jobs, NEW c \in 0 .. N, SetsOut(k, c) PROVE HoldInv'
    BY <1>2, SetsOutTx, HoldStep
  <1>3. CASE Outside
    BY <1>3, OutsideFacts DEF HoldInv, HeldIsRunning
  <1>4. CASE UNCHANGED vars
    BY <1>4 DEF vars, connectors, csms, HoldInv, HeldIsRunning
  <1> QED
    BY <1>1, <1>2, <1>3, <1>4, NextCases

\* A connector never claims a session that the CSMS does not run, nor one that
\* another connector claims, however starts, stops and failures interleave.
THEOREM HeldIsRunningHolds == Spec => []HeldIsRunning
  <1>1. HoldInv => HeldIsRunning
    BY DEF HoldInv
  <1> QED
    BY <1>1, InitHold, NextHold, JobsMean, PTL DEF Spec

\* What goroutine k and the others are starting, after a step of k.
StartsNothingNew(k) ==
    /\ \A l \in Jobs \ {k} : job'[l] = job[l]
    /\ \A d \in ConnectorIDs : Starting(k, d)' => Starting(k, d)

\* The step of a goroutine starts nothing new.
LEMMA StepStarting ==
    ASSUME TypeOK, JobInv, NEW k \in Jobs, Step(k)
    PROVE  StartsNothingNew(k)
  <1>0. JobOK(job[k])
    BY DEF JobInv
  <1>2. CASE Abandoned(k)
    BY <1>2, EndsJob DEF Abandoned, Ends, Becomes, Is, StartsNothingNew, Starting
  <1>3. CASE SetStatus(k)
    BY <1>0, <1>3, SetStatusJob
       DEF SetStatus, At, Ends, Becomes, Is, JobOK, StartsNothingNew, Starting
  <1>4. CASE Reported(k)
    BY <1>0, <1>4, ReportedJob
       DEF Reported, Answered, At, Ends, Becomes, Is, JobOK, StartsNothingNew, Starting
  <1>5. CASE Alive(k)
    BY <1>5, EndsJob DEF Alive, Ends, Becomes, Is, StartsNothingNew, Starting
  <1>6. CASE Begun(k)
    BY <1>0, <1>6, BegunJob
       DEF Begun, Answered, At, Ends, Becomes, Is, JobOK, StartsNothingNew, Starting
  <1>7. CASE Refused(k)
    BY <1>0, <1>7, RefusedJob
       DEF Refused, Answered, At, Ends, Becomes, Is, JobOK, StartsNothingNew, Starting
  <1>8. CASE Commit(k)
    BY <1>0, <1>8, CommitJob DEF Commit, At, Ends, Becomes, Is, JobOK, StartsNothingNew, Starting
  <1>9. CASE Take(k)
    BY <1>0, <1>9, TakeJob DEF Take, At, Ends, Becomes, Is, JobOK, StartsNothingNew, Starting
  <1>10. CASE Ended(k)
    BY <1>0, <1>10, EndedJob
       DEF Ended, Answered, At, Ends, Becomes, Is, JobOK, StartsNothingNew, Starting
  <1>11. CASE Booted(k)
    BY <1>0, <1>11, BootedJob
       DEF Booted, Answered, At, Ends, Becomes, Is, JobOK, StartsNothingNew, Starting
  <1>12. CASE ReportNext(k)
    BY <1>0, <1>12, ReportNextJob
       DEF ReportNext, At, Ends, Becomes, Is, JobOK, StartsNothingNew, Starting
  <1>13. CASE CallFails(k)
    BY <1>13, EndsJob DEF CallFails, Ends, Becomes, Is, StartsNothingNew, Starting
  <1> QED
    BY <1>2, <1>3, <1>4, <1>5, <1>6, <1>7, <1>8, <1>9, <1>10, <1>11, <1>12, <1>13 DEF Step

\* A goroutine that has entered the session no longer starts one.
LEMMA EnteredStarting ==
    ASSUME TypeOK, JobInv, NEW k \in Jobs, Step(k), EntersTx(k)
    PROVE  \A d \in ConnectorIDs : ~Starting(k, d)'
  <1>1. job[k].pc = "commit" /\ ~job[k].settling /\ JobOK(job[k]) /\ job'[k].tx = 0
    BY DEF EntersTx, JobInv, JobOK
  <1>2. CASE Commit(k)
    BY <1>2, CommitJob DEF Becomes, Is, Starting
  <1>3. ~(Begun(k) \/ Refused(k) \/ Take(k) \/ Ended(k) \/ Booted(k) \/ ReportNext(k) \/ CallFails(k)
          \/ Abandoned(k) \/ SetStatus(k) \/ Reported(k) \/ Alive(k))
    BY <1>1
       DEF Begun, Refused, Take, Ended, Booted, ReportNext, CallFails, Fails, Abandoned,
                SetStatus, Reported, Alive, Answered, At
  <1> QED
    BY <1>2, <1>3 DEF Step

\* A start that is not contested stays alone, and on a free connector.
LEMMA StartStep ==
    ASSUME TypeOK, JobInv, StartInv, NEW k \in Jobs, Step(k)
    PROVE  StartInv'
  <1> SUFFICES ASSUME NEW l \in Jobs, NEW d \in ConnectorIDs, Starting(l, d)',
                      d \notin contested'
               PROVE  Free(d)' /\ \A m \in Jobs \ {l} : ~Starting(m, d)'
    BY DEF StartInv
  <1>1. \A m \in Jobs : Starting(m, d)' => Starting(m, d)
    BY StepStarting DEF StartsNothingNew, Starting
  <1>0. d \notin contested
    BY DEF Step, BeingStarted
  <1>2. Free(d) /\ \A m \in Jobs \ {l} : ~Starting(m, d)
    BY <1>0, <1>1 DEF StartInv
  <1>3. \A m \in Jobs \ {l} : ~Starting(m, d)'
    BY <1>1, <1>2
  <1>4. CASE EntersTx(k)
    <2>1. k # l
      BY <1>4, EnteredStarting
    <2>2. job[k].c # d
      <3>1. Starting(k, job[k].c)
        BY <1>4 DEF EntersTx, Starting
      <3> QED
        BY <1>2, <2>1, <3>1
    <2> QED
      BY <1>2, <1>3, <1>4, <2>2 DEF EntersTx, Free, TypeOK
  <1>5. CASE QuietTx(k) \/ OpensTx(k) \/ ClosesTx(k)
    BY <1>2, <1>3, <1>5 DEF QuietTx, OpensTx, ClosesTx, Free
  <1>6. CASE TakesTx(k)
    BY <1>2, <1>3, <1>6 DEF TakesTx, Free, TypeOK
  <1> QED
    BY <1>4, <1>5, <1>6, StepTx

\* A goroutine that sets out to start a session beside another is noticed.
LEMMA SetsOutStart ==
    ASSUME TypeOK, JobInv, StartInv, NEW k \in Jobs, NEW c \in 0 .. N, SetsOut(k, c)
    PROVE  StartInv'
  <1> SUFFICES ASSUME NEW l \in Jobs, NEW d \in ConnectorIDs, Starting(l, d)',
                      d \notin contested'
               PROVE  Free(d)' /\ \A m \in Jobs \ {l} : ~Starting(m, d)'
    BY DEF StartInv
  <1>1. UNCHANGED transactionID
    BY DEF SetsOut, Launched
  <1>2. \A m \in Jobs \ {k} : job'[m] = job[m]
    BY DEF SetsOut, Reserves, Starts, Reports, Others, Becomes
  <1>3. CASE Starting(k, d)'
    <2>1. Starts(k, c) /\ d = c
      BY <1>3 DEF SetsOut, Reserves, Starts, Reports, Others, Becomes, Is, Starting
    <2>2. Free(d) /\ \A m \in Jobs : ~Starting(m, d)
      BY <2>1 DEF Starts
    <2>3. l = k
      BY <1>2, <2>2 DEF Starting
    <2> QED
      BY <1>1, <1>2, <2>2, <2>3 DEF Starting, Free
  <1>4. CASE ~Starting(k, d)'
    <2>1. l # k /\ Starting(l, d)
      BY <1>2, <1>4 DEF Starting
    <2>2. d \notin contested
      BY DEF SetsOut, Reserves, Starts, Reports, Others
    <2>3. Free(d) /\ \A m \in Jobs \ {l} : ~Starting(m, d)
      BY <2>1, <2>2 DEF StartInv
    <2> QED
      BY <1>1, <1>2, <1>4, <2>3 DEF Starting, Free
  <1> QED
    BY <1>3, <1>4

\* Every step keeps the starts apart.
LEMMA NextStart ==
    TypeOK /\ JobInv /\ StartInv /\ [Next]_vars => StartInv'
  <1> SUFFICES ASSUME TypeOK, JobInv, StartInv, [Next]_vars PROVE StartInv'
    OBVIOUS
  <1>1. ASSUME NEW k \in Jobs, Step(k) PROVE StartInv'
    BY <1>1, StartStep
  <1>2. ASSUME NEW k \in Jobs, NEW c \in 0 .. N, SetsOut(k, c) PROVE StartInv'
    BY <1>2, SetsOutStart
  <1>3. CASE Outside
    BY <1>3, OutsideFacts DEF StartInv, Starting, Free
  <1>4. CASE UNCHANGED vars
    BY <1>4 DEF vars, connectors, history, StartInv, Starting, Free
  <1> QED
    BY <1>1, <1>2, <1>3, <1>4, NextCases

\* At first nothing is being started.
LEMMA InitStart == Init => StartInv
  <1> SUFFICES ASSUME Init PROVE StartInv
    OBVIOUS
  <1>1. \A l \in Jobs : job[l].pc \in {"idle", "boot"} /\ job[l].then = "idle"
    BY DEF Init, NoJob
  <1> QED
    BY <1>1 DEF StartInv, Starting

\* No transaction is let go of by a step of a goroutine.
LEMMA OrphanStep ==
    ASSUME TypeOK, JobInv, StartInv, NoOrphan, NEW k \in Jobs,
           QuietTx(k) \/ OpensTx(k) \/ EntersTx(k) \/ TakesTx(k) \/ ClosesTx(k)
    PROVE  NoOrphan'
  <1> SUFFICES ASSUME NEW n \in running'
               PROVE  \/ n \in lost' \cup replaced'
                      \/ \E d \in ConnectorIDs : transactionID'[d] = n
                      \/ \E l \in Jobs : job'[l].tx = n
    BY DEF NoOrphan
  <1> USE DEF OthersTx
  <1>0. /\ transactionID \in [ConnectorIDs -> 0 .. MaxTx]
        /\ \A m \in running : m # 0
    BY SimulatorAssumption DEF TypeOK
  <1>1. n \in running => \/ n \in lost \cup replaced
                         \/ \E d \in ConnectorIDs : transactionID[d] = n
                         \/ \E l \in Jobs : job[l].tx = n
    BY DEF NoOrphan
  <1>2. CASE QuietTx(k)
    BY <1>1, <1>2 DEF QuietTx
  <1>3. CASE OpensTx(k)
    BY <1>1, <1>0, <1>3 DEF OpensTx
  <1>4. CASE EntersTx(k)
    <2>1. Free(job[k].c) \/ transactionID[job[k].c] \in replaced'
      BY <1>4 DEF EntersTx, StartInv, Starting
    <2> QED
      BY <1>0, <1>1, <1>4, <2>1 DEF EntersTx, Free
  <1>5. CASE TakesTx(k)
    BY <1>0, <1>1, <1>5 DEF TakesTx
  <1>6. CASE ClosesTx(k)
    BY <1>0, <1>1, <1>6 DEF ClosesTx
  <1> QED
    BY <1>2, <1>3, <1>4, <1>5, <1>6

\* Nor by any step.
LEMMA NextOrphan ==
    TypeOK /\ JobInv /\ StartInv /\ NoOrphan /\ [Next]_vars => NoOrphan'
  <1> SUFFICES ASSUME TypeOK, JobInv, StartInv, NoOrphan, [Next]_vars PROVE NoOrphan'
    OBVIOUS
  <1>1. ASSUME NEW k \in Jobs, Step(k) PROVE NoOrphan'
    BY <1>1, StepTx, OrphanStep
  <1>2. ASSUME NEW k \in Jobs, NEW c \in 0 .. N, SetsOut(k, c) PROVE NoOrphan'
    BY <1>2, SetsOutTx, OrphanStep
  <1>3. CASE Outside
    BY <1>3, OutsideFacts DEF NoOrphan
  <1>4. CASE UNCHANGED vars
    BY <1>4 DEF vars, connectors, csms, history, NoOrphan
  <1> QED
    BY <1>1, <1>2, <1>3, <1>4, NextCases

\* A session that runs at the CSMS is known to a connector or to a goroutine,
\* unless a call about it failed, or a start put another one in its place that
\* had met a second start, or a session, on its connector.
THEOREM NoOrphanHolds == Spec => []NoOrphan
  <1>1. Init => NoOrphan
    BY DEF Init, NoOrphan
  <1> QED
    BY <1>1, InitStart, NextStart, NextOrphan, JobsMean, PTL DEF Spec

-----------------------------------------------------------------------------
(***************************************************************************)
(* Reservations.                                                           *)
(***************************************************************************)
\* The step of a goroutine keeps session and reservation apart.
LEMMA ReservationStep ==
    ASSUME TypeOK, JobInv, SessionConsumesReservation, NEW k \in Jobs, Step(k)
    PROVE  SessionConsumesReservation'
  <1> USE DEF SessionConsumesReservation
  <1>0. transactionID \in [ConnectorIDs -> 0 .. MaxTx] /\ reservationID \in [ConnectorIDs -> ReservationIDs \cup {0}]
    BY DEF TypeOK
  <1>1. CASE Commit(k)
    BY <1>0, <1>1 DEF Commit
  <1>2. CASE Take(k)
    BY <1>0, <1>2 DEF Take
  <1>3. CASE ~Commit(k) /\ ~Take(k)
    <2>1. UNCHANGED <<transactionID, reservationID>>
      BY <1>3
         DEF Step, Abandoned, SetStatus, Reported, Alive, Begun, Refused, Ended, Booted,
                  ReportNext, CallFails, connectors
    <2> QED
      BY <2>1
  <1> QED
    BY <1>1, <1>2, <1>3

\* Every step keeps them apart.
LEMMA NextReservation ==
    TypeOK /\ JobInv /\ SessionConsumesReservation /\ [Next]_vars => SessionConsumesReservation'
  <1> SUFFICES ASSUME TypeOK, JobInv, SessionConsumesReservation, [Next]_vars
               PROVE  SessionConsumesReservation'
    OBVIOUS
  <1>1. ASSUME NEW k \in Jobs, Step(k) PROVE SessionConsumesReservation'
    BY <1>1, ReservationStep
  <1>2. ASSUME NEW k \in Jobs, NEW c \in 0 .. N, SetsOut(k, c) PROVE SessionConsumesReservation'
    <2>1. UNCHANGED transactionID
      BY <1>2 DEF SetsOut, Launched
    <2>2. CASE Reserves(k, c)
      BY <2>1, <2>2 DEF Reserves, Free, TypeOK, SessionConsumesReservation
    <2>3. CASE UNCHANGED reservationID
      BY <2>1, <2>3 DEF SessionConsumesReservation
    <2> QED
      BY <1>2, <2>2, <2>3 DEF SetsOut, Starts, Reports, Others
  <1>3. CASE Outside
    BY <1>3, OutsideFacts DEF SessionConsumesReservation
  <1>4. CASE UNCHANGED vars
    BY <1>4 DEF vars, connectors, SessionConsumesReservation
  <1> QED
    BY <1>1, <1>2, <1>3, <1>4, NextCases

\* A connector in a session has no reservation, although ReserveNow may be
\* accepted while a start is under way.
THEOREM SessionConsumesReservationHolds == Spec => []SessionConsumesReservation
  <1>1. Init => SessionConsumesReservation
    BY DEF Init, SessionConsumesReservation
  <1> QED
    BY <1>1, NextReservation, JobsMean, PTL DEF Spec

-----------------------------------------------------------------------------
(***************************************************************************)
(* Reports.                                                                *)
(***************************************************************************)
\* What a step of goroutine k that was about connector d, or stays clear of
\* it, has to do for the CSMS to be told.
LEMMA ReportKept ==
    ASSUME NEW k \in Jobs, NEW d \in 0 .. N, ReportAt(d),
           \A l \in Jobs \ {k} : job'[l] = job[l],
           About(k, d)' => About(k, d),
           status'[d] = status[d] \/ About(k, d),
           job'[k].pc = "report" /\ job'[k].c = d => job'[k].msg = status'[d],
           \/ told'[d] = status'[d]
           \/ Owes(k, d)'
           \/ told'[d] = told[d] /\ status'[d] = status[d] /\ ~Owes(k, d)
    PROVE  ReportAt(d)'
  <1>1. \A l, m \in Jobs : About(l, d)' /\ About(m, d)' => l = m
    BY DEF ReportAt, About, Busy
  <1>2. \A l \in Jobs : job'[l].pc = "report" /\ job'[l].c = d => job'[l].msg = status'[d]
    <2> SUFFICES ASSUME NEW l \in Jobs, l # k, job[l].pc = "report", job[l].c = d
                 PROVE  job[l].msg = status'[d]
      OBVIOUS
    <2>1. About(l, d) /\ job[l].msg = status[d]
      BY DEF About, Busy, ReportAt
    <2> QED
      BY <2>1 DEF ReportAt
  <1>3. told'[d] = status'[d] \/ \E l \in Jobs : Owes(l, d)'
    <2>1. CASE told'[d] = told[d] /\ status'[d] = status[d] /\ ~Owes(k, d)
      BY <2>1 DEF ReportAt, Owes
    <2> QED
      BY <2>1
  <1> QED
    BY <1>1, <1>2, <1>3 DEF ReportAt

\* The step of a goroutine, while the simulator is open.
LEMMA ReportStep ==
    ASSUME TypeOK, JobInv, NEW k \in Jobs, Step(k), NEW d \in 0 .. N, d \notin blurred',
           ~done', ReportAt(d)
    PROVE  ReportAt(d)'
  <1> USE DEF connectors, link, csms, history
  <1>0. /\ JobOK(job[k])
        /\ job[k].c \in 0 .. N
        /\ status \in [0 .. N -> Statuses]
        /\ told \in [0 .. N -> Statuses]
        /\ N \in Nat
    BY JobType, SimulatorAssumption DEF JobInv, TypeOK
  <1>a. job[k].pc = "report" /\ job[k].c = d => job[k].msg = status[d]
    BY DEF ReportAt
  <1>2. CASE Abandoned(k)
    BY <1>2 DEF Abandoned
  <1>3. CASE SetStatus(k)
    <2>1. \A l \in Jobs \ {k} : job'[l] = job[l]
      BY <1>3, SetStatusJob DEF Ends, Becomes
    <2>2. About(k, d)' => About(k, d)
      BY <1>0, <1>3, SetStatusJob DEF SetStatus, At, Ends, Becomes, Is, JobOK, About, Busy
    <2>3. status'[d] = status[d] \/ About(k, d)
      BY <1>0, <1>3 DEF SetStatus, At, About, Busy
    <2>4. job'[k].pc = "report" /\ job'[k].c = d => job'[k].msg = status'[d]
      <3>1. job'[k].c = job[k].c /\ job'[k].msg = job[k].msg
        BY <1>3, SetStatusJob DEF Becomes, Is
      <3>2. job[k].c = d => status'[d] = job[k].msg
        BY <1>0, <1>3 DEF SetStatus
      <3> QED
        BY <3>1, <3>2
    <2>5. \/ told'[d] = status'[d]
          \/ Owes(k, d)'
          \/ told'[d] = told[d] /\ status'[d] = status[d] /\ ~Owes(k, d)
      BY <1>0, <1>a, <1>3, SetStatusJob DEF SetStatus, At, Ends, Becomes, Is, JobOK, Owes
    <2> QED
      BY <2>1, <2>2, <2>3, <2>4, <2>5, ReportKept
  <1>4. CASE Reported(k)
    <2>1. \A l \in Jobs \ {k} : job'[l] = job[l]
      BY <1>4, ReportedJob DEF Ends, Becomes
    <2>2. About(k, d)' => About(k, d)
      BY <1>0, <1>4, ReportedJob DEF Reported, Answered, At, Ends, Becomes, Is, JobOK, About, Busy
    <2>3. status'[d] = status[d] \/ About(k, d)
      BY <1>0, <1>4 DEF Reported, Answered, At, About, Busy
    <2>4. job'[k].pc = "report" /\ job'[k].c = d => job'[k].msg = status'[d]
      BY <1>0, <1>4, ReportedJob DEF Reported, Answered, At, Ends, Becomes, Is, JobOK
    <2>5. \/ told'[d] = status'[d]
          \/ Owes(k, d)'
          \/ told'[d] = told[d] /\ status'[d] = status[d] /\ ~Owes(k, d)
      BY <1>0, <1>a, <1>4, ReportedJob DEF Reported, Answered, At, Ends, Becomes, Is, JobOK, Owes
    <2> QED
      BY <2>1, <2>2, <2>3, <2>4, <2>5, ReportKept
  <1>5. CASE Alive(k)
    <2>1. Ends(k) /\ UNCHANGED <<status, told>>
      BY <1>5, EndsJob DEF Alive
    <2>2. job'[k].pc = "idle" /\ \A l \in Jobs \ {k} : job'[l] = job[l]
      BY <2>1 DEF Ends, Becomes, Is
    <2>3. ~Owes(k, d)
      BY <1>5, <1>0 DEF Alive, Answered, At, Owes, JobOK
    <2> QED
      BY <2>1, <2>2, <2>3, ReportKept DEF About, Busy
  <1>6. CASE Begun(k)
    <2>1. UNCHANGED <<status, told>> /\ \A l \in Jobs \ {k} : job'[l] = job[l]
      BY <1>6, BegunJob DEF Begun, Ends, Becomes
    <2>2. About(k, d)' => About(k, d)
      BY <1>0, <1>6, BegunJob DEF Begun, Answered, At, Ends, Becomes, Is, JobOK, About, Busy
    <2>3. job'[k].pc = "report" /\ job'[k].c = d => job'[k].msg = status[d]
      BY <1>0, <1>a, <1>6, BegunJob DEF Begun, Answered, At, Ends, Becomes, Is, JobOK
    <2>4. Owes(k, d)' \/ ~Owes(k, d)
      BY <1>0, <1>6, BegunJob DEF Begun, Answered, At, Ends, Becomes, Is, JobOK, Owes
    <2> QED
      BY <2>1, <2>2, <2>3, <2>4, ReportKept
  <1>7. CASE Refused(k)
    <2>1. UNCHANGED <<status, told>> /\ \A l \in Jobs \ {k} : job'[l] = job[l]
      BY <1>7, RefusedJob DEF Refused, Ends, Becomes
    <2>2. About(k, d)' => About(k, d)
      BY <1>0, <1>7, RefusedJob DEF Refused, Answered, At, Ends, Becomes, Is, JobOK, About, Busy
    <2>3. job'[k].pc = "report" /\ job'[k].c = d => job'[k].msg = status[d]
      BY <1>0, <1>a, <1>7, RefusedJob DEF Refused, Answered, At, Ends, Becomes, Is, JobOK
    <2>4. Owes(k, d)' \/ ~Owes(k, d)
      BY <1>0, <1>7, RefusedJob DEF Refused, Answered, At, Ends, Becomes, Is, JobOK, Owes
    <2> QED
      BY <2>1, <2>2, <2>3, <2>4, ReportKept
  <1>8. CASE Commit(k)
    <2>1. UNCHANGED <<status, told>> /\ \A l \in Jobs \ {k} : job'[l] = job[l]
      BY <1>8, CommitJob DEF Commit, Ends, Becomes
    <2>2. About(k, d)' => About(k, d)
      BY <1>0, <1>8, CommitJob DEF Commit, At, Ends, Becomes, Is, JobOK, About, Busy
    <2>3. job'[k].pc = "report" /\ job'[k].c = d => job'[k].msg = status[d]
      BY <1>0, <1>a, <1>8, CommitJob DEF Commit, At, Ends, Becomes, Is, JobOK
    <2>4. Owes(k, d)' \/ ~Owes(k, d)
      BY <1>0, <1>8, CommitJob DEF Commit, At, Ends, Becomes, Is, JobOK, Owes
    <2> QED
      BY <2>1, <2>2, <2>3, <2>4, ReportKept
  <1>9. CASE Take(k)
    <2>1. UNCHANGED <<status, told>> /\ \A l \in Jobs \ {k} : job'[l] = job[l]
      BY <1>9, TakeJob DEF Take, Ends, Becomes
    <2>2. About(k, d)' => About(k, d)
      BY <1>0, <1>9, TakeJob DEF Take, At, Ends, Becomes, Is, JobOK, About, Busy
    <2>3. job'[k].pc = "report" /\ job'[k].c = d => job'[k].msg = status[d]
      BY <1>0, <1>a, <1>9, TakeJob DEF Take, At, Ends, Becomes, Is, JobOK
    <2>4. Owes(k, d)' \/ ~Owes(k, d)
      BY <1>0, <1>9, TakeJob DEF Take, At, Ends, Becomes, Is, JobOK, Owes
    <2> QED
      BY <2>1, <2>2, <2>3, <2>4, ReportKept
  <1>10. CASE Ended(k)
    <2>1. UNCHANGED <<status, told>> /\ \A l \in Jobs \ {k} : job'[l] = job[l]
      BY <1>10, EndedJob DEF Ended, Ends, Becomes
    <2>2. About(k, d)' => About(k, d)
      BY <1>0, <1>10, EndedJob DEF Ended, Answered, At, Ends, Becomes, Is, JobOK, About, Busy
    <2>3. job'[k].pc = "report" /\ job'[k].c = d => job'[k].msg = status[d]
      BY <1>0, <1>a, <1>10, EndedJob DEF Ended, Answered, At, Ends, Becomes, Is, JobOK
    <2>4. Owes(k, d)' \/ ~Owes(k, d)
      BY <1>0, <1>10, EndedJob DEF Ended, Answered, At, Ends, Becomes, Is, JobOK, Owes
    <2> QED
      BY <2>1, <2>2, <2>3, <2>4, ReportKept
  <1>11. CASE Booted(k)
    <2>1. UNCHANGED <<status, told>> /\ \A l \in Jobs \ {k} : job'[l] = job[l]
      BY <1>11, BootedJob DEF Booted, Ends, Becomes
    <2>2. About(k, d)' => About(k, d)
      BY <1>0, <1>11, BootedJob DEF Booted, Answered, At, Ends, Becomes, Is, JobOK, About, Busy
    <2>a. /\ job'[k].pc = "report" /\ job'[k].c = 0 /\ job'[k].msg = status[0]
          /\ job'[k].then = "next"
      BY <1>11, BootedJob DEF Becomes, Is
    <2>3. job'[k].pc = "report" /\ job'[k].c = d => job'[k].msg = status[d]
      BY <2>a
    <2>4. Owes(k, d)'
      BY <2>a DEF Owes
    <2> QED
      BY <2>1, <2>2, <2>3, <2>4, ReportKept
  <1>12. CASE ReportNext(k)
    <2>1. UNCHANGED <<status, told>> /\ \A l \in Jobs \ {k} : job'[l] = job[l]
      BY <1>12, ReportNextJob DEF ReportNext, Ends, Becomes
    <2>2. About(k, d)' => About(k, d)
      BY <1>0, <1>12, ReportNextJob DEF ReportNext, At, Ends, Becomes, Is, JobOK, About, Busy
    <2>3. job'[k].pc = "report" /\ job'[k].c = d => job'[k].msg = status[d]
      BY <1>0, <1>a, <1>12, ReportNextJob DEF ReportNext, At, Ends, Becomes, Is, JobOK
    <2>4. Owes(k, d)' \/ ~Owes(k, d)
      <3>1. job[k].pc = "next" /\ job[k].then = "idle"
        BY <1>0, <1>12 DEF ReportNext, At, JobOK
      <3>2. CASE /\ job'[k].pc = "report" /\ job'[k].c = job[k].c + 1
                 /\ job'[k].then = "next"
        <4>1. d = job[k].c + 1 \/ d > job[k].c + 1 \/ ~(d > job[k].c)
          BY <1>0
        <4> QED
          BY <1>0, <3>1, <3>2, <4>1 DEF Owes
      <3>3. CASE job[k].c = N
        <4>1. ~(d > job[k].c)
          BY <1>0, <3>3
        <4> QED
          BY <3>1, <4>1 DEF Owes
      <3> QED
        BY <1>12, <3>2, <3>3, ReportNextJob DEF Becomes, Is
    <2> QED
      BY <2>1, <2>2, <2>3, <2>4, ReportKept
  <1>13. CASE CallFails(k)
    <2>1. Ends(k) /\ ~Connecting(k) /\ UNCHANGED status
      BY <1>13, EndsJob DEF CallFails
    <2>2. job'[k].pc = "idle" /\ \A l \in Jobs \ {k} : job'[l] = job[l]
      BY <2>1 DEF Ends, Becomes, Is
    <2>3. told'[d] = told[d] /\ ~Owes(k, d)
      BY <1>0, <1>13, <2>1 DEF CallFails, Fails, At, Owes, Connecting
    <2> QED
      BY <2>1, <2>2, <2>3, ReportKept DEF About, Busy
  <1> QED
    BY <1>2, <1>3, <1>4, <1>5, <1>6, <1>7, <1>8, <1>9, <1>10, <1>11, <1>12, <1>13 DEF Step

\* A goroutine that sets out: another one about the connector blurs it, and one
\* that is alone there, and will report, makes up for what was missed before.
LEMMA ReportSetsOut ==
    ASSUME TypeOK, JobInv, NEW k \in Jobs, NEW c \in 0 .. N, SetsOut(k, c),
           NEW d \in 0 .. N, d \notin blurred', d \notin blurred => ReportAt(d)
    PROVE  ReportAt(d)'
  <1>1. Launched(k, c) /\ ~Busy(k) /\ ~About(k, d) /\ ~Owes(k, d) /\ UNCHANGED told
    BY DEF SetsOut, Launched, Busy, About, Owes, JobInv, JobOK, csms
  <1>2. /\ \A l \in Jobs \ {k} : job'[l] = job[l]
        /\ job'[k].c = c /\ job'[k].pc \in {"set", "report", "take", "alive"}
        /\ job'[k].then \in {"idle", "begin"}
        /\ job'[k].pc = "alive" => job'[k].then = "idle"
    BY DEF SetsOut, Reserves, Starts, Reports, Others, Becomes, Is
  <1>3. status \in [0 .. N -> Statuses]
    BY DEF TypeOK
  <1>4. status'[d] = status[d] \/ (d = c /\ job'[k].pc = "report")
    BY <1>3 DEF SetsOut, Reserves, Starts, Reports, Others, Becomes, Is
  <1>5. CASE d # c \/ job'[k].pc = "alive"
    <2>1. d \notin blurred
      BY <1>1, <1>5 DEF Launched
    <2>2. status'[d] = status[d]
      BY <1>4, <1>5
    <2>3. ~About(k, d)' /\ ~(job'[k].pc = "report" /\ job'[k].c = d)
      BY <1>2, <1>5 DEF About
    <2> QED
      BY <1>1, <1>2, <2>1, <2>2, <2>3, ReportKept
  <1>6. CASE d = c /\ job'[k].pc # "alive"
    <2>1. \A l \in Jobs : ~About(l, d)
      BY <1>1, <1>6 DEF Launched
    <2>2. \A l \in Jobs \ {k} : ~About(l, d)'
      BY <1>2, <2>1 DEF About
    <2>3. job'[k].pc = "report" => job'[k].msg = status'[d]
      BY <1>3, <1>6 DEF SetsOut, Reserves, Starts, Reports, Others, Becomes, Is
    <2>4. \A l \in Jobs \ {k} : ~(job'[l].pc = "report" /\ job'[l].c = d)
      BY <2>2 DEF About
    <2>5. told'[d] = status'[d] \/ \E l \in Jobs : Owes(l, d)'
      <3>1. CASE job'[k].pc \in {"set", "report"}
        BY <1>2, <1>6, <3>1 DEF Owes
      <3>2. CASE job'[k].pc \notin {"set", "report"}
        <4>1. d \notin blurred
          BY <1>1, <1>6, <3>2 DEF Launched
        <4>2. \A l \in Jobs : ~Owes(l, d)
          BY <2>1 DEF About, Owes
        <4> QED
          BY <1>1, <1>4, <3>2, <4>1, <4>2 DEF ReportAt
      <3> QED
        BY <3>1, <3>2
    <2> QED
      BY <2>2, <2>3, <2>4, <2>5 DEF ReportAt
  <1> QED
    BY <1>5, <1>6

\* Every step keeps the CSMS informed.
LEMMA NextReport ==
    TypeOK /\ JobInv /\ ReportInv /\ [Next]_vars => ReportInv'
  <1> SUFFICES ASSUME TypeOK, JobInv, ReportInv, [Next]_vars PROVE ReportInv'
    OBVIOUS
  <1>1. ASSUME NEW k \in Jobs, Step(k) PROVE ReportInv'
    <2>1. (~done' => ~done) /\ (conn' = "open" => conn = "open") /\ blurred \subseteq blurred'
      <3>1. CASE CallFails(k)
        BY <3>1 DEF CallFails, Fails, history
      <3>2. CASE ~CallFails(k)
        <4>1. UNCHANGED <<done, conn, blurred>>
          BY <1>1, <3>2
             DEF Step, Abandoned, SetStatus, Reported, Alive, Begun, Refused, Commit,
                            Take, Ended, Booted, ReportNext, link, history
        <4> QED
          BY <4>1
      <3> QED
        BY <3>1, <3>2
    <2> QED
      BY <1>1, <2>1, ReportStep DEF ReportInv
  <1>2. ASSUME NEW k \in Jobs, NEW c \in 0 .. N, SetsOut(k, c) PROVE ReportInv'
    <2>1. UNCHANGED <<done, conn>>
      BY <1>2 DEF SetsOut, Launched, link
    <2> QED
      BY <1>2, <2>1, ReportSetsOut DEF ReportInv
  <1>3. CASE Outside
    BY <1>3, OutsideFacts DEF ReportInv, ReportAt, About, Busy, Owes
  <1>4. CASE UNCHANGED vars
    BY <1>4 DEF vars, connectors, link, csms, history, ReportInv, ReportAt, About, Busy, Owes
  <1> QED
    BY <1>1, <1>2, <1>3, <1>4, NextCases

\* At first Connect owes all reports, and is the only one to report.
LEMMA InitReport == Init => ReportInv
  <1> SUFFICES ASSUME Init, NEW d \in 0 .. N PROVE ReportAt(d)
    BY DEF ReportInv
  <1>1. /\ job[Starter].pc = "boot"
        /\ \A l \in Jobs \ {Starter} : job[l].pc = "idle"
    BY SimulatorAssumption DEF Init, NoJob
  <1>2. \E l \in Jobs : Owes(l, d)
    BY <1>1, SimulatorAssumption DEF Owes
  <1>3. \A l, m \in Jobs : About(l, d) /\ About(m, d) => l = m
    BY <1>1 DEF About, Busy
  <1> QED
    BY <1>1, <1>2, <1>3 DEF ReportAt

\* While the simulator is open, the CSMS was last told the status a connector
\* has, whenever no goroutine is about it, unless two were at once or a report
\* failed, and no goroutine has reported undisturbed since.
THEOREM ToldIsCurrentHolds == Spec => []ToldIsCurrent
  <1>1. ReportInv /\ TypeOK => ToldIsCurrent
    <2> SUFFICES ASSUME ReportInv, TypeOK, NEW d \in (0 .. N) \ blurred,
                        ~done, conn = "open", \A l \in Jobs : ~About(l, d)
                 PROVE  told[d] = status[d]
      BY DEF ToldIsCurrent
    <2>1. \A l \in Jobs : ~Owes(l, d)
      BY DEF About, Busy, Owes
    <2> QED
      BY <2>1 DEF ReportInv, ReportAt
  <1> QED
    BY <1>1, InitReport, NextReport, JobsMean, PTL DEF Spec

=============================================================================
