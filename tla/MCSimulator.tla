---------------------------- MODULE MCSimulator ----------------------------
(* Instances of Simulator for TLC. *)
EXTENDS Simulator

\* What the session properties depend on.  No action reads what the CSMS was
\* told, nor the history of reports; the heartbeat loop leaves all else alone;
\* the status in a report that is under way goes nowhere else; and that a
\* session was given up matters while the CSMS runs it.
SessionsView ==
    <<connectors, done, conn, serving, running, nextTx,
      [j \in Jobs |-> IF job[j].pc = "report" THEN [job[j] EXCEPT !.msg = "Available"]
                                              ELSE job[j]],
      (lost \cup replaced) \cap running,
      contested>>
=============================================================================
