--------------------------- MODULE RunPipelineProofs ---------------------------
(***************************************************************************)
(* What the database and the answer of a run are worth, for any number of  *)
(* checks, worker events and seconds, whatever fails on the way.           *)
(***************************************************************************)
EXTENDS RunPipeline, TLAPS

Rows == [run : RunStatuses \cup {"absent"}, work : WorkStatuses \cup {"absent"},
         agent : AgentStatuses \cup {"absent"},
         verification : {"absent", "passed", "failed"},
         evidence : 0 .. MaxChecks, diagnosis : BOOLEAN]

\* The statuses handleRun gives to its events.
Statuses == {"created", "ready", "spawning", "executing", "running", "started", "completed",
             "failed", "passed", "checked", "diagnosed"}

Events == [type : EventTypes, status : Statuses, lifecycle : (Lifecycle \ {"inactive"}) \cup {""},
           work : BOOLEAN, agent : BOOLEAN, verification : BOOLEAN]

Planning == {"verify", "verdict", "evidence"}
Terminating == {"state_final", "write_final", "run_final", "agent_stopped", "diagnosis"}
Over == {"returned", "crashed"}

\* A completed row exists only behind the verdict, where the worker and the
\* checks cannot change any more.
Earned ==
    db.run = "completed" =>
        /\ worker = "success" /\ AllPassed
        /\ pc \in {"evidence"} \cup Terminating \cup Over

\* Verification is entered with a successful worker and no verdict, and a
\* successful run gets past it without one only if there is nothing to check.
Planned ==
    /\ pc \in Planning => worker = "success" /\ verify = "none"
    /\ pc \in Terminating /\ Success /\ verify = "none" => checks = 0
    /\ verify # "none" => pc \in Terminating \cup Over

\* A passed verification has left its verdict and all its evidence.
Evidenced ==
    /\ pc = "evidence" => db.verification = (IF AllPassed THEN "passed" ELSE "failed")
    /\ verify = "passed" => AllPassed /\ db.verification = "passed" /\ db.evidence = checks
    /\ response = "success" /\ checks > 0 => verify = "passed"

Inv == TypeOK /\ Earned /\ Planned /\ Evidenced

-----------------------------------------------------------------------------
(* The projection *)

\* Evidence is counted up to the number of checks.
LEMMA EvidenceCount ==
  \A n \in 0 .. MaxChecks : n < MaxChecks => n + 1 \in 0 .. MaxChecks
  BY ConstantsAssumption

\* RecordEvent leaves rows that satisfy the CHECK constraints of the schema.
LEMMA RecordedType ==
  ASSUME NEW rows \in Rows, NEW ev \in Events,
         ev.type = "evidence_created" => rows.evidence < MaxChecks
  PROVE  Recorded(rows, ev) \in Rows
<1> USE DEF Rows, Events
<1>1. ensureRun(rows, ev) \in RunStatuses \cup {"absent"}
  BY DEF ensureRun, runStatus, runStatusOfType, RunStatuses, Lifecycle
<1>2. ensureWork(rows, ev) \in WorkStatuses \cup {"absent"}
  BY DEF ensureWork, workStatus, WorkStatuses
<1>3. ensureAgentSession(rows, ev) \in AgentStatuses \cup {"absent"}
  BY DEF ensureAgentSession, agentStatus, AgentStatuses
<1>4. upsertVerification(rows, ev) \in {"absent", "passed", "failed"}
  BY DEF upsertVerification
<1>5. (IF ev.type = "evidence_created" THEN rows.evidence + 1 ELSE rows.evidence) \in 0 .. MaxChecks
  BY EvidenceCount
<1>6. (rows.diagnosis \/ ev.type = "failure_diagnosed") \in BOOLEAN
  BY Zenon
<1> QED
  BY <1>1, <1>2, <1>3, <1>4, <1>5, <1>6 DEF Recorded, upsertEvidence, upsertFailureDiagnosis

\* A run becomes completed through its lifecycle or through a passed
\* verification, and through nothing else.
LEMMA RecordedEffect ==
  ASSUME NEW rows \in Rows, NEW ev \in Events
  PROVE  /\ Recorded(rows, ev).run = "completed" =>
                \/ rows.run = "completed"
                \/ ev.lifecycle = "finished"
                \/ ev.type = "verification_passed"
         /\ ev.type = "verification_passed" => Recorded(rows, ev).verification = "passed"
         /\ ev.type = "verification_failed" => Recorded(rows, ev).verification = "failed"
         /\ ev.type \notin {"verification_passed", "verification_failed"} =>
                Recorded(rows, ev).verification = rows.verification
         /\ ev.type # "evidence_created" => Recorded(rows, ev).evidence = rows.evidence
<1> USE DEF Rows, Events
<1>1. ensureRun(rows, ev) = "completed" =>
          \/ rows.run = "completed"
          \/ ev.lifecycle = "finished"
          \/ ev.type = "verification_passed"
  BY DEF ensureRun, runStatus, runStatusOfType, Lifecycle
<1>2. /\ ev.type = "verification_passed" => upsertVerification(rows, ev) = "passed"
      /\ ev.type = "verification_failed" => upsertVerification(rows, ev) = "failed"
      /\ ev.type \notin {"verification_passed", "verification_failed"} =>
             upsertVerification(rows, ev) = rows.verification
  BY DEF upsertVerification
<1> QED
  BY <1>1, <1>2 DEF Recorded, upsertEvidence, upsertFailureDiagnosis

-----------------------------------------------------------------------------
(* The steps *)

\* What an emit of ev does at the step `at', committed or not.
Effect(at, ev, next) ==
    /\ pc = at /\ pc' = next
    /\ db' \in {db, Recorded(db, ev)}
    /\ warnings' \in {warnings, warnings \cup {at}}
    /\ UNCHANGED <<life, others, elapsed, checks, passed, worker, response, ctxDone, verify>>

\* Events that say nothing about the verification, ...
PlainEvents ==
    {ev \in Events :
        ev.type \notin {"verification_passed", "verification_failed", "evidence_created"}}

\* ... and those that do not finish the run either.
EarlyEvents == {ev \in PlainEvents : ev.lifecycle # "finished"}

AllSteps == EventSteps \cup StateSteps \cup OtherSteps

\* An emit of any event but the verdict and the evidence: the rows stay rows,
\* the verification stays as it is, and only a "finished" event can complete
\* the run.
LEMMA EmitEffect ==
  ASSUME TypeOK, NEW ev \in PlainEvents, db' \in {db, Recorded(db, ev)}
  PROVE  /\ db' \in Rows
         /\ db'.run = "completed" => db.run = "completed" \/ ev.lifecycle = "finished"
         /\ db'.verification = db.verification
         /\ db'.evidence = db.evidence
<1>1. db \in Rows
  BY DEF TypeOK, Rows
<1> QED
  BY <1>1, RecordedType, RecordedEffect DEF PlainEvents

\* An emit before the verification or after a failed start keeps the invariant:
\* nothing is completed yet and nothing becomes so.
LEMMA EmitKeeps ==
  ASSUME Inv, faults' \in 0 .. MaxFaults, NEW at \in EventSteps \ ({"evidence"} \cup Terminating),
         NEW ev \in EarlyEvents, NEW next \in AllSteps \ {"verdict", "evidence"},
         Effect(at, ev, next), streamed' \in 0 .. MaxWorkerEvents,
         next = "verify" => worker = "success",
         next \in Terminating => worker # "success" \/ checks = 0
  PROVE  Inv'
<1>1. /\ db' \in Rows
      /\ db'.run = "completed" => db.run = "completed"
      /\ db'.verification = db.verification
      /\ db'.evidence = db.evidence
  BY EmitEffect DEF Inv, Effect, EarlyEvents
<1>2. /\ pc = at /\ pc' = next
      /\ warnings' = warnings \/ warnings' = warnings \cup {at}
      /\ UNCHANGED <<life, others, elapsed, checks, passed, worker, response, ctxDone, verify>>
  BY DEF Effect
<1>3. TypeOK'
  BY <1>1, <1>2 DEF Inv, TypeOK, Rows, AllSteps
<1>4. AllPassed' = AllPassed /\ Success' = Success
  BY <1>2 DEF AllPassed, Success
<1>5. pc \notin {"evidence"} \cup Terminating \cup Over
  BY <1>2 DEF EventSteps, Over
<1>6. db'.run # "completed" /\ verify = "none" /\ verify' = "none"
  BY <1>1, <1>2, <1>5 DEF Inv, Earned, Planned
<1>7. Planned'
  BY <1>2, <1>4, <1>6 DEF Planned, Success, Planning, Terminating
<1>8. Earned' /\ Evidenced'
  BY <1>1, <1>2, <1>4, <1>6 DEF Inv, Earned, Evidenced
<1> QED
  BY <1>3, <1>7, <1>8 DEF Inv

\* An emit of a terminal event: it may complete the run, but only one that has
\* earned it.
LEMMA TerminalEmitKeeps ==
  ASSUME Inv, faults' \in 0 .. MaxFaults, NEW at \in {"run_final", "agent_stopped"}, NEW ev \in PlainEvents,
         NEW next \in {"agent_stopped", "diagnosis"},
         Effect(at, ev, next), UNCHANGED streamed,
         ev.lifecycle = "finished" => Success
  PROVE  Inv'
<1>1. /\ db' \in Rows
      /\ db'.run = "completed" => db.run = "completed" \/ ev.lifecycle = "finished"
      /\ db'.verification = db.verification
      /\ db'.evidence = db.evidence
  BY EmitEffect DEF Inv, Effect
<1>2. /\ pc = at /\ pc' = next
      /\ warnings' = warnings \/ warnings' = warnings \cup {at}
      /\ UNCHANGED <<life, others, elapsed, checks, passed, worker, response, ctxDone, verify, streamed>>
  BY DEF Effect
<1>3. TypeOK'
  BY <1>1, <1>2 DEF Inv, TypeOK, Rows, EventSteps
<1>4. AllPassed' = AllPassed /\ Success' = Success
  BY <1>2 DEF AllPassed, Success
<1>5. pc \in Terminating /\ pc' \in Terminating
  BY <1>2 DEF Terminating
<1>6. Success => worker = "success" /\ AllPassed
  <2>1. verify = "none" /\ Success => checks = 0
    BY <1>5 DEF Inv, Planned
  <2>2. checks = 0 => AllPassed
    BY DEF AllPassed
  <2>3. verify = "passed" => AllPassed
    BY DEF Inv, Evidenced
  <2> QED
    BY <2>1, <2>2, <2>3 DEF Success, Inv, TypeOK
<1>7. Earned'
  BY <1>1, <1>2, <1>4, <1>5, <1>6 DEF Inv, Earned
<1>8. Planned'
  BY <1>2, <1>4, <1>5 DEF Inv, Planned, Planning, Terminating
<1>9. Evidenced'
  BY <1>1, <1>2, <1>4 DEF Inv, Evidenced
<1> QED
  BY <1>3, <1>7, <1>8, <1>9 DEF Inv

\* A step that touches neither the rows nor the checks, and stays on one side of
\* the verification.
LEMMA QuietKeeps ==
  ASSUME Inv, TypeOK', UNCHANGED <<db, checks, passed, verify>>,
         response' = "success" => response = "success",
         \/ pc' = pc /\ worker' = worker
         \/ pc' = "crashed" /\ worker' = worker
         \/ /\ pc \notin Planning \cup Terminating \cup Over
            /\ pc' \notin Planning \cup Terminating
         \/ /\ pc \in {"state_final", "write_final"} /\ pc' \in {"write_final", "run_final"}
            /\ worker' = worker
  PROVE  Inv'
<1>1. AllPassed' = AllPassed
  BY DEF AllPassed
<1>2. worker' = worker => Success' = Success
  BY DEF Success
<1>3. Earned'
  BY <1>1 DEF Inv, Earned, Planning, Terminating, Over
<1>4. Planned'
  BY <1>2 DEF Inv, Planned, Planning, Terminating, Over
<1>5. Evidenced'
  BY <1>1 DEF Inv, Evidenced, Planning, TypeOK, Terminating
<1> QED
  BY <1>3, <1>4, <1>5 DEF Inv

-----------------------------------------------------------------------------
(* preWorker and the bail-out *)

LEMMA PreWorkerKeeps == Inv /\ faults' \in 0 .. MaxFaults /\ PreWorker => Inv'
<1> SUFFICES ASSUME Inv, faults' \in 0 .. MaxFaults, PreWorker PROVE Inv'
  OBVIOUS
<1>0. streamed \in 0 .. MaxWorkerEvents
  BY DEF Inv, TypeOK
<1> USE DEF Planning, Terminating, Over
<1>1. CASE Invalid \/ Valid \/ Factory \/ Spawn
  <2>1. TypeOK'
    BY <1>1 DEF Invalid, Bail, Valid, Factory, Spawn, runVars, Inv, TypeOK, EventSteps,
                StateSteps, OtherSteps
  <2> QED
    BY <1>1, <2>1, QuietKeeps DEF Invalid, Bail, Valid, Factory, Spawn, runVars
<1>2. CASE StateRunning
  <2>1. TypeOK'
    <3>1. /\ pc' \in {"write_running", "executing"} /\ life' \in {life, "running"}
          /\ warnings' \in {warnings, warnings \cup {"state_running"}, warnings \cup {"write_running"}}
          /\ UNCHANGED <<db, others, ctxDone, elapsed, streamed, checks, passed, worker, verify, response>>
      BY <1>2 DEF StateRunning, ReadState, WriteState, runVars
    <3> QED
      BY <3>1 DEF Inv, TypeOK, EventSteps, StateSteps, OtherSteps, Lifecycle
  <2> QED
    BY <1>2, <2>1, QuietKeeps DEF StateRunning, ReadState, WriteState, runVars
<1>3. CASE \/ EmitRunCreated \/ EmitWorkCreated \/ EmitAgentSpawned \/ EmitExecuting
           \/ EmitWorkStarted \/ EmitAgentFailed \/ EmitFailWork \/ EmitFailRun \/ EmitFailAgent
  <2> DEFINE Before == EventSteps \ ({"evidence"} \cup Terminating)
             After == AllSteps \ (Planning \cup Terminating)
             Plain == \E at \in Before, ev \in EarlyEvents, next \in After : Effect(at, ev, next)
  <2>0. UNCHANGED streamed
    BY <1>3 DEF EmitRunCreated, EmitWorkCreated, EmitAgentSpawned, EmitExecuting, EmitWorkStarted,
                EmitAgentFailed, EmitFailWork, EmitFailRun, EmitFailAgent
  <2>1. ASSUME EmitRunCreated PROVE Plain
    <3>1. Event("run_created", "created", "", FALSE, FALSE) \in EarlyEvents
      BY DEF Event, Events, PlainEvents, EarlyEvents, EventTypes, Statuses, Lifecycle
    <3>2. Effect("run_created", Event("run_created", "created", "", FALSE, FALSE), "work_created")
      BY <2>1 DEF EmitRunCreated, Emit, Commits, Effect, runVars
    <3> QED
      BY <3>1, <3>2 DEF EventSteps, StateSteps, OtherSteps, AllSteps
  <2>2. ASSUME EmitWorkCreated PROVE Plain
    <3>1. Event("work_created", "ready", "", TRUE, FALSE) \in EarlyEvents
      BY DEF Event, Events, PlainEvents, EarlyEvents, EventTypes, Statuses, Lifecycle
    <3>2. Effect("work_created", Event("work_created", "ready", "", TRUE, FALSE), "agent_spawned")
      BY <2>2 DEF EmitWorkCreated, Emit, Commits, Effect, runVars
    <3> QED
      BY <3>1, <3>2 DEF EventSteps, StateSteps, OtherSteps, AllSteps
  <2>3. ASSUME EmitAgentSpawned PROVE Plain
    <3>1. Event("agent_spawned", "spawning", "", TRUE, TRUE) \in EarlyEvents
      BY DEF Event, Events, PlainEvents, EarlyEvents, EventTypes, Statuses, Lifecycle
    <3>2. Effect("agent_spawned", Event("agent_spawned", "spawning", "", TRUE, TRUE), "factory")
      BY <2>3 DEF EmitAgentSpawned, Emit, Commits, Effect, runVars
    <3> QED
      BY <3>1, <3>2 DEF EventSteps, StateSteps, OtherSteps, AllSteps
  <2>4. ASSUME EmitExecuting PROVE Plain
    <3>1. Event("run_status_changed", "executing", "running", FALSE, TRUE) \in EarlyEvents
      BY DEF Event, Events, PlainEvents, EarlyEvents, EventTypes, Statuses, Lifecycle
    <3>2. Effect("executing", Event("run_status_changed", "executing", "running", FALSE, TRUE), "work_started")
      BY <2>4 DEF EmitExecuting, Emit, Commits, Effect, runVars
    <3> QED
      BY <3>1, <3>2 DEF EventSteps, StateSteps, OtherSteps, AllSteps
  <2>5. ASSUME EmitWorkStarted PROVE Plain
    <3>1. Event("work_started", "running", "", TRUE, FALSE) \in EarlyEvents
      BY DEF Event, Events, PlainEvents, EarlyEvents, EventTypes, Statuses, Lifecycle
    <3>2. Effect("work_started", Event("work_started", "running", "", TRUE, FALSE), "spawn")
      BY <2>5 DEF EmitWorkStarted, Emit, Commits, Effect, runVars
    <3> QED
      BY <3>1, <3>2 DEF EventSteps, StateSteps, OtherSteps, AllSteps
  <2>6. ASSUME EmitAgentFailed PROVE Plain
    <3>1. Event("agent_failed", "failed", "", FALSE, TRUE) \in EarlyEvents
      BY DEF Event, Events, PlainEvents, EarlyEvents, EventTypes, Statuses, Lifecycle
    <3>2. Effect("agent_failed", Event("agent_failed", "failed", "", FALSE, TRUE), "fail_work")
      BY <2>6 DEF EmitAgentFailed, Emit, Commits, Effect, runVars
    <3> QED
      BY <3>1, <3>2 DEF EventSteps, StateSteps, OtherSteps, AllSteps
  <2>7. ASSUME EmitFailWork PROVE Plain
    <3>1. Event("work_failed", "failed", "", TRUE, FALSE) \in EarlyEvents
      BY DEF Event, Events, PlainEvents, EarlyEvents, EventTypes, Statuses, Lifecycle
    <3>2. Effect("fail_work", Event("work_failed", "failed", "", TRUE, FALSE), "fail_run")
      BY <2>7 DEF EmitFailWork, Emit, Commits, Effect, runVars
    <3> QED
      BY <3>1, <3>2 DEF EventSteps, StateSteps, OtherSteps, AllSteps
  <2>8. ASSUME EmitFailRun PROVE Plain
    <3>1. Event("run_status_changed", "failed", "failed", FALSE, TRUE) \in EarlyEvents
      BY DEF Event, Events, PlainEvents, EarlyEvents, EventTypes, Statuses, Lifecycle
    <3>2. Effect("fail_run", Event("run_status_changed", "failed", "failed", FALSE, TRUE), "fail_agent")
      BY <2>8 DEF EmitFailRun, Emit, Commits, Effect, runVars
    <3> QED
      BY <3>1, <3>2 DEF EventSteps, StateSteps, OtherSteps, AllSteps
  <2>9. ASSUME EmitFailAgent PROVE Plain
    <3>1. Event("agent_stopped", "failed", "failed", FALSE, TRUE) \in EarlyEvents
      BY DEF Event, Events, PlainEvents, EarlyEvents, EventTypes, Statuses, Lifecycle
    <3>2. Effect("fail_agent", Event("agent_stopped", "failed", "failed", FALSE, TRUE), "fail_diagnosis")
      BY <2>9 DEF EmitFailAgent, Emit, Commits, Effect, runVars
    <3> QED
      BY <3>1, <3>2 DEF EventSteps, StateSteps, OtherSteps, AllSteps
  <2>10. Plain
    BY <1>3, <2>1, <2>2, <2>3, <2>4, <2>5, <2>6, <2>7, <2>8, <2>9
  <2> QED
    BY <1>0, <2>0, <2>10, EmitKeeps
<1>7. CASE EmitFailDiagnosis
  <2> DEFINE ev == Event("failure_diagnosed", "diagnosed", "", TRUE, FALSE)
  <2>1. ev \in PlainEvents /\ ev.lifecycle = ""
    BY DEF Event, Events, PlainEvents, EventTypes, Statuses, Lifecycle
  <2>3. /\ pc = "fail_diagnosis" /\ pc' = "returned" /\ response' = "error"
        /\ db' \in {db, Recorded(db, ev)}
        /\ warnings' = warnings \/ warnings' = warnings \cup {"fail_diagnosis"}
        /\ UNCHANGED <<life, others, ctxDone, elapsed, streamed, checks, passed, worker, verify>>
    BY <1>7 DEF EmitFailDiagnosis, Bail, Commits
  <2> HIDE DEF ev
  <2>4. /\ db' \in Rows
        /\ db'.run = "completed" => db.run = "completed"
    BY <2>1, <2>3, EmitEffect DEF Inv
  <2>5. db'.run # "completed" /\ verify = "none"
    BY <2>3, <2>4 DEF Inv, Earned, Planned
  <2>6. TypeOK'
    BY <2>3, <2>4 DEF Inv, TypeOK, Rows, EventSteps, StateSteps, OtherSteps
  <2> QED
    BY <2>3, <2>5, <2>6 DEF Inv, Earned, Planned, Evidenced
<1> QED
  BY <1>1, <1>2, <1>3, <1>7 DEF PreWorker

-----------------------------------------------------------------------------
(* runWithWorker up to the verification *)

LEMMA WorkerKeeps ==
  Inv /\ faults' \in 0 .. MaxFaults /\ (Drain \/ StreamEnds \/ Wait \/ EmitWorkDone) => Inv'
<1> SUFFICES ASSUME Inv, faults' \in 0 .. MaxFaults, Drain \/ StreamEnds \/ Wait \/ EmitWorkDone PROVE Inv'
  OBVIOUS
<1> USE DEF Planning, Terminating, Over
<1>0. /\ streamed \in 0 .. MaxWorkerEvents /\ checks \in Nat
      /\ streamed < MaxWorkerEvents => streamed + 1 \in 0 .. MaxWorkerEvents
  BY ConstantsAssumption DEF Inv, TypeOK
<1>1. CASE Drain
  <2>1. PICK ev \in WorkerEvents : Emit("drain", ev, ReqAlive, "drain")
    BY <1>1 DEF Drain
  <2>2. ev \in EarlyEvents
    <3>1. /\ Event("tool_call_started", "started", "", TRUE, TRUE) \in EarlyEvents
          /\ Event("tool_call_completed", "completed", "", TRUE, TRUE) \in EarlyEvents
          /\ Event("agent_heartbeat", "running", "", TRUE, TRUE) \in EarlyEvents
      BY DEF Event, Events, PlainEvents, EarlyEvents, EventTypes, Statuses, Lifecycle
    <3> QED
      BY <2>1, <3>1 DEF WorkerEvents
  <2>4. Effect("drain", ev, "drain")
    BY <2>1 DEF Emit, Commits, Effect, runVars
  <2>3. streamed' \in 0 .. MaxWorkerEvents
    BY <1>0, <1>1 DEF Drain
  <2> QED
    BY <2>2, <2>3, <2>4, EmitKeeps DEF EventSteps, StateSteps, OtherSteps, AllSteps
<1>2. CASE StreamEnds \/ Wait
  <2>1. TypeOK'
    BY <1>2 DEF StreamEnds, Wait, runVars, Inv, TypeOK, EventSteps, StateSteps, OtherSteps
  <2> QED
    BY <1>2, <2>1, QuietKeeps DEF StreamEnds, Wait, runVars
<1>3. CASE EmitWorkDone
  <2>1. PICK ev \in EarlyEvents, next \in {"verify", "state_final"} :
            /\ Effect("work_done", ev, next)
            /\ next = "verify" => worker = "success"
            /\ next = "state_final" => worker # "success" \/ checks = 0
    <3>1. /\ Event("work_completed", "completed", "", TRUE, FALSE) \in EarlyEvents
          /\ Event("work_failed", "failed", "", TRUE, FALSE) \in EarlyEvents
      BY DEF Event, Events, PlainEvents, EarlyEvents, EventTypes, Statuses, Lifecycle
    <3>2. CASE worker = "success" /\ checks > 0
      <4>1. Effect("work_done", Event("work_completed", "completed", "", TRUE, FALSE), "verify")
        BY <1>3, <3>2 DEF EmitWorkDone, Emit, Commits, Effect, runVars
      <4> QED
        BY <3>1, <3>2, <4>1
    <3>3. CASE worker = "success" /\ ~(checks > 0)
      <4>1. Effect("work_done", Event("work_completed", "completed", "", TRUE, FALSE), "state_final")
        BY <1>3, <3>3 DEF EmitWorkDone, Emit, Commits, Effect, runVars
      <4>2. checks = 0
        BY <1>0, <3>3
      <4> QED
        BY <3>1, <3>3, <4>1, <4>2
    <3>4. CASE worker # "success"
      <4>1. Effect("work_done", Event("work_failed", "failed", "", TRUE, FALSE), "state_final")
        BY <1>3, <3>4 DEF EmitWorkDone, Emit, Commits, Effect, runVars
      <4> QED
        BY <3>1, <3>4, <4>1
    <3> QED
      BY <3>2, <3>3, <3>4
  <2>2. UNCHANGED streamed
    BY <1>3 DEF EmitWorkDone
  <2> QED
    BY <1>0, <2>1, <2>2, EmitKeeps DEF EventSteps, StateSteps, OtherSteps, AllSteps
<1> QED
  BY <1>1, <1>2, <1>3

-----------------------------------------------------------------------------
(* The verification *)

LEMMA PlanKeeps == Inv /\ faults' \in 0 .. MaxFaults /\ RunPlan => Inv'
<1> SUFFICES ASSUME Inv, faults' \in 0 .. MaxFaults, RunPlan PROVE Inv'
  OBVIOUS
<1> USE DEF Planning, Terminating, Over
<1>0. db \in Rows /\ db.evidence \in 0 .. MaxChecks /\ checks \in 0 .. MaxChecks
  BY DEF Inv, TypeOK, Rows
<1>1. ASSUME NEW i \in 1 .. checks, NEW seconds \in CheckSeconds, NEW ok \in BOOLEAN,
             NEW held \in HeldSeconds, RunCheck(i, seconds, ok, held)
      PROVE  Inv'
  <2>1. passed' \in [1 .. MaxChecks -> {"not_run", "yes", "no"}]
    BY <1>1 DEF RunCheck, Inv, TypeOK
  <2>2. elapsed' \in 0 .. TermBudget
    BY <1>1, ConstantsAssumption DEF RunCheck, Least, CheckLimit, Inv, TypeOK
  <2>3. /\ pc = "verify"
        /\ UNCHANGED <<pc, db, life, others, warnings, ctxDone, streamed, checks, worker, verify, response>>
    BY <1>1 DEF RunCheck
  <2>4. db.run # "completed" /\ verify = "none"
    BY <2>3 DEF Inv, Earned, Planned
  <2>5. TypeOK'
    BY <2>1, <2>2, <2>3 DEF Inv, TypeOK
  <2> QED
    BY <2>3, <2>4, <2>5 DEF Inv, Earned, Planned, Evidenced
<1>2. CASE ChecksDone
  <2>1. /\ pc = "verify" /\ pc' = "verdict"
        /\ UNCHANGED <<db, life, others, elapsed, checks, passed, worker, response, warnings, ctxDone,
                       streamed, verify>>
    BY <1>2 DEF ChecksDone, runVars
  <2>2. TypeOK'
    BY <2>1 DEF Inv, TypeOK, EventSteps, StateSteps, OtherSteps
  <2> QED
    BY <2>1, <2>2 DEF Inv, Earned, Planned, Evidenced
<1>3. ASSUME NEW at \in {"verdict", "evidence"}, pc = at, PlanError(at),
             UNCHANGED <<life, others, elapsed, checks, passed, worker, response, ctxDone, streamed>>
      PROVE  Inv'
  <2>1. TypeOK'
    BY <1>3 DEF PlanError, Inv, TypeOK, EventSteps, StateSteps, OtherSteps
  <2>2. AllPassed' = AllPassed /\ ~Success'
    BY <1>3 DEF AllPassed, Success, PlanError
  <2> QED
    BY <1>3, <2>1, <2>2 DEF PlanError, Inv, Earned, Planned, Evidenced
<1>4. CASE RecordVerdict
  <2>1. CASE PlanError("verdict")
    BY <1>3, <1>4, <2>1 DEF RecordVerdict, runVars
  <2>2. CASE pc' = "evidence"
    <3>1. PICK ev \in Events :
              /\ ev.type = (IF AllPassed THEN "verification_passed" ELSE "verification_failed")
              /\ ev.lifecycle = ""
              /\ db' = Recorded(db, ev)
              /\ UNCHANGED <<warnings, verify>>
      <4>1. /\ VerificationEvent("verification_passed", "passed") \in Events
            /\ VerificationEvent("verification_failed", "failed") \in Events
            /\ VerificationEvent("verification_passed", "passed").type = "verification_passed"
            /\ VerificationEvent("verification_failed", "failed").type = "verification_failed"
            /\ VerificationEvent("verification_passed", "passed").lifecycle = ""
            /\ VerificationEvent("verification_failed", "failed").lifecycle = ""
        BY DEF VerificationEvent, Event, Events, EventTypes, Statuses
      <4>2. CASE AllPassed
        <5>1. /\ db' = Recorded(db, VerificationEvent("verification_passed", "passed"))
              /\ UNCHANGED <<warnings, verify>>
          BY <1>4, <2>2, <4>2 DEF RecordVerdict, Commits, PlanError
        <5> QED
          BY <4>1, <4>2, <5>1
      <4>3. CASE ~AllPassed
        <5>1. /\ db' = Recorded(db, VerificationEvent("verification_failed", "failed"))
              /\ UNCHANGED <<warnings, verify>>
          BY <1>4, <2>2, <4>3 DEF RecordVerdict, Commits, PlanError
        <5> QED
          BY <4>1, <4>3, <5>1
      <4> QED
        BY <4>2, <4>3
    <3>2. /\ db' \in Rows
          /\ db'.run = "completed" => db.run = "completed" \/ AllPassed
          /\ db'.verification = (IF AllPassed THEN "passed" ELSE "failed")
      BY <1>0, <3>1, RecordedType, RecordedEffect
    <3>3. /\ pc = "verdict"
          /\ UNCHANGED <<life, others, elapsed, checks, passed, worker, response, ctxDone, streamed>>
      BY <1>4 DEF RecordVerdict, runVars
    <3>4. TypeOK'
      BY <2>2, <3>1, <3>2, <3>3 DEF Inv, TypeOK, Rows, EventSteps
    <3>5. AllPassed' = AllPassed
      BY <3>3 DEF AllPassed
    <3> QED
      BY <2>2, <3>1, <3>2, <3>3, <3>4, <3>5 DEF Inv, Earned, Planned, Evidenced
  <2> QED
    BY <1>4, <2>1, <2>2 DEF RecordVerdict
<1>5. CASE RecordEvidence
  <2>1. CASE PlanError("evidence")
    BY <1>3, <1>5, <2>1 DEF RecordEvidence, runVars
  <2>2. CASE ~PlanError("evidence")
    <3> DEFINE ev == VerificationEvent("evidence_created", "checked")
    <3>1. ev \in Events /\ ev.type = "evidence_created" /\ ev.lifecycle = ""
      BY DEF VerificationEvent, Event, Events, EventTypes, Statuses
    <3>2. /\ pc = "evidence" /\ db.evidence < checks
          /\ db' = Recorded(db, ev)
          /\ UNCHANGED <<pc, warnings, verify, life, others, elapsed, checks, passed, worker, response,
                         ctxDone, streamed>>
      BY <1>5, <2>2 DEF RecordEvidence, Commits, runVars
    <3> HIDE DEF ev
    <3>3. db.evidence < MaxChecks
      BY <1>0, <3>2, ConstantsAssumption
    <3>4. /\ db' \in Rows
          /\ db'.run = "completed" => db.run = "completed"
          /\ db'.verification = db.verification
      BY <1>0, <3>1, <3>2, <3>3, RecordedType, RecordedEffect
    <3>5. TypeOK'
      BY <3>2, <3>4 DEF Inv, TypeOK, Rows
    <3>6. AllPassed' = AllPassed
      BY <3>2 DEF AllPassed
    <3> QED
      BY <3>2, <3>4, <3>5, <3>6 DEF Inv, Earned, Planned, Evidenced
  <2> QED
    BY <2>1, <2>2
<1>6. CASE PlanDone
  <2>1. /\ pc = "evidence" /\ pc' = "state_final" /\ db.evidence = checks
        /\ verify' = (IF AllPassed THEN "passed" ELSE "failed")
        /\ UNCHANGED <<db, life, others, elapsed, checks, passed, worker, response, warnings, ctxDone,
                       streamed>>
    BY <1>6 DEF PlanDone, runVars
  <2>2. TypeOK'
    BY <2>1 DEF Inv, TypeOK, EventSteps, StateSteps, OtherSteps
  <2>3. AllPassed' = AllPassed
    BY <2>1 DEF AllPassed
  <2> QED
    BY <2>1, <2>2, <2>3 DEF Inv, Earned, Planned, Evidenced
<1> QED
  BY <1>1, <1>2, <1>4, <1>5, <1>6 DEF RunPlan

-----------------------------------------------------------------------------
(* The terminal events and the environment *)

LEMMA TerminalKeeps ==
  Inv /\ faults' \in 0 .. MaxFaults /\ (StateFinal \/ EmitRunFinal \/ EmitAgentStopped \/ Finish) => Inv'
<1> SUFFICES ASSUME Inv, faults' \in 0 .. MaxFaults, StateFinal \/ EmitRunFinal \/ EmitAgentStopped \/ Finish PROVE Inv'
  OBVIOUS
<1> USE DEF Planning, Terminating, Over
<1>1. CASE StateFinal
  <2>1. /\ pc \in {"state_final", "write_final"} /\ pc' \in {"write_final", "run_final"}
        /\ life' \in {life, FinalLifecycle}
        /\ warnings' \in {warnings, warnings \cup {"state_final"}, warnings \cup {"write_final"}}
        /\ UNCHANGED <<db, others, ctxDone, elapsed, streamed, checks, passed, worker, verify, response>>
    BY <1>1 DEF StateFinal, ReadState, WriteState, runVars
  <2>2. TypeOK'
    BY <2>1 DEF FinalLifecycle, Inv, TypeOK, EventSteps, StateSteps, OtherSteps, Lifecycle
  <2> QED
    BY <2>1, <2>2, QuietKeeps
<1>2. ASSUME NEW type \in {"run_status_changed", "agent_stopped"}
      PROVE  /\ Event(type, FinalStatus, FinalLifecycle, FALSE, TRUE) \in PlainEvents
             /\ Event(type, FinalStatus, FinalLifecycle, FALSE, TRUE).lifecycle = "finished" => Success
  BY DEF FinalStatus, FinalLifecycle, Event, Events, PlainEvents, EventTypes, Statuses, Lifecycle
<1>3. CASE EmitRunFinal
  <2> DEFINE ev == Event("run_status_changed", FinalStatus, FinalLifecycle, FALSE, TRUE)
  <2>1. Effect("run_final", ev, "agent_stopped") /\ UNCHANGED streamed
    BY <1>3 DEF EmitRunFinal, Emit, Commits, Effect, runVars
  <2>2. ev \in PlainEvents /\ (ev.lifecycle = "finished" => Success)
    BY <1>2
  <2> HIDE DEF ev
  <2> QED
    BY <2>1, <2>2, TerminalEmitKeeps
<1>4. CASE EmitAgentStopped
  <2> DEFINE ev == Event("agent_stopped", FinalStatus, FinalLifecycle, FALSE, TRUE)
  <2>1. Effect("agent_stopped", ev, "diagnosis") /\ UNCHANGED streamed
    BY <1>4 DEF EmitAgentStopped, Emit, Commits, Effect, runVars
  <2>2. ev \in PlainEvents /\ (ev.lifecycle = "finished" => Success)
    BY <1>2
  <2> HIDE DEF ev
  <2> QED
    BY <2>1, <2>2, TerminalEmitKeeps
<1>5. CASE Finish
  <2> DEFINE ev == Event("failure_diagnosed", "diagnosed", "", TRUE, FALSE)
  <2>1. ev \in PlainEvents /\ ev.lifecycle = ""
    BY DEF Event, Events, PlainEvents, EventTypes, Statuses, Lifecycle
  <2>2. /\ pc = "diagnosis" /\ pc' = "returned"
        /\ response' = (IF Success THEN "success" ELSE "failed")
        /\ db' \in {db, Recorded(db, ev)}
        /\ warnings' \in {warnings, warnings \cup {"diagnosis"}}
        /\ UNCHANGED <<life, others, ctxDone, elapsed, streamed, checks, passed, worker, verify>>
    BY <1>5 DEF Finish, Commits, buildRunResponse
  <2> HIDE DEF ev
  <2>3. /\ db' \in Rows
        /\ db'.run = "completed" => db.run = "completed"
        /\ db'.verification = db.verification /\ db'.evidence = db.evidence
    BY <2>1, <2>2, EmitEffect DEF Inv
  <2>4. TypeOK'
    BY <2>2, <2>3 DEF Inv, TypeOK, Rows, EventSteps, StateSteps, OtherSteps
  <2>5. AllPassed' = AllPassed
    BY <2>2 DEF AllPassed
  <2>6. Success /\ checks > 0 => verify = "passed"
    BY <2>2, ConstantsAssumption DEF Inv, TypeOK, Planned, Success
  <2> QED
    BY <2>2, <2>3, <2>4, <2>5, <2>6 DEF Inv, Earned, Planned, Evidenced
<1> QED
  BY <1>1, <1>3, <1>4, <1>5

LEMMA EnvironmentKeeps ==
  Inv /\ faults' \in 0 .. MaxFaults /\ (Cancel \/ OtherReads \/ OtherWrites \/ Crash \/ UNCHANGED vars) => Inv'
<1> SUFFICES ASSUME Inv, faults' \in 0 .. MaxFaults, Cancel \/ OtherReads \/ OtherWrites \/ Crash \/ UNCHANGED vars PROVE Inv'
  OBVIOUS
<1>1. CASE Cancel \/ Crash \/ UNCHANGED vars
  <2>1. TypeOK'
    BY <1>1 DEF Cancel, Crash, vars, runVars, Inv, TypeOK, OtherSteps
  <2> QED
    BY <1>1, <2>1, QuietKeeps DEF Cancel, Crash, vars, runVars
<1>2. CASE OtherReads \/ OtherWrites
  <2>1. others \in [pending : SUBSET OtherTargets, stale : BOOLEAN] /\ OtherTargets \subseteq Lifecycle
    BY ConstantsAssumption DEF Inv, TypeOK, Lifecycle
  <2>3. ASSUME OtherReads
        PROVE  life' \in Lifecycle /\ others' \in [pending : SUBSET OtherTargets, stale : BOOLEAN]
    BY <2>1, <2>3 DEF OtherReads, Inv, TypeOK
  <2>4. ASSUME OtherWrites
        PROVE  life' \in Lifecycle /\ others' \in [pending : SUBSET OtherTargets, stale : BOOLEAN]
    <3>1. PICK to \in others.pending :
              /\ life' = to
              /\ others' = [pending |-> others.pending \ {to},
                            stale |-> others.stale \/ ~ValidTransition(life, to)]
      BY <2>4 DEF OtherWrites
    <3>2. (others.stale \/ ~ValidTransition(life, to)) \in BOOLEAN
      BY Zenon
    <3>3. to \in OtherTargets /\ others.pending \ {to} \in SUBSET OtherTargets
      BY <2>1
    <3> QED BY <2>1, <3>1, <3>2, <3>3
  <2>2. TypeOK'
    BY <1>2, <2>3, <2>4 DEF OtherReads, OtherWrites, Inv, TypeOK
  <2> QED
    BY <1>2, <2>2, QuietKeeps DEF OtherReads, OtherWrites
<1> QED
  BY <1>1, <1>2

\* A step counts at most one failed write, and none beyond the bound.
LEMMA FaultsCounted ==
  ASSUME TypeOK, [Next]_vars PROVE faults' \in 0 .. MaxFaults
<1> DEFINE Counted == UNCHANGED faults \/ Fault
<1>1. ASSUME NEW at, NEW ev, NEW alive, NEW next, Emit(at, ev, alive, next) PROVE Counted
  BY <1>1 DEF Emit, Commits, Rejects
<1>2. PreWorker => Counted
  BY <1>1 DEF PreWorker, Invalid, Valid, EmitRunCreated, EmitWorkCreated, EmitAgentSpawned, Factory,
              StateRunning, ReadState, WriteState, EmitExecuting, EmitWorkStarted, Spawn, EmitAgentFailed,
              EmitFailWork, EmitFailRun, EmitFailAgent, EmitFailDiagnosis, Commits, Rejects
<1>3. RunPlan => Counted
  BY DEF RunPlan, RunCheck, ChecksDone, RecordVerdict, RecordEvidence, PlanDone, Commits, Rejects
<1>4. RunWithWorker => Counted
  BY <1>1, <1>3 DEF RunWithWorker, Drain, StreamEnds, Wait, EmitWorkDone, StateFinal, ReadState,
                    WriteState,
                    EmitRunFinal, EmitAgentStopped, Finish, Commits, Rejects
<1>5. Cancel \/ OtherReads \/ OtherWrites \/ Crash \/ UNCHANGED vars => Counted
  BY DEF Cancel, OtherReads, OtherWrites, Crash, vars
<1>6. Counted
  BY <1>2, <1>4, <1>5 DEF Next, Ended
<1> QED
  BY <1>6, ConstantsAssumption DEF Fault, TypeOK

LEMMA InvAlways == Spec => []Inv
<1>1. Init => Inv
  <2> SUFFICES ASSUME Init PROVE Inv
    OBVIOUS
  <2>1. db \in Rows
    BY ConstantsAssumption DEF Init, parseChecks, NoRows, Rows, RunStatuses, WorkStatuses, AgentStatuses
  <2>2. 0 \in 0 .. TermBudget /\ 0 \in 0 .. MaxWorkerEvents /\ 0 \in 0 .. MaxFaults
    BY ConstantsAssumption
  <2>3. TypeOK
    BY <2>1, <2>2 DEF Init, parseChecks, TypeOK, Rows, Lifecycle, OtherSteps
  <2>4. Earned /\ Planned /\ Evidenced
    BY DEF Init, parseChecks, Earned, Planned, Evidenced, NoRows, Planning, Terminating
  <2> QED
    BY <2>3, <2>4 DEF Inv
<1>2. Inv /\ [Next]_vars => Inv'
  BY FaultsCounted, PreWorkerKeeps, WorkerKeeps, PlanKeeps, TerminalKeeps, EnvironmentKeeps
     DEF Inv, Next, RunWithWorker, Ended
<1> QED
  BY <1>1, <1>2, PTL DEF Spec

-----------------------------------------------------------------------------

\* Every value the pipeline writes satisfies the schema's CHECK constraints, the
\* evidence never outnumbers the checks, and the checks never use more than the
\* time of termCtx (schema.go, verify.go:172-221, phases.go:174).
THEOREM RunTypeCorrect == Spec => []TypeOK
  BY InvAlways, PTL DEF Inv

\* For every number of checks and every pattern of failed writes, cancelled
\* contexts and crashes, a run is completed in the database only after its worker
\* succeeded and all its checks passed (phases.go:195-257, storage.go:465-494).
THEOREM CompletedIsAlwaysEarned == Spec => []CompletedIsEarned
<1>1. Inv => CompletedIsEarned
  BY DEF Inv, Earned, CompletedIsEarned, AllPassed
<1> QED
  BY <1>1, InvAlways, PTL

\* A success answer to a run with checks has its verdict and one evidence row per
\* check in the database (phases.go:208-232, verify.go:120-163).
THEOREM SuccessIsAlwaysEvidenced == Spec => []SuccessIsEvidenced
<1>1. Inv => SuccessIsEvidenced
  BY DEF Inv, Evidenced, SuccessIsEvidenced
<1> QED
  BY <1>1, InvAlways, PTL

-----------------------------------------------------------------------------
(* A run without a warning: every write of it has reached the database, so the *)
(* rows are known step by step.                                                *)

\* The steps at which nothing is said of the rows yet.
Early == {"run_created", "work_created", "agent_spawned", "factory", "state_running", "write_running",
          "executing", "work_started", "spawn", "drain", "wait", "work_done", "agent_failed", "fail_work", "crashed"}

VerdictWork == IF AllPassed THEN "verified" ELSE "failed"

FinalWork ==
    IF Success THEN (IF verify = "passed" THEN "verified" ELSE "completed") ELSE "failed"

CleanFailure ==
    /\ pc \in {"fail_run", "fail_agent", "fail_diagnosis"} => db.work = "failed"
    /\ pc \in {"fail_agent", "fail_diagnosis"} => db.run = "failed"
    /\ pc = "fail_diagnosis" => db.agent = "stopped"

CleanEnd ==
    /\ pc \in {"verify", "verdict"} => db.work = "completed"
    /\ pc = "evidence" => db.work = VerdictWork
    /\ pc \in Terminating => db.work = FinalWork
    /\ pc \in Terminating \ {"state_final", "write_final"} /\ ~others.stale => life = FinalLifecycle
    /\ pc \in {"agent_stopped", "diagnosis"} => db.run = FinalStatus
    /\ pc = "diagnosis" => db.agent = "stopped"

\* A diagnosis is the last thing recorded, and there are checks wherever they are
\* spoken of.
Background ==
    /\ pc = "validate" => db = NoRows
    /\ pc \notin Over => ~db.diagnosis
    /\ pc \in Planning \/ verify # "none" => checks > 0

\* WarningFreeRunAgrees without its words on "finished".
RowsAgree ==
    pc = "returned" /\ warnings = {} /\ db # NoRows =>
        /\ db.run = (IF response = "success" THEN "completed" ELSE "failed")
        /\ db.agent = "stopped"
        /\ db.diagnosis <=> response # "success"
        /\ response = "success" => db.work = (IF checks > 0 THEN "verified" ELSE "completed")
        /\ response # "success" => db.work = "failed"
        /\ Committed /\ ~others.stale => life = (IF response = "success" THEN "finished" ELSE "failed")

Agreeing ==
    Background /\ (warnings = {} => CleanFailure /\ CleanEnd) /\ RowsAgree

\* What the events of a run's end leave in the rows.
LEMMA ProjectedWork ==
  ASSUME NEW rows \in Rows
  PROVE  /\ LET e == Event("work_failed", "failed", "", TRUE, FALSE)
            IN  Recorded(rows, e).work = "failed" /\ (Recorded(rows, e).diagnosis <=> rows.diagnosis)
         /\ LET e == Event("work_completed", "completed", "", TRUE, FALSE)
            IN  Recorded(rows, e).work = "completed" /\ (Recorded(rows, e).diagnosis <=> rows.diagnosis)
  BY DEF Event, Recorded, ensureWork, workStatus, upsertFailureDiagnosis

LEMMA ProjectedEnd ==
  ASSUME NEW rows \in Rows, NEW e, e.type \in {"run_status_changed", "agent_stopped"},
         e.lifecycle \in {"finished", "failed"}, ~e.work, e.agent
  PROVE  /\ Recorded(rows, e).work = rows.work
         /\ Recorded(rows, e).diagnosis <=> rows.diagnosis
         /\ Recorded(rows, e).run = (IF e.lifecycle = "finished" THEN "completed" ELSE "failed")
         /\ e.type = "agent_stopped" => Recorded(rows, e).agent = "stopped"
<1>1. runStatus(e) = (IF e.lifecycle = "finished" THEN "completed" ELSE "failed")
  BY DEF runStatus, runStatusOfType
<1>2. ensureRun(rows, e) = runStatus(e)
  BY <1>1 DEF ensureRun
<1>3. e.type = "agent_stopped" => ensureAgentSession(rows, e) = "stopped"
  BY DEF ensureAgentSession, agentStatus
<1>4. ensureWork(rows, e) = rows.work
  BY DEF ensureWork
<1>5. upsertFailureDiagnosis(rows, e) <=> rows.diagnosis
  BY DEF upsertFailureDiagnosis
<1> QED BY <1>1, <1>2, <1>3, <1>4, <1>5 DEF Recorded

\* What the events of a verification and a diagnosis leave in the rows.
LEMMA ProjectedVerdict ==
  ASSUME NEW rows \in Rows
  PROVE  /\ LET e == VerificationEvent("verification_passed", "passed")
            IN  Recorded(rows, e).work = "verified" /\ (Recorded(rows, e).diagnosis <=> rows.diagnosis)
         /\ LET e == VerificationEvent("verification_failed", "failed")
            IN  Recorded(rows, e).work = "failed" /\ (Recorded(rows, e).diagnosis <=> rows.diagnosis)
         /\ LET e == VerificationEvent("evidence_created", "checked")
            IN  Recorded(rows, e).work = rows.work /\ (Recorded(rows, e).diagnosis <=> rows.diagnosis)
         /\ LET e == Event("failure_diagnosed", "diagnosed", "", TRUE, FALSE)
            IN  /\ Recorded(rows, e).work = rows.work /\ Recorded(rows, e).agent = rows.agent
                /\ Recorded(rows, e).run = (IF rows.run = "absent" THEN "scoped" ELSE rows.run)
                /\ Recorded(rows, e).diagnosis
  BY DEF VerificationEvent, Event, Recorded, ensureRun, runStatus, runStatusOfType, ensureWork, workStatus,
         ensureAgentSession, agentStatus, upsertFailureDiagnosis

\* An emit that leaves no warning has recorded its event.
LEMMA CleanEmit ==
  ASSUME NEW at, NEW ev, NEW alive, NEW next, Emit(at, ev, alive, next)
  PROVE  /\ pc = at /\ pc' = next
         /\ UNCHANGED <<life, others, elapsed, checks, passed, worker, response, ctxDone, verify>>
         /\ db' \in {db, Recorded(db, ev)}
         /\ warnings' = {} => warnings = {} /\ db' = Recorded(db, ev)
  BY DEF Emit, Commits, runVars

\* A step to a place where nothing is said of the rows.
LEMMA EarlyAgrees ==
  ASSUME Inv, Agreeing, pc \notin Over, pc' \in Early, UNCHANGED <<checks, verify>>,
         db'.diagnosis <=> db.diagnosis
  PROVE  Agreeing'
<1>1. /\ pc' \notin Planning \cup Terminating \cup {"validate", "returned"}
      /\ pc' \notin {"fail_run", "fail_agent", "fail_diagnosis"}
  BY DEF Early, Planning, Terminating
<1>2. Background'
  BY <1>1 DEF Agreeing, Background
<1>3. CleanFailure' /\ CleanEnd' /\ RowsAgree'
  BY <1>1 DEF CleanFailure, CleanEnd, RowsAgree, Planning, Terminating
<1> QED BY <1>2, <1>3 DEF Agreeing

\* An emit before the end of the run.
LEMMA EarlyEmitAgrees ==
  ASSUME Inv, Agreeing, NEW at \in EventSteps, NEW ev, ev.type # "failure_diagnosed", NEW alive,
         NEW next \in Early, Emit(at, ev, alive, next)
  PROVE  Agreeing'
<1>1. Recorded(db, ev).diagnosis <=> db.diagnosis
  BY DEF Recorded, upsertFailureDiagnosis
<1>2. pc \notin Over
  BY CleanEmit DEF EventSteps, Over
<1> QED BY <1>1, <1>2, CleanEmit, EarlyAgrees

\* preWorker up to a bail-out.
LEMMA PreWorkerAgrees ==
  ASSUME Inv, Agreeing,
         \/ Valid \/ EmitRunCreated \/ EmitWorkCreated \/ EmitAgentSpawned \/ Factory
         \/ StateRunning \/ EmitExecuting \/ EmitWorkStarted \/ Spawn \/ EmitAgentFailed
         \/ Drain \/ StreamEnds \/ Wait
  PROVE  Agreeing'
<1>1. CASE Valid \/ Factory \/ StateRunning \/ Spawn \/ StreamEnds \/ Wait
  <2>1. /\ pc \notin Over /\ pc' \in Early /\ UNCHANGED <<checks, verify, db>>
    BY <1>1 DEF Valid, Factory, StateRunning, ReadState, WriteState, Spawn, StreamEnds, Wait, Over, Early, runVars
  <2> QED BY <2>1, EarlyAgrees
<1>2. ASSUME NEW at \in EventSteps, NEW type, type # "failure_diagnosed", NEW status, NEW lifecycle,
             NEW work, NEW agent, NEW next \in Early,
             Emit(at, Event(type, status, lifecycle, work, agent), ReqAlive, next)
      PROVE  Agreeing'
  <2>1. Event(type, status, lifecycle, work, agent).type # "failure_diagnosed"
    BY <1>2 DEF Event
  <2> QED BY <1>2, <2>1, EarlyEmitAgrees
<1>3. CASE EmitRunCreated \/ EmitWorkCreated \/ EmitAgentSpawned
  BY <1>2, <1>3 DEF EmitRunCreated, EmitWorkCreated, EmitAgentSpawned, EventSteps, Early
<1>4. CASE EmitExecuting \/ EmitWorkStarted \/ EmitAgentFailed
  BY <1>2, <1>4 DEF EmitExecuting, EmitWorkStarted, EmitAgentFailed, EventSteps, Early
<1>5. CASE Drain
  BY <1>2, <1>5 DEF Drain, WorkerEvents, EventSteps, Early
<1> QED BY <1>1, <1>3, <1>4, <1>5

\* The steps of the bail-out, each of which adds its row.
LEMMA FailureAgrees ==
  ASSUME Inv, Agreeing, EmitFailWork \/ EmitFailRun \/ EmitFailAgent \/ EmitFailDiagnosis
  PROVE  Agreeing'
<1>0. db \in Rows
  BY DEF Inv, TypeOK, Rows
<1>1. CASE EmitFailWork
  <2> DEFINE ev == Event("work_failed", "failed", "", TRUE, FALSE)
  <2>1. /\ pc = "fail_work" /\ pc' = "fail_run" /\ UNCHANGED <<checks, verify>>
        /\ db' \in {db, Recorded(db, ev)} /\ (warnings' = {} => db' = Recorded(db, ev))
    BY <1>1, CleanEmit DEF EmitFailWork
  <2>2. Recorded(db, ev).work = "failed" /\ (Recorded(db, ev).diagnosis <=> db.diagnosis)
    BY <1>0, ProjectedWork
  <2> HIDE DEF ev
  <2>3. Background' /\ RowsAgree'
    BY <2>1, <2>2 DEF Agreeing, Background, Planning, Over, RowsAgree
  <2>4. warnings' = {} => CleanFailure' /\ CleanEnd'
    BY <2>1, <2>2 DEF CleanFailure, CleanEnd, Terminating
  <2> QED BY <2>3, <2>4 DEF Agreeing
<1>2. CASE EmitFailRun
  <2> DEFINE ev == Event("run_status_changed", "failed", "failed", FALSE, TRUE)
  <2>1. /\ pc = "fail_run" /\ pc' = "fail_agent" /\ UNCHANGED <<checks, verify>>
        /\ db' \in {db, Recorded(db, ev)}
        /\ warnings' = {} => warnings = {} /\ db' = Recorded(db, ev)
    BY <1>2, CleanEmit DEF EmitFailRun
  <2>2. /\ Recorded(db, ev).work = db.work /\ Recorded(db, ev).run = "failed"
        /\ Recorded(db, ev).diagnosis <=> db.diagnosis
    <3>1. /\ ev.type = "run_status_changed" /\ ev.lifecycle = "failed"
          /\ ~ev.work /\ ev.agent
      BY DEF Event
    <3> HIDE DEF ev
    <3> QED BY <1>0, <3>1, ProjectedEnd
  <2> HIDE DEF ev
  <2>3. Background' /\ RowsAgree'
    BY <2>1, <2>2 DEF Agreeing, Background, Planning, Over, RowsAgree
  <2>4. warnings' = {} => CleanFailure' /\ CleanEnd'
    BY <2>1, <2>2 DEF Agreeing, CleanFailure, CleanEnd, Terminating
  <2> QED BY <2>3, <2>4 DEF Agreeing
<1>3. CASE EmitFailAgent
  <2> DEFINE ev == Event("agent_stopped", "failed", "failed", FALSE, TRUE)
  <2>1. /\ pc = "fail_agent" /\ pc' = "fail_diagnosis" /\ UNCHANGED <<checks, verify>>
        /\ db' \in {db, Recorded(db, ev)}
        /\ warnings' = {} => warnings = {} /\ db' = Recorded(db, ev)
    BY <1>3, CleanEmit DEF EmitFailAgent
  <2>2. /\ Recorded(db, ev).work = db.work /\ Recorded(db, ev).run = "failed"
        /\ Recorded(db, ev).agent = "stopped" /\ (Recorded(db, ev).diagnosis <=> db.diagnosis)
    <3>1. /\ ev.type = "agent_stopped" /\ ev.lifecycle = "failed"
          /\ ~ev.work /\ ev.agent
      BY DEF Event
    <3> HIDE DEF ev
    <3> QED BY <1>0, <3>1, ProjectedEnd
  <2> HIDE DEF ev
  <2>3. Background' /\ RowsAgree'
    BY <2>1, <2>2 DEF Agreeing, Background, Planning, Over, RowsAgree
  <2>4. warnings' = {} => CleanFailure' /\ CleanEnd'
    BY <2>1, <2>2 DEF Agreeing, CleanFailure, CleanEnd, Terminating
  <2> QED BY <2>3, <2>4 DEF Agreeing
<1>4. CASE EmitFailDiagnosis
  <2> DEFINE ev == Event("failure_diagnosed", "diagnosed", "", TRUE, FALSE)
  <2>1. /\ pc = "fail_diagnosis" /\ pc' = "returned" /\ response' = "error" /\ UNCHANGED <<checks, verify>>
        /\ warnings' = {} => warnings = {} /\ db' = Recorded(db, ev)
    BY <1>4 DEF EmitFailDiagnosis, Bail, Commits
  <2>2. /\ Recorded(db, ev).work = db.work /\ Recorded(db, ev).agent = db.agent
        /\ Recorded(db, ev).run = (IF db.run = "absent" THEN "scoped" ELSE db.run)
        /\ Recorded(db, ev).diagnosis
    BY <1>0, ProjectedVerdict
  <2> HIDE DEF ev
  <2>3. Background' /\ CleanFailure' /\ CleanEnd'
    BY <2>1 DEF Agreeing, Background, Planning, Over, CleanFailure, CleanEnd, Terminating
  <2>4. warnings = {} => db.work = "failed" /\ db.run = "failed" /\ db.agent = "stopped"
    BY <2>1 DEF Agreeing, CleanFailure
  <2>5. RowsAgree'
    BY <2>1, <2>2, <2>4 DEF RowsAgree, Committed
  <2> QED BY <2>3, <2>5 DEF Agreeing
<1> QED BY <1>1, <1>2, <1>3, <1>4

\* The end of the worker and the verification; what the work row says is the
\* worker's result, and then the verdict.
LEMMA PlanAgrees ==
  ASSUME Inv, Agreeing, EmitWorkDone \/ RunPlan
  PROVE  Agreeing'
<1>0. db \in Rows /\ checks \in Nat /\ verify \in {"none", "passed", "failed"}
  BY ConstantsAssumption DEF Inv, TypeOK, Rows
<1>1. CASE EmitWorkDone /\ worker = "success"
  <2> DEFINE ev == Event("work_completed", "completed", "", TRUE, FALSE)
  <2>1. /\ pc = "work_done" /\ pc' = (IF checks > 0 THEN "verify" ELSE "state_final")
        /\ UNCHANGED <<checks, verify, worker>>
        /\ db' \in {db, Recorded(db, ev)} /\ (warnings' = {} => db' = Recorded(db, ev))
    <3> DEFINE next == IF checks > 0 THEN "verify" ELSE "state_final"
    <3>1. Emit("work_done", ev, TermAlive, next)
      BY <1>1 DEF EmitWorkDone
    <3> HIDE DEF ev, next
    <3>2. /\ pc = "work_done" /\ pc' = next /\ UNCHANGED <<checks, verify, worker>>
          /\ db' \in {db, Recorded(db, ev)} /\ (warnings' = {} => db' = Recorded(db, ev))
      BY <3>1, CleanEmit
    <3> QED BY <3>2 DEF next
  <2>2. Recorded(db, ev).work = "completed" /\ (Recorded(db, ev).diagnosis <=> db.diagnosis)
    BY <1>0, ProjectedWork
  <2> HIDE DEF ev
  <2>3. verify = "none"
    BY <2>1 DEF Inv, Planned, Terminating, Over
  <2>4. Background' /\ RowsAgree'
    BY <2>1, <2>2, <2>3 DEF Agreeing, Background, Planning, Over, RowsAgree
  <2>5. warnings' = {} => CleanFailure' /\ CleanEnd'
    BY <1>1, <2>1, <2>2, <2>3 DEF CleanFailure, CleanEnd, Terminating, FinalWork, Success
  <2> QED BY <2>4, <2>5 DEF Agreeing
<1>2. CASE EmitWorkDone /\ worker # "success"
  <2> DEFINE ev == Event("work_failed", "failed", "", TRUE, FALSE)
  <2>1. /\ pc = "work_done" /\ pc' = "state_final" /\ UNCHANGED <<checks, verify, worker>>
        /\ db' \in {db, Recorded(db, ev)} /\ (warnings' = {} => db' = Recorded(db, ev))
    BY <1>2, CleanEmit DEF EmitWorkDone
  <2>2. Recorded(db, ev).work = "failed" /\ (Recorded(db, ev).diagnosis <=> db.diagnosis)
    BY <1>0, ProjectedWork
  <2> HIDE DEF ev
  <2>3. verify = "none"
    BY <2>1 DEF Inv, Planned, Terminating, Over
  <2>4. Background' /\ RowsAgree'
    BY <2>1, <2>2, <2>3 DEF Agreeing, Background, Planning, Over, RowsAgree
  <2>5. warnings' = {} => CleanFailure' /\ CleanEnd'
    BY <1>2, <2>1, <2>2 DEF CleanFailure, CleanEnd, Terminating, FinalWork, Success
  <2> QED BY <2>4, <2>5 DEF Agreeing
<1>3. CASE ChecksDone \/ \E i \in 1 .. checks, seconds \in CheckSeconds, ok \in BOOLEAN, held \in HeldSeconds :
                           RunCheck(i, seconds, ok, held)
  <2>1. pc = "verify" /\ pc' \in {"verify", "verdict"} /\ UNCHANGED <<db, checks, verify, warnings>>
    BY <1>3 DEF ChecksDone, RunCheck, runVars
  <2>2. Background' /\ RowsAgree'
    BY <2>1 DEF Agreeing, Background, Planning, Over, RowsAgree
  <2>3. warnings' = {} => CleanFailure' /\ CleanEnd'
    BY <2>1 DEF Agreeing, CleanFailure, CleanEnd, Terminating
  <2> QED BY <2>2, <2>3 DEF Agreeing
<1>4. ASSUME NEW at \in Planning, PlanError(at), pc \in Planning, checks' = checks PROVE Agreeing'
  <2>1. warnings' # {} /\ pc' = "state_final" /\ db' = db
    BY <1>4 DEF PlanError
  <2>2. Background' /\ RowsAgree'
    BY <1>4, <2>1 DEF Agreeing, Background, Planning, Over, RowsAgree
  <2> QED BY <2>1, <2>2 DEF Agreeing
<1>5. CASE RecordVerdict
  <2> DEFINE ev == IF AllPassed THEN VerificationEvent("verification_passed", "passed")
                                ELSE VerificationEvent("verification_failed", "failed")
  <2>1. CASE PlanError("verdict")
    BY <1>4, <1>5, <2>1 DEF RecordVerdict, Planning, runVars
  <2>2. CASE Commits(ev, TermAlive) /\ pc' = "evidence" /\ UNCHANGED <<warnings, verify>>
    <3>1. pc = "verdict" /\ db' = Recorded(db, ev) /\ UNCHANGED <<checks, passed>> /\ AllPassed' = AllPassed
      BY <1>5, <2>2 DEF RecordVerdict, Commits, runVars, AllPassed
    <3>2. Recorded(db, ev).work = VerdictWork /\ (Recorded(db, ev).diagnosis <=> db.diagnosis)
      BY <1>0, ProjectedVerdict DEF VerdictWork
    <3> HIDE DEF ev
    <3>3. Background' /\ RowsAgree'
      BY <2>2, <3>1, <3>2 DEF Agreeing, Background, Planning, Over, RowsAgree
    <3>4. CleanFailure' /\ CleanEnd'
      BY <2>2, <3>1, <3>2 DEF CleanFailure, CleanEnd, Terminating, VerdictWork
    <3> QED BY <3>3, <3>4 DEF Agreeing
  <2> QED BY <1>5, <2>1, <2>2 DEF RecordVerdict
<1>6. CASE RecordEvidence
  <2> DEFINE ev == VerificationEvent("evidence_created", "checked")
  <2>1. CASE PlanError("evidence")
    BY <1>4, <1>6, <2>1 DEF RecordEvidence, Planning, runVars
  <2>2. CASE Commits(ev, TermAlive) /\ UNCHANGED <<pc, warnings, verify>>
    <3>1. pc = "evidence" /\ db' = Recorded(db, ev) /\ UNCHANGED <<checks, passed>> /\ AllPassed' = AllPassed
      BY <1>6, <2>2 DEF RecordEvidence, Commits, runVars, AllPassed
    <3>2. Recorded(db, ev).work = db.work /\ (Recorded(db, ev).diagnosis <=> db.diagnosis)
      BY <1>0, ProjectedVerdict
    <3> HIDE DEF ev
    <3>3. Background' /\ RowsAgree'
      BY <2>2, <3>1, <3>2 DEF Agreeing, Background, Planning, Over, RowsAgree
    <3>4. warnings' = {} => CleanFailure' /\ CleanEnd'
      BY <2>2, <3>1, <3>2 DEF Agreeing, CleanFailure, CleanEnd, Terminating, VerdictWork
    <3> QED BY <3>3, <3>4 DEF Agreeing
  <2> QED BY <1>6, <2>1, <2>2 DEF RecordEvidence
<1>7. CASE PlanDone
  <2>1. /\ pc = "evidence" /\ pc' = "state_final" /\ UNCHANGED <<db, checks, warnings, worker>>
        /\ verify' = (IF AllPassed THEN "passed" ELSE "failed")
    BY <1>7 DEF PlanDone, runVars
  <2>2. worker = "success" /\ checks > 0
    BY <2>1 DEF Inv, Planned, Agreeing, Background, Planning
  <2>3. FinalWork' = VerdictWork
    BY <2>1, <2>2 DEF FinalWork, Success, VerdictWork
  <2>4. Background' /\ RowsAgree'
    BY <2>1, <2>2 DEF Agreeing, Background, Planning, Over, RowsAgree
  <2>5. warnings' = {} => CleanFailure' /\ CleanEnd'
    BY <2>1, <2>3 DEF Agreeing, CleanFailure, CleanEnd, Terminating
  <2> QED BY <2>4, <2>5 DEF Agreeing
<1> QED BY <1>1, <1>2, <1>3, <1>5, <1>6, <1>7 DEF RunPlan

\* The terminal events.
LEMMA TerminalAgrees ==
  ASSUME Inv, Agreeing, StateFinal \/ EmitRunFinal \/ EmitAgentStopped \/ Finish
  PROVE  Agreeing'
<1>0. db \in Rows /\ checks \in Nat /\ FinalLifecycle \in {"finished", "failed"}
  BY ConstantsAssumption DEF Inv, TypeOK, Rows, FinalLifecycle
<1>1. ASSUME UNCHANGED <<worker, verify>>
      PROVE  /\ Success' = Success /\ FinalWork' = FinalWork
             /\ FinalLifecycle' = FinalLifecycle /\ FinalStatus' = FinalStatus
  BY <1>1 DEF Success, FinalWork, FinalLifecycle, FinalStatus
<1>2. FinalStatus = (IF FinalLifecycle = "finished" THEN "completed" ELSE "failed")
  BY DEF FinalStatus, FinalLifecycle
<1>3. CASE StateFinal
  <2>1. /\ pc \in {"state_final", "write_final"} /\ pc' \in {"write_final", "run_final"}
        /\ UNCHANGED <<db, others, checks, verify, worker>>
        /\ warnings' = {} => warnings = {} /\ (pc' = "run_final" => life' = FinalLifecycle)
    BY <1>3 DEF StateFinal, ReadState, WriteState, runVars
  <2>2. Background' /\ RowsAgree'
    BY <2>1 DEF Agreeing, Background, Planning, Over, RowsAgree
  <2>3. warnings' = {} => CleanFailure' /\ CleanEnd'
    BY <1>1, <2>1 DEF Agreeing, CleanFailure, CleanEnd, Terminating
  <2> QED BY <2>2, <2>3 DEF Agreeing
<1>4. CASE EmitRunFinal
  <2> DEFINE ev == Event("run_status_changed", FinalStatus, FinalLifecycle, FALSE, TRUE)
  <2>1. /\ pc = "run_final" /\ pc' = "agent_stopped" /\ UNCHANGED <<life, others, checks, verify, worker>>
        /\ db' \in {db, Recorded(db, ev)}
        /\ warnings' = {} => warnings = {} /\ db' = Recorded(db, ev)
    BY <1>4, CleanEmit DEF EmitRunFinal
  <2>2. /\ Recorded(db, ev).work = db.work /\ Recorded(db, ev).run = FinalStatus
        /\ Recorded(db, ev).diagnosis <=> db.diagnosis
    <3>1. /\ ev.type = "run_status_changed" /\ ev.lifecycle = FinalLifecycle
          /\ ~ev.work /\ ev.agent
      BY DEF Event
    <3> HIDE DEF ev
    <3> QED BY <1>0, <1>2, <3>1, ProjectedEnd
  <2> HIDE DEF ev
  <2>3. Background' /\ RowsAgree'
    BY <2>1, <2>2 DEF Agreeing, Background, Planning, Over, RowsAgree
  <2>4. warnings' = {} => CleanFailure' /\ CleanEnd'
    BY <1>1, <2>1, <2>2 DEF Agreeing, CleanFailure, CleanEnd, Terminating
  <2> QED BY <2>3, <2>4 DEF Agreeing
<1>5. CASE EmitAgentStopped
  <2> DEFINE ev == Event("agent_stopped", FinalStatus, FinalLifecycle, FALSE, TRUE)
  <2>1. /\ pc = "agent_stopped" /\ pc' = "diagnosis" /\ UNCHANGED <<life, others, checks, verify, worker>>
        /\ db' \in {db, Recorded(db, ev)}
        /\ warnings' = {} => warnings = {} /\ db' = Recorded(db, ev)
    BY <1>5, CleanEmit DEF EmitAgentStopped
  <2>2. /\ Recorded(db, ev).work = db.work /\ Recorded(db, ev).run = FinalStatus
        /\ Recorded(db, ev).agent = "stopped" /\ (Recorded(db, ev).diagnosis <=> db.diagnosis)
    <3>1. /\ ev.type = "agent_stopped" /\ ev.lifecycle = FinalLifecycle
          /\ ~ev.work /\ ev.agent
      BY DEF Event
    <3> HIDE DEF ev
    <3> QED BY <1>0, <1>2, <3>1, ProjectedEnd
  <2> HIDE DEF ev
  <2>3. Background' /\ RowsAgree'
    BY <2>1, <2>2 DEF Agreeing, Background, Planning, Over, RowsAgree
  <2>4. warnings' = {} => CleanFailure' /\ CleanEnd'
    BY <1>1, <2>1, <2>2 DEF Agreeing, CleanFailure, CleanEnd, Terminating
  <2> QED BY <2>3, <2>4 DEF Agreeing
<1>6. CASE Finish
  <2> DEFINE ev == Event("failure_diagnosed", "diagnosed", "", TRUE, FALSE)
  <2>1. /\ pc = "diagnosis" /\ pc' = "returned" /\ UNCHANGED <<life, others, checks, verify, worker>>
        /\ response' = (IF Success THEN "success" ELSE "failed")
        /\ warnings' = {} => warnings = {} /\ db' = (IF Success THEN db ELSE Recorded(db, ev))
    BY <1>6 DEF Finish, buildRunResponse, Commits
  <2>2. /\ Recorded(db, ev).work = db.work /\ Recorded(db, ev).agent = db.agent
        /\ Recorded(db, ev).run = (IF db.run = "absent" THEN "scoped" ELSE db.run)
        /\ Recorded(db, ev).diagnosis
    BY <1>0, ProjectedVerdict
  <2> HIDE DEF ev
  <2>3. Background' /\ CleanFailure' /\ CleanEnd'
    BY <2>1 DEF Agreeing, Background, Planning, Over, CleanFailure, CleanEnd, Terminating
  <2>4. /\ ~db.diagnosis
        /\ warnings = {} => /\ db.work = FinalWork /\ db.run = FinalStatus /\ db.agent = "stopped"
                            /\ ~others.stale => life = FinalLifecycle
    BY <2>1 DEF Agreeing, Background, CleanEnd, Terminating, Over
  <2>5. Success => FinalWork = (IF checks > 0 THEN "verified" ELSE "completed")
    BY <1>0, <2>1 DEF Agreeing, Background, Inv, Planned, TypeOK, Terminating, Success, FinalWork
  <2>6. ASSUME Success, warnings' = {}
        PROVE  /\ response' = "success" /\ db'.run = "completed" /\ db'.agent = "stopped" /\ ~db'.diagnosis
               /\ db'.work = (IF checks' > 0 THEN "verified" ELSE "completed")
               /\ ~others'.stale => life' = "finished"
    BY <2>1, <2>4, <2>5, <2>6 DEF FinalStatus, FinalLifecycle
  <2>7. ASSUME ~Success, warnings' = {}
        PROVE  /\ response' = "failed" /\ db'.run = "failed" /\ db'.agent = "stopped" /\ db'.diagnosis
               /\ db'.work = "failed" /\ (~others'.stale => life' = "failed")
    BY <2>1, <2>2, <2>4, <2>7 DEF FinalStatus, FinalLifecycle, FinalWork
  <2>8. RowsAgree'
    BY <2>6, <2>7 DEF RowsAgree, Committed
  <2> QED BY <2>3, <2>8 DEF Agreeing
<1> QED BY <1>3, <1>4, <1>5, <1>6

\* Nobody else changes what a run without a warning has left, but by a stale
\* write: no transition is valid from a session that has ended.
LEMMA OthersAgree ==
  ASSUME Inv, Agreeing, Invalid \/ Cancel \/ OtherReads \/ OtherWrites \/ Crash \/ UNCHANGED vars
  PROVE  Agreeing'
<1>1. CASE Invalid
  <2>1. pc = "validate" /\ pc' = "returned" /\ UNCHANGED <<db, checks, verify>> /\ db = NoRows
    BY <1>1 DEF Invalid, Bail, Agreeing, Background
  <2>2. Background' /\ CleanFailure' /\ CleanEnd'
    BY <2>1 DEF Agreeing, Background, Planning, Over, CleanFailure, CleanEnd, Terminating
  <2> QED BY <2>1, <2>2 DEF Agreeing, RowsAgree
<1>2. CASE Crash
  BY <1>2, EarlyAgrees DEF Crash, Running, Over, Early, runVars
<1>3. CASE Cancel \/ OtherReads \/ OtherWrites \/ UNCHANGED vars
  <2>1. /\ UNCHANGED <<pc, db, warnings, checks, passed, worker, verify, response>>
        /\ ~others'.stale => ~others.stale /\ (life \in {"finished", "failed"} => life' = life)
    <3>1. CASE OtherReads
      <4>1. others'.stale = others.stale
        BY <3>1 DEF OtherReads, Inv, TypeOK
      <4> QED BY <3>1, <4>1 DEF OtherReads
    <3>2. CASE OtherWrites
      <4>1. PICK to \in others.pending : others'.stale = (others.stale \/ ~ValidTransition(life, to))
        BY <3>2 DEF OtherWrites
      <4>2. ~others'.stale => ~others.stale /\ ValidTransition(life, to)
        BY <4>1, Zenon
      <4>3. ValidTransition(life, to) => life \notin {"finished", "failed"}
        BY DEF ValidTransition, Terminal
      <4> QED BY <3>2, <4>2, <4>3 DEF OtherWrites
    <3> QED
      BY <1>3, <3>1, <3>2 DEF Cancel, runVars, vars
  <2>2. /\ AllPassed' = AllPassed /\ Success' = Success /\ FinalWork' = FinalWork
        /\ FinalStatus' = FinalStatus /\ VerdictWork' = VerdictWork
        /\ FinalLifecycle' = FinalLifecycle /\ FinalLifecycle \in {"finished", "failed"}
    BY <2>1 DEF AllPassed, Success, FinalWork, FinalStatus, VerdictWork, FinalLifecycle
  <2>3. Background'
    BY <2>1 DEF Agreeing, Background
  <2>4. warnings' = {} => CleanFailure' /\ CleanEnd'
    BY <2>1, <2>2 DEF Agreeing, CleanFailure, CleanEnd
  <2>5. RowsAgree'
    BY <2>1 DEF Agreeing, RowsAgree, Committed
  <2> QED BY <2>3, <2>4, <2>5 DEF Agreeing
<1> QED BY <1>1, <1>2, <1>3

-----------------------------------------------------------------------------
(* "finished" in the state file *)

\* Only the run's own last write puts it there, for a run that succeeded.
Finished ==
    life = "finished" =>
        /\ Success
        /\ pc \in {"run_final", "agent_stopped", "diagnosis"} \cup Over
        /\ pc = "returned" => response = "success"

\* The steps that only emit, and from where.
LEMMA EmitSteps ==
  /\ EmitRunCreated => pc = "run_created" /\ UNCHANGED <<life, worker, verify>>
  /\ EmitWorkCreated => pc = "work_created" /\ UNCHANGED <<life, worker, verify>>
  /\ EmitAgentSpawned => pc = "agent_spawned" /\ UNCHANGED <<life, worker, verify>>
  /\ EmitExecuting => pc = "executing" /\ UNCHANGED <<life, worker, verify>>
  /\ EmitWorkStarted => pc = "work_started" /\ UNCHANGED <<life, worker, verify>>
  /\ EmitAgentFailed => pc = "agent_failed" /\ UNCHANGED <<life, worker, verify>>
  /\ EmitFailWork => pc = "fail_work" /\ UNCHANGED <<life, worker, verify>>
  /\ EmitFailRun => pc = "fail_run" /\ UNCHANGED <<life, worker, verify>>
  /\ EmitFailAgent => pc = "fail_agent" /\ UNCHANGED <<life, worker, verify>>
  /\ EmitWorkDone => pc = "work_done" /\ UNCHANGED <<life, worker, verify>>
  /\ Drain => pc = "drain" /\ UNCHANGED <<life, worker, verify>>
  /\ EmitRunFinal => pc = "run_final" /\ pc' = "agent_stopped" /\ UNCHANGED <<life, worker, verify>>
  /\ EmitAgentStopped => pc = "agent_stopped" /\ pc' = "diagnosis" /\ UNCHANGED <<life, worker, verify>>
<1>1. EmitRunCreated => pc = "run_created" /\ UNCHANGED <<life, worker, verify>>
  BY CleanEmit DEF EmitRunCreated
<1>2. EmitWorkCreated => pc = "work_created" /\ UNCHANGED <<life, worker, verify>>
  BY CleanEmit DEF EmitWorkCreated
<1>3. EmitAgentSpawned => pc = "agent_spawned" /\ UNCHANGED <<life, worker, verify>>
  BY CleanEmit DEF EmitAgentSpawned
<1>4. EmitExecuting => pc = "executing" /\ UNCHANGED <<life, worker, verify>>
  BY CleanEmit DEF EmitExecuting
<1>5. EmitWorkStarted => pc = "work_started" /\ UNCHANGED <<life, worker, verify>>
  BY CleanEmit DEF EmitWorkStarted
<1>6. EmitAgentFailed => pc = "agent_failed" /\ UNCHANGED <<life, worker, verify>>
  BY CleanEmit DEF EmitAgentFailed
<1>7. EmitFailWork => pc = "fail_work" /\ UNCHANGED <<life, worker, verify>>
  BY CleanEmit DEF EmitFailWork
<1>8. EmitFailRun => pc = "fail_run" /\ UNCHANGED <<life, worker, verify>>
  BY CleanEmit DEF EmitFailRun
<1>9. EmitFailAgent => pc = "fail_agent" /\ UNCHANGED <<life, worker, verify>>
  BY CleanEmit DEF EmitFailAgent
<1>10. EmitWorkDone => pc = "work_done" /\ UNCHANGED <<life, worker, verify>>
  BY CleanEmit DEF EmitWorkDone
<1>11. Drain => pc = "drain" /\ UNCHANGED <<life, worker, verify>>
  BY CleanEmit DEF Drain
<1>12. EmitRunFinal => pc = "run_final" /\ pc' = "agent_stopped" /\ UNCHANGED <<life, worker, verify>>
  BY CleanEmit DEF EmitRunFinal
<1>13. EmitAgentStopped => pc = "agent_stopped" /\ pc' = "diagnosis" /\ UNCHANGED <<life, worker, verify>>
  BY CleanEmit DEF EmitAgentStopped
<1> QED BY <1>1, <1>2, <1>3, <1>4, <1>5, <1>6, <1>7, <1>8, <1>9, <1>10, <1>11, <1>12, <1>13

LEMMA FinishedKept ==
  ASSUME Inv, Finished, [Next]_vars PROVE Finished'
<1> USE DEF Over
<1>2. CASE PreWorker
  <2>1. life' \in {life, "running"} /\ pc \notin {"run_final", "agent_stopped", "diagnosis"} \cup Over
    BY <1>2, EmitSteps DEF PreWorker, Invalid, Valid, Factory, StateRunning, ReadState, WriteState, Spawn,
                           EmitFailDiagnosis, runVars
  <2> QED BY <2>1 DEF Finished
<1>3. CASE Drain \/ StreamEnds \/ Wait \/ EmitWorkDone \/ RunPlan
  <2>2. ASSUME Drain \/ EmitWorkDone PROVE pc \in {"drain", "work_done"} /\ life' = life
    BY <2>2, EmitSteps
  <2>3. ASSUME StreamEnds \/ Wait \/ RunPlan
        PROVE  pc \in {"drain", "wait", "verify", "verdict", "evidence"} /\ life' = life
    BY <2>3 DEF StreamEnds, Wait, RunPlan, RunCheck, ChecksDone, RecordVerdict, RecordEvidence,
                PlanDone, runVars
  <2>1. life' = life /\ pc \notin {"run_final", "agent_stopped", "diagnosis"} \cup Over
    BY <1>3, <2>2, <2>3
  <2> QED BY <2>1 DEF Finished
<1>4. CASE StateFinal
  BY <1>4 DEF StateFinal, ReadState, WriteState, runVars, Finished, FinalLifecycle, Success
<1>5. CASE EmitRunFinal \/ EmitAgentStopped
  BY <1>5, EmitSteps DEF Finished, Success
<1>6. CASE Finish
  BY <1>6 DEF Finish, buildRunResponse, Finished, Success
<1>7. CASE OtherReads \/ OtherWrites
  <2>1. UNCHANGED <<pc, worker, verify, response>> /\ (life' = "finished" => life = "finished")
    BY <1>7, ConstantsAssumption DEF OtherReads, OtherWrites, Inv, TypeOK
  <2> QED BY <2>1 DEF Finished, Success
<1>8. CASE Cancel \/ Crash \/ UNCHANGED vars
  BY <1>8 DEF Cancel, Crash, Running, vars, runVars, Finished, Success
<1> QED
  BY <1>2, <1>3, <1>4, <1>5, <1>6, <1>7, <1>8 DEF Next, RunWithWorker, Ended

\* If a run returns without a warning, run, work, agent session and diagnosis agree
\* with its answer, for any number of checks and any writers of the session's
\* state; the state file agrees unless a stale write has replaced the run's, and
\* never says "finished" of a run that did not succeed (run.go:63-67,
\* phases.go:98-112, 234-257, state.go:92-123).
THEOREM WarningFreeRunAlwaysAgrees == Spec => []WarningFreeRunAgrees
<1>1. Init => Agreeing /\ Finished
  BY DEF Init, Agreeing, Background, CleanFailure, CleanEnd, RowsAgree, Planning,
         Terminating, NoRows, Finished
<1>2. Inv /\ Agreeing /\ Finished /\ [Next]_vars => Agreeing' /\ Finished'
  BY PreWorkerAgrees, FailureAgrees, PlanAgrees, TerminalAgrees, OthersAgree, FinishedKept
     DEF Next, PreWorker, RunWithWorker, Ended
<1>3. Agreeing /\ Finished => WarningFreeRunAgrees
  BY DEF Agreeing, RowsAgree, Finished, WarningFreeRunAgrees
<1> QED
  BY <1>1, <1>2, <1>3, InvAlways, PTL DEF Spec

=============================================================================
