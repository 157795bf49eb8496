----------------------------- MODULE RunPipeline -----------------------------
(***************************************************************************)
(* One `omg run': handleRun of internal/orchestrator/run.go with its two   *)
(* phases, preWorker (may bail) and runWithWorker (must reach the terminal *)
(* events), the verification of internal/verify/verify.go it calls, and    *)
(* the rows and the state file it leaves behind.                           *)
(*                                                                         *)
(* Every storage event is a step of its own, and a state transition is two *)
(* (it reads and validates, then writes), so that a failed write, a        *)
(* cancelled context, an expired deadline, a crash or another writer of    *)
(* the session's state can come between any two.                           *)
(*                                                                         *)
(* Time is kept where the code bounds it: `elapsed' is the part of the     *)
(* five seconds of termCtx that the checks have used.                      *)
(*                                                                         *)
(* The request has a storage sink and names a project, so that there are a *)
(* database and a state store; without a sink every emit succeeds and      *)
(* records nothing, and what is said about rows does not apply.            *)
(***************************************************************************)
EXTENDS Integers, LifecycleTable, Projection

CONSTANTS
    MaxChecks,        \* bound on the number of --check arguments
    MaxWorkerEvents,  \* bound on the events the worker streams
    CheckSeconds,     \* the times a check may need
    HeldSeconds,      \* the times a check's output may stay open after its command
    CheckTimeout,     \* VerificationCheck.Timeout (10 s)
    TermBudget,       \* the timeout of termCtx (5 s)
    MaxFaults,        \* bound on the writes that fail by themselves (a locked database, a full disk)
    OtherTargets      \* what on-stop, on-error and the sweep may write meanwhile

ASSUME ConstantsAssumption ==
    /\ MaxChecks \in Nat /\ MaxWorkerEvents \in Nat
    /\ CheckSeconds \subseteq Nat /\ HeldSeconds \subseteq Nat
    /\ CheckTimeout \in Nat \ {0} /\ TermBudget \in Nat \ {0}
    /\ MaxFaults \in Nat
    /\ OtherTargets \subseteq {"cancelled", "failed", "blocked"}

VARIABLES
    pc,         \* the next step of handleRun
    db,         \* the rows of this run
    life,       \* lifecycle of the session in the state store
    others,     \* the other writers of it: `pending', what they have validated and not yet
                \* written; `stale', one wrote over a record its transition is not valid from
    warnings,   \* the steps whose failure was only noted in rc.Warnings
    faults,     \* the writes that have failed by themselves (history)
    ctxDone,    \* the request's context is cancelled
    elapsed,    \* seconds of termCtx used
    streamed,   \* rc.WorkerEventCount
    checks,     \* number of checks of the request
    passed,     \* outcomes of the checks that have run
    worker,     \* "none", or what Wait returned: "success", "failed", "error"
    verify,     \* rc.VerifyResult: "none", "passed", "failed"
    response    \* "none", "error", "success", "failed"

vars == <<pc, db, life, others, warnings, faults, ctxDone, elapsed, streamed, checks, passed,
          worker, verify, response>>

\* Steps of handleRun that record one storage event or make one state transition.
EventSteps ==
    {"run_created", "work_created", "agent_spawned", "executing", "work_started", "drain",
     "agent_failed", "fail_work", "fail_run", "fail_agent", "fail_diagnosis",
     "work_done", "verdict", "evidence", "run_final", "agent_stopped", "diagnosis"}
StateSteps == {"state_running", "write_running", "state_final", "write_final"}

OtherSteps == {"validate", "factory", "spawn", "wait", "verify", "returned", "crashed"}

TypeOK ==
    /\ pc \in EventSteps \cup StateSteps \cup OtherSteps
    /\ db \in [run : RunStatuses \cup {"absent"}, work : WorkStatuses \cup {"absent"},
               agent : AgentStatuses \cup {"absent"},
               verification : {"absent", "passed", "failed"},
               evidence : 0 .. MaxChecks, diagnosis : BOOLEAN]
    /\ life \in Lifecycle
    /\ others \in [pending : SUBSET OtherTargets, stale : BOOLEAN]
    /\ warnings \subseteq EventSteps \cup StateSteps
    /\ faults \in 0 .. MaxFaults
    /\ ctxDone \in BOOLEAN
    /\ elapsed \in 0 .. TermBudget
    /\ streamed \in 0 .. MaxWorkerEvents
    /\ checks \in 0 .. MaxChecks
    /\ passed \in [1 .. MaxChecks -> {"not_run", "yes", "no"}]
    /\ worker \in {"none", "success", "failed", "error"}
    /\ verify \in {"none", "passed", "failed"}
    /\ response \in {"none", "error", "success", "failed"}

\* How many checks a request asks for; empty strings and other values do not
\* count.
parseChecks == 0 .. MaxChecks

Init ==
    /\ pc = "validate"
    /\ db = NoRows
    /\ life = "inactive"
    /\ others = [pending |-> {}, stale |-> FALSE]
    /\ warnings = {}
    /\ faults = 0
    /\ ctxDone = FALSE
    /\ elapsed = 0
    /\ streamed = 0
    /\ checks \in parseChecks
    /\ passed = [i \in 1 .. MaxChecks |-> "not_run"]
    /\ worker = "none"
    /\ verify = "none"
    /\ response = "none"

\* The rest of the run's own variables, which an emit leaves alone.
runVars == <<life, others, elapsed, checks, passed, worker, response>>

ReqAlive == ~ctxDone                  \* ctx

\* Mutant: a termCtx that is still a child of the request's context.
TermAliveCancelled == elapsed < TermBudget /\ ~ctxDone

TermAlive == elapsed < TermBudget     \* termCtx

\* A write fails by itself.
Fault == faults < MaxFaults /\ faults' = faults + 1

\* A record that reaches the database, or an error of RecordEvent: the context
\* is over, a foreign key is missing, or the transaction fails.
Commits(ev, alive) ==
    alive /\ Recordable(db, ev) /\ db' = Recorded(db, ev) /\ UNCHANGED faults
Rejects(ev, alive) ==
    \/ Fault
    \/ ~(alive /\ Recordable(db, ev)) /\ UNCHANGED faults

\* rc.emit: record the event or add a warning, and go on either way.
Emit(at, ev, alive, next) ==
    /\ pc = at
    /\ pc' = next
    /\ \/ Commits(ev, alive) /\ UNCHANGED warnings
       \/ /\ Rejects(ev, alive)
          /\ warnings' = warnings \cup {at}
          /\ UNCHANGED db
    /\ UNCHANGED <<runVars, ctxDone, verify>>

-----------------------------------------------------------------------------
(* preWorker *)

Bail ==
    /\ response' = "error"
    /\ pc' = "returned"

\* Missing goal, no WorkerFactory or an unreadable configuration: nothing is
\* recorded.
Invalid ==
    /\ pc = "validate"
    /\ Bail
    /\ UNCHANGED <<db, life, others, warnings, faults, ctxDone, elapsed, streamed, checks, passed, worker, verify>>

Valid ==
    /\ pc = "validate"
    /\ pc' = "run_created"
    /\ UNCHANGED <<db, runVars, warnings, faults, ctxDone, streamed, verify>>

EmitRunCreated ==
    /\ Emit("run_created", Event("run_created", "created", "", FALSE, FALSE), ReqAlive, "work_created")
    /\ UNCHANGED streamed

EmitWorkCreated ==
    /\ Emit("work_created", Event("work_created", "ready", "", TRUE, FALSE), ReqAlive, "agent_spawned")
    /\ UNCHANGED streamed

EmitAgentSpawned ==
    /\ Emit("agent_spawned", Event("agent_spawned", "spawning", "", TRUE, TRUE), ReqAlive, "factory")
    /\ UNCHANGED streamed

\* WorkerFactory returns a worker, or an error after which the run bails.
Factory ==
    /\ pc = "factory"
    /\ pc' \in {"state_running", "agent_failed"}
    /\ UNCHANGED <<db, runVars, warnings, faults, ctxDone, streamed, verify>>

\* rc.StateStore.Transition reads the record and validates the transition, ...
ReadState(at, to, write, next) ==
    /\ pc = at
    /\ \/ ValidTransition(life, to) /\ pc' = write /\ UNCHANGED <<warnings, faults>>
       \/ /\ Fault \/ (~ValidTransition(life, to) /\ UNCHANGED faults)
          /\ warnings' = warnings \cup {at}
          /\ pc' = next
    /\ UNCHANGED <<db, runVars, ctxDone, streamed, verify>>

\* ... and writes whatever the file holds by then: the mutex covers only the
\* write, and only in this process.  Either error is soft.
WriteState(at, to, next) ==
    /\ pc = at
    /\ pc' = next
    /\ \/ life' = to /\ UNCHANGED <<warnings, faults>>
       \/ Fault /\ warnings' = warnings \cup {at} /\ UNCHANGED life
    /\ UNCHANGED <<db, others, ctxDone, elapsed, streamed, checks, passed, worker, verify, response>>

StateRunning ==
    \/ ReadState("state_running", "running", "write_running", "executing")
    \/ WriteState("write_running", "running", "executing")

EmitExecuting ==
    /\ Emit("executing", Event("run_status_changed", "executing", "running", FALSE, TRUE),
            ReqAlive, "work_started")
    /\ UNCHANGED streamed

EmitWorkStarted ==
    /\ Emit("work_started", Event("work_started", "running", "", TRUE, FALSE), ReqAlive, "spawn")
    /\ UNCHANGED streamed

\* rc.Worker.Spawn: os/exec starts no process under a context that is over.
Spawn ==
    /\ pc = "spawn"
    /\ pc' \in IF ReqAlive THEN {"drain", "agent_failed"} ELSE {"agent_failed"}
    /\ UNCHANGED <<db, runVars, warnings, faults, ctxDone, streamed, verify>>

-----------------------------------------------------------------------------
(* The bail-out after a factory or spawn error: agent_failed is recorded      *)
(* under the request's context, recordRunFailure under a fresh five seconds.  *)

EmitAgentFailed ==
    /\ Emit("agent_failed", Event("agent_failed", "failed", "", FALSE, TRUE), ReqAlive, "fail_work")
    /\ UNCHANGED streamed

EmitFailWork ==
    /\ Emit("fail_work", Event("work_failed", "failed", "", TRUE, FALSE), TRUE, "fail_run")
    /\ UNCHANGED streamed

EmitFailRun ==
    /\ Emit("fail_run", Event("run_status_changed", "failed", "failed", FALSE, TRUE), TRUE, "fail_agent")
    /\ UNCHANGED streamed

EmitFailAgent ==
    /\ Emit("fail_agent", Event("agent_stopped", "failed", "failed", FALSE, TRUE), TRUE, "fail_diagnosis")
    /\ UNCHANGED streamed

\* The last event of recordRunFailure, then the error response of handleRun.
EmitFailDiagnosis ==
    LET ev == Event("failure_diagnosed", "diagnosed", "", TRUE, FALSE) IN
    /\ pc = "fail_diagnosis"
    /\ Bail
    /\ \/ Commits(ev, TRUE) /\ UNCHANGED warnings
       \/ Rejects(ev, TRUE) /\ warnings' = warnings \cup {"fail_diagnosis"} /\ UNCHANGED db
    /\ UNCHANGED <<life, others, ctxDone, elapsed, streamed, checks, passed, worker, verify>>

-----------------------------------------------------------------------------
(* runWithWorker *)

\* workerEventToStorage: tool executions get their own event types, everything
\* else is a heartbeat of the agent.
WorkerEvents ==
    {Event("tool_call_started", "started", "", TRUE, TRUE),
     Event("tool_call_completed", "completed", "", TRUE, TRUE),
     Event("agent_heartbeat", "running", "", TRUE, TRUE)}

Drain ==
    /\ streamed < MaxWorkerEvents
    /\ streamed' = streamed + 1
    /\ \E ev \in WorkerEvents : Emit("drain", ev, ReqAlive, "drain")

\* The worker closes its stream.
StreamEnds ==
    /\ pc = "drain"
    /\ pc' = "wait"
    /\ UNCHANGED <<db, runVars, warnings, faults, ctxDone, streamed, verify>>

\* Wait: the worker's result, or an error of the process or of the context.
Wait ==
    /\ pc = "wait"
    /\ pc' = "work_done"
    /\ worker' \in {"success", "failed", "error"}
    /\ UNCHANGED <<db, life, others, warnings, faults, ctxDone, elapsed, streamed, checks, passed, verify, response>>

EmitWorkDone ==
    /\ \/ worker = "success" /\ Emit("work_done", Event("work_completed", "completed", "", TRUE, FALSE),
                                     TermAlive, IF checks > 0 THEN "verify" ELSE "state_final")
       \/ worker # "success" /\ Emit("work_done", Event("work_failed", "failed", "", TRUE, FALSE),
                                     TermAlive, "state_final")
    /\ UNCHANGED streamed

-----------------------------------------------------------------------------
(* verify.RunPlan *)

Ran == {i \in 1 .. checks : passed[i] # "not_run"}

Least(a, b) == IF a < b THEN a ELSE b

\* The check's own timeout, or what is left of termCtx.
CheckLimit == Least(CheckTimeout, TermBudget - elapsed)

\* Mutant: a check that only has its own timeout.
RunCheckOwnTimeout(i, seconds, ok, held) ==
    /\ pc = "verify"
    /\ Ran = 1 .. i - 1
    /\ passed' = [passed EXCEPT ![i] = IF ok /\ seconds < CheckTimeout THEN "yes" ELSE "no"]
    /\ elapsed' = elapsed + Least(seconds, CheckTimeout) + held
    /\ UNCHANGED <<pc, db, life, others, warnings, faults, ctxDone, streamed, checks, worker, verify, response>>

\* runCheck: the command is killed by its own timeout or by the end of termCtx,
\* and then counts as failed; cmd.Output returns only when no descendant holds
\* the command's output any more (`held' seconds later; there is no WaitDelay).
\* Every check of the plan runs: the checks buildVerificationCheck makes have a
\* command, so runCheck returns no error.
RunCheck(i, seconds, ok, held) ==
    /\ pc = "verify"
    /\ Ran = 1 .. i - 1
    /\ passed' = [passed EXCEPT ![i] = IF ok /\ seconds < CheckLimit THEN "yes" ELSE "no"]
    /\ elapsed' = Least(TermBudget, elapsed + Least(seconds, CheckLimit) + held)
    /\ UNCHANGED <<pc, db, life, others, warnings, faults, ctxDone, streamed, checks, worker, verify, response>>

\* Mutant: any passing check is enough.
AnyPassed == checks = 0 \/ \E i \in 1 .. checks : passed[i] = "yes"

\* Every check is required.
AllPassed == \A i \in 1 .. checks : passed[i] = "yes"

ChecksDone ==
    /\ pc = "verify"
    /\ Ran = 1 .. checks
    /\ pc' = "verdict"
    /\ UNCHANGED <<db, runVars, warnings, faults, ctxDone, streamed, verify>>

\* Mutant: RunPlan's error is noted but the run passes.
PlanErrorIgnored(at) ==
    /\ warnings' = warnings \cup {at}
    /\ verify' = "passed"
    /\ pc' = "state_final"
    /\ UNCHANGED db

\* An error of RunPlan counts as a failed verification, with a warning.
PlanError(at) ==
    /\ warnings' = warnings \cup {at}
    /\ verify' = "failed"
    /\ pc' = "state_final"
    /\ UNCHANGED db

VerificationEvent(type, status) ==
    [Event(type, status, "", TRUE, FALSE) EXCEPT !.verification = TRUE]

\* recordVerificationStorage: first the verdict, ...
RecordVerdict ==
    LET ev == IF AllPassed THEN VerificationEvent("verification_passed", "passed")
                           ELSE VerificationEvent("verification_failed", "failed")
    IN  /\ pc = "verdict"
        /\ \/ Commits(ev, TermAlive) /\ pc' = "evidence" /\ UNCHANGED <<warnings, verify>>
           \/ Rejects(ev, TermAlive) /\ PlanError("verdict")
        /\ UNCHANGED <<runVars, ctxDone, streamed>>

\* ... then one event per check; the first error ends RunPlan.
RecordEvidence ==
    LET ev == VerificationEvent("evidence_created", "checked")
    IN  /\ pc = "evidence"
        /\ db.evidence < checks
        /\ \/ Commits(ev, TermAlive) /\ UNCHANGED <<pc, warnings, verify>>
           \/ Rejects(ev, TermAlive) /\ PlanError("evidence")
        /\ UNCHANGED <<runVars, ctxDone, streamed>>

PlanDone ==
    /\ pc = "evidence"
    /\ db.evidence = checks
    /\ verify' = IF AllPassed THEN "passed" ELSE "failed"
    /\ pc' = "state_final"
    /\ UNCHANGED <<db, runVars, warnings, faults, ctxDone, streamed>>

-----------------------------------------------------------------------------
(* The terminal events *)

\* rc.Success
Success == worker = "success" /\ verify # "failed"
FinalLifecycle == IF Success THEN "finished" ELSE "failed"
FinalStatus == IF Success THEN "completed" ELSE "failed"

StateFinal ==
    \/ ReadState("state_final", FinalLifecycle, "write_final", "run_final")
    \/ WriteState("write_final", FinalLifecycle, "run_final")

EmitRunFinal ==
    /\ Emit("run_final", Event("run_status_changed", FinalStatus, FinalLifecycle, FALSE, TRUE),
            TermAlive, "agent_stopped")
    /\ UNCHANGED streamed

EmitAgentStopped ==
    /\ Emit("agent_stopped", Event("agent_stopped", FinalStatus, FinalLifecycle, FALSE, TRUE),
            TermAlive, "diagnosis")
    /\ UNCHANGED streamed

buildRunResponse == IF Success THEN "success" ELSE "failed"

\* A failed run gets a diagnosis; then buildRunResponse.
Finish ==
    LET ev == Event("failure_diagnosed", "diagnosed", "", TRUE, FALSE) IN
    /\ pc = "diagnosis"
    /\ \/ Success /\ UNCHANGED <<db, warnings, faults>>
       \/ ~Success /\ Commits(ev, TermAlive) /\ UNCHANGED warnings
       \/ ~Success /\ Rejects(ev, TermAlive)
          /\ warnings' = warnings \cup {"diagnosis"} /\ UNCHANGED db
    /\ response' = buildRunResponse
    /\ pc' = "returned"
    /\ UNCHANGED <<life, others, ctxDone, elapsed, streamed, checks, passed, worker, verify>>

-----------------------------------------------------------------------------
(* Environment *)

Running == pc \notin {"returned", "crashed"}

\* The caller's context is cancelled.
Cancel ==
    /\ Running /\ ~ctxDone
    /\ ctxDone' = TRUE
    /\ UNCHANGED <<pc, db, runVars, warnings, faults, streamed, verify>>

\* Another writer of the session's state file, in this or in another process: an
\* on-stop or on-error request for the session, or the stale-heartbeat sweep.  It
\* too reads and validates first ...
OtherReads ==
    /\ \E to \in OtherTargets \ others.pending :
          /\ ValidTransition(life, to)
          /\ others' = [others EXCEPT !.pending = @ \cup {to}]
    /\ UNCHANGED <<pc, db, life, warnings, faults, ctxDone, elapsed, streamed, checks, passed, worker,
                   verify, response>>

\* ... and writes later, at any distance, the run's own end included.
OtherWrites ==
    /\ \E to \in others.pending :
          /\ life' = to
          /\ others' = [pending |-> others.pending \ {to},
                        stale |-> others.stale \/ ~ValidTransition(life, to)]
    /\ UNCHANGED <<pc, db, warnings, faults, ctxDone, elapsed, streamed, checks, passed, worker, verify,
                   response>>

Crash ==
    /\ Running
    /\ pc' = "crashed"
    /\ UNCHANGED <<db, runVars, warnings, faults, ctxDone, streamed, verify>>

\* The run has ended; nothing more happens in this process.
Ended == ~Running /\ UNCHANGED vars

-----------------------------------------------------------------------------

PreWorker ==
    \/ Invalid \/ Valid
    \/ EmitRunCreated \/ EmitWorkCreated \/ EmitAgentSpawned
    \/ Factory \/ StateRunning \/ EmitExecuting \/ EmitWorkStarted \/ Spawn
    \/ EmitAgentFailed \/ EmitFailWork \/ EmitFailRun \/ EmitFailAgent \/ EmitFailDiagnosis

RunPlan ==
    \/ \E i \in 1 .. checks, seconds \in CheckSeconds, ok \in BOOLEAN, held \in HeldSeconds :
          RunCheck(i, seconds, ok, held)
    \/ ChecksDone \/ RecordVerdict \/ RecordEvidence \/ PlanDone

RunWithWorker ==
    \/ Drain \/ StreamEnds \/ Wait \/ EmitWorkDone
    \/ RunPlan
    \/ StateFinal \/ EmitRunFinal \/ EmitAgentStopped \/ Finish

Next ==
    \/ PreWorker \/ RunWithWorker
    \/ Cancel \/ OtherReads \/ OtherWrites \/ Crash \/ Ended

Spec == Init /\ [][Next]_vars

\* handleRun keeps running while its process lives; that the worker's stream
\* ends is the business of the driver (PiDriver).
FairSpec == Spec /\ WF_vars(PreWorker \/ RunWithWorker)

-----------------------------------------------------------------------------
(* Properties *)

\* The database never calls a run completed that did not earn it, not even
\* between two events or after a crash: the worker succeeded and every
\* requested check passed (phases.go:195-232, storage.go:465-494).
CompletedIsEarned ==
    db.run = "completed" =>
        worker = "success" /\ \A i \in 1 .. checks : passed[i] = "yes"

\* A success answer to a request with checks is backed by the database: the
\* verdict and the evidence of every check are recorded, whatever storage
\* failures happened on the way (phases.go:208-222, verify.go:120-163).
SuccessIsEvidenced ==
    response = "success" /\ checks > 0 =>
        db.verification = "passed" /\ db.evidence = checks

Committed == response \in {"success", "failed"}

\* If a run returns without a warning, every trace of it agrees with the answer:
\* run, work, agent session and diagnosis, whatever other writers of the session
\* do.  The state file of a committed run agrees too, unless another writer's
\* stale write (validated before the run's own last write, state.go:92-123) has
\* replaced what the run left; it never says "finished" of a run that did not
\* succeed, not even when the worker was never spawned and the file stays as it
\* was.  Every failure the pipeline tolerates leaves a warning (run.go:63-67,
\* phases.go:98-112, 138-150, 234-257).
WarningFreeRunAgrees ==
    pc = "returned" /\ warnings = {} /\ db # NoRows =>
        /\ db.run = (IF response = "success" THEN "completed" ELSE "failed")
        /\ db.agent = "stopped"
        /\ db.diagnosis <=> response # "success"
        /\ response = "success" => db.work = (IF checks > 0 THEN "verified" ELSE "completed")
        /\ response # "success" => db.work = "failed" /\ life # "finished"
        /\ Committed /\ ~others.stale => life = (IF response = "success" THEN "finished" ELSE "failed")

\* A committed run reaches a terminal status in the database: "Once preWorker
\* returns nil, the Run is committed: runWithWorker MUST run to terminal events
\* regardless of worker outcome" (phases.go:24-25).
CommittedRunTerminates ==
    pc = "drain" ~> (pc = "crashed" \/ [](db.run \in {"completed", "failed"}))

\* Only a write that fails by itself, or checks that use up the five seconds of
\* termCtx, keep a committed run from that status: not a cancelled request, not
\* the worker's outcome, not an event that was lost before (phases.go:169-257).
TerminatesUnlessStarved ==
    pc = "drain" ~> \/ pc = "crashed"
                    \/ faults > 0
                    \/ elapsed = TermBudget
                    \/ [](db.run \in {"completed", "failed"})

=============================================================================
