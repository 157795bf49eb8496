------------------------------ MODULE Projection ------------------------------
(***************************************************************************)
(* How internal/storage/storage.go folds the events of one run into the    *)
(* rows of the database.  No state: Recorded(db, ev) is the effect of the  *)
(* transaction RecordEvent commits, Recordable(db, ev) says whether the    *)
(* foreign keys of internal/storage/schema.go let it commit.               *)
(*                                                                         *)
(* db describes the rows of one run: the status of its run, work, agent    *)
(* session and verification rows ("absent" for no row), the number of      *)
(* evidence rows and whether a failure diagnosis exists.  Rows keyed by a  *)
(* fresh event id (the event log, a worker's tool calls) are not told      *)
(* apart; toolStatus gives the status of a tool call the host names.       *)
(* Event ids are hashes of the run, the type and the time in nanoseconds,  *)
(* and are taken to be fresh.                                              *)
(***************************************************************************)
EXTENDS Naturals

\* The types that omg records; the schema knows more.
EventTypes ==
    {"run_created", "run_status_changed", "work_created", "work_started", "work_completed",
     "work_failed", "agent_spawned", "agent_heartbeat", "agent_stopped", "agent_failed",
     "evidence_created", "tool_call_started", "tool_call_completed", "tool_call_failed",
     "tool_call_blocked", "verification_passed", "verification_failed", "failure_diagnosed"}

\* The CHECK constraints of the runs, work_items and agent_sessions tables.
RunStatuses == {"created", "scoped", "planned", "executing", "verifying", "reporting",
                "completed", "blocked", "failed", "cancelled"}
WorkStatuses == {"draft", "ready", "claimed", "running", "completed", "verified",
                 "blocked", "failed", "cancelled", "expired"}
AgentStatuses == {"spawn_requested", "starting", "running", "idle", "stale", "stopped",
                  "crashed", "orphaned"}

\* An event: `work', `agent' and `verification' say whether it carries the ids
\* of the run's work item, agent session and verification.
Event(type, status, lifecycle, work, agent) ==
    [type |-> type, status |-> status, lifecycle |-> lifecycle,
     work |-> work, agent |-> agent, verification |-> FALSE]

NoRows == [run |-> "absent", work |-> "absent", agent |-> "absent",
           verification |-> "absent", evidence |-> 0, diagnosis |-> FALSE]

-----------------------------------------------------------------------------

\* The run status an event without a lifecycle stands for, if any.
runStatusOfType(ev) ==
    CASE ev.type = "run_created" -> "scoped"
      [] ev.type \in {"agent_spawned", "work_started", "tool_call_started",
                      "tool_call_completed", "work_completed"} -> "executing"
      [] ev.type = "verification_passed" -> "completed"
      [] ev.type \in {"verification_failed", "tool_call_failed", "work_failed", "agent_failed"} -> "failed"
      [] ev.type = "tool_call_blocked" -> "blocked"
      [] OTHER -> ""

\* Mutant: the lifecycle of an agent_stopped or run_status_changed event is
\* looked at only for running.
runStatusIgnoresEnd(ev) ==
    IF ev.lifecycle = "running" THEN "executing" ELSE runStatusOfType(ev)

runStatus(ev) ==
    CASE ev.lifecycle = "running"  -> "executing"
      [] ev.lifecycle = "ask_user" -> "blocked"
      [] ev.lifecycle = "finished" -> "completed"
      [] ev.lifecycle = ""         -> runStatusOfType(ev)
      [] OTHER                     -> ev.lifecycle

workStatus(ev) ==
    CASE ev.type = "work_created" -> "ready"
      [] ev.type \in {"work_started", "tool_call_started", "tool_call_completed"} -> "running"
      [] ev.type = "work_completed" -> "completed"
      [] ev.type = "verification_passed" -> "verified"
      [] ev.type \in {"work_failed", "verification_failed", "tool_call_failed"} -> "failed"
      [] ev.type = "tool_call_blocked" -> "blocked"
      [] OTHER -> ""

agentStatus(ev) ==
    CASE ev.type = "agent_heartbeat" -> "running"
      [] ev.type = "agent_stopped"   -> "stopped"
      [] ev.type = "agent_failed"    -> "crashed"
      [] OTHER                       -> IF ev.status = "failed" THEN "crashed" ELSE "running"

\* The status of the row of a tool call.
toolStatus(ev) ==
    CASE ev.type = "tool_call_started"   ->
            IF ev.status \in {"allowed", "blocked", "failed"} THEN ev.status ELSE "started"
      [] ev.type = "tool_call_completed" -> "completed"
      [] ev.type = "tool_call_failed"    -> "failed"
      [] ev.type = "tool_call_blocked"   -> "blocked"

-----------------------------------------------------------------------------

\* ensureRun: an event without a run status creates the row as "scoped" and
\* otherwise leaves it alone.
ensureRun(db, ev) ==
    IF runStatus(ev) # "" THEN runStatus(ev)
    ELSE IF db.run = "absent" THEN "scoped" ELSE db.run

\* ensureWork: an event without a work status creates nothing.
ensureWork(db, ev) ==
    IF ev.work /\ workStatus(ev) # "" THEN workStatus(ev) ELSE db.work

ensureAgentSession(db, ev) == IF ev.agent THEN agentStatus(ev) ELSE db.agent

upsertVerification(db, ev) ==
    CASE ev.type = "verification_passed" -> "passed"
      [] ev.type = "verification_failed" -> "failed"
      [] OTHER -> db.verification

upsertEvidence(db, ev) ==
    IF ev.type = "evidence_created" THEN db.evidence + 1 ELSE db.evidence

upsertFailureDiagnosis(db, ev) == db.diagnosis \/ ev.type = "failure_diagnosed"

\* The rows after the transaction of RecordEvent.
Recorded(db, ev) ==
    [run          |-> ensureRun(db, ev),
     work         |-> ensureWork(db, ev),
     agent        |-> ensureAgentSession(db, ev),
     verification |-> upsertVerification(db, ev),
     evidence     |-> upsertEvidence(db, ev),
     diagnosis    |-> upsertFailureDiagnosis(db, ev)]

\* The foreign keys: an event that names the work item or the verification
\* commits only if that row exists by the end of the transaction.
Recordable(db, ev) ==
    /\ ev.work => Recorded(db, ev).work # "absent"
    /\ ev.verification => Recorded(db, ev).verification # "absent"

=============================================================================
