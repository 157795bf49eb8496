------------------------------ MODULE HostEvents ------------------------------
(***************************************************************************)
(* What the host's events do: the handlers of                              *)
(* internal/orchestrator/orchestrator.go as the daemon runs them, several  *)
(* at a time, and the clients of cmd/omg/main.go, which wait for 100 ms    *)
(* and then answer the host themselves.                                    *)
(*                                                                         *)
(* A handler reads the session's state file, writes it, runs a transaction, *)
(* commits it and answers, each in a step of its own.  Between any two of  *)
(* them its client may give up, its context may end, another handler may   *)
(* run or the daemon may die.  Sockets and lock files are the business of  *)
(* Daemon, the steps of a write that of StateStore, `omg run' that of      *)
(* RunPipeline.                                                            *)
(*                                                                         *)
(* All requests name one project (or none), one session (or none), one run *)
(* and one tool call.  The session is one that `omg run' has set running;  *)
(* any other refuses on-error and on-stop as an ended one does.            *)
(***************************************************************************)
EXTENDS Integers, LifecycleTable, Projection

CONSTANTS
    Requests,   \* request ids
    Scripts,    \* what the requests may be: a set of functions from Requests
    MaxFaults   \* bound on the writes that fail by themselves

Events == {"on-submit", "on-tool-before", "on-tool-after", "on-error", "on-stop", "on-compact",
           "on-run"}

\* A request, as far as the handlers look at it: the fields ValidateRequest
\* checks (a path that is given is absolute), whether there is a project, a
\* session id and a work id, the guard's decision on the tool call, whether the
\* tool or the prompt failed, and whether the error was a blocked one.
Request ==
    [event : Events \cup {"unsupported"}, version : 0 .. 2, id : BOOLEAN, provider : BOOLEAN,
     absolute : BOOLEAN, project : BOOLEAN, session : BOOLEAN, work : BOOLEAN,
     decision : {"allow", "warn", "block"}, failed : BOOLEAN, blocked : BOOLEAN]

ASSUME ConstantsAssumption ==
    /\ Scripts \subseteq [Requests -> Request]
    /\ MaxFaults \in Nat

\* The host reports the end of the tool call once.
ASSUME OneEndAssumption ==
    \A s \in Scripts, a \in Requests, b \in Requests :
        s[a].event = "on-tool-after" /\ s[b].event = "on-tool-after" => a = b

VARIABLES
    req,       \* the requests; chosen once
    host,      \* request -> "idle", "waiting", "answered"
    answer,    \* request -> the response the host got
    up,        \* the daemon runs
    stopping,  \* stopCtx, the parent of all requests' contexts, is cancelled
    expired,   \* the requests whose deadline has passed
    closed,    \* the requests whose connection was closed with a timeout
    hnd,       \* request -> the next step of its handler
    reply,     \* request -> the response under construction
    life,      \* lifecycle in the session's state file
    moved,     \* the requests that wrote the state file (history)
    db,        \* the rows of the run
    tool,      \* status of the row of the tool call, or "absent"
    ledger,    \* the requests whose event is recorded
    faults     \* writes that have failed by themselves (history)

vars == <<req, host, answer, up, stopping, expired, closed, hnd, reply, life, moved, db, tool, ledger, faults>>
hostVars == <<host, answer>>
daemonVars == <<up, stopping, expired, closed>>
fileVars == <<life, moved>>
dbVars == <<db, tool, ledger>>

-----------------------------------------------------------------------------
(* internal/protocol *)

\* Warnings are kept as their kinds.
Warnings == {"guard", "route", "storage", "socket"}
ErrorClasses == {"unknown", "invalid_config", "timeout", "socket_unavailable"}
Response == [action : {"", "none", "inject_prompt", "block", "warn"},
             warnings : SUBSET Warnings, error : ErrorClasses \cup {""}]

NoResponse == [action |-> "", warnings |-> {}, error |-> ""]
OKResponse(action, warnings) == [action |-> action, warnings |-> warnings, error |-> ""]
ErrorResponse(class) == [action |-> "warn", warnings |-> {}, error |-> class]

ValidateRequest(r) ==
    /\ r.version = 1
    /\ r.id
    /\ r.provider
    /\ r.event \in Events
    /\ r.absolute

-----------------------------------------------------------------------------

Init ==
    /\ req \in Scripts
    /\ host = [r \in Requests |-> "idle"]
    /\ answer = [r \in Requests |-> NoResponse]
    /\ up = TRUE
    /\ stopping = FALSE
    /\ expired = {}
    /\ closed = {}
    /\ hnd = [r \in Requests |-> "absent"]
    /\ reply = [r \in Requests |-> NoResponse]
    /\ life = "running"
    /\ moved = {}
    /\ db = NoRows
    /\ tool = "absent"
    /\ ledger = {}
    /\ faults = 0

Goto(r, step) == hnd' = [hnd EXCEPT ![r] = step]

\* The response is complete; that of an on-stop waits for the cancel() of
\* runDaemonStart's handler.
Reply(r, response) ==
    /\ reply' = [reply EXCEPT ![r] = response]
    /\ Goto(r, IF req[r].event = "on-stop" THEN "cancel" ELSE "returned")

Fault == faults < MaxFaults /\ faults' = faults + 1

-----------------------------------------------------------------------------
(* The host and its clients *)

Event_(r) == req[r].event
Transitions(r) == Event_(r) \in {"on-error", "on-stop"}
Befores == {r \in Requests : Event_(r) = "on-tool-before"}

\* The host runs the tool, and reports on it, once it has an answer that is not
\* "block".
MaySend(r) ==
    Event_(r) = "on-tool-after" =>
        \A b \in Befores : host[b] = "answered" /\ answer[b].action # "block"

Answer(r, response) ==
    /\ host' = [host EXCEPT ![r] = "answered"]
    /\ answer' = [answer EXCEPT ![r] = response]

\* `omg on-submit' and `omg on-tool-before' read the request themselves and
\* refuse an invalid one.
Refuse(r) ==
    /\ host[r] = "idle" /\ Event_(r) \in {"on-submit", "on-tool-before"}
    /\ ~ValidateRequest(req[r])
    /\ Answer(r, ErrorResponse("invalid_config"))
    /\ UNCHANGED <<req, daemonVars, hnd, reply, fileVars, dbVars, faults>>

\* RoundTrip: the request reaches the daemon or gets lost, ...
Send(r) ==
    /\ host[r] = "idle" /\ MaySend(r)
    /\ Event_(r) \in {"on-submit", "on-tool-before"} => ValidateRequest(req[r])
    /\ host' = [host EXCEPT ![r] = "waiting"]
    /\ \/ up /\ Goto(r, "begin")
       \/ UNCHANGED hnd
    /\ UNCHANGED <<req, answer, daemonVars, reply, fileVars, dbVars, faults>>

\* What the command answers when RoundTrip fails: inlineSubmitFallback routes
\* but injects nothing, on-tool-before lets the tool run with a warning, `omg
\* run' runs the pipeline itself (RunPipeline); the others have no fallback.
Fallbacks(r) ==
    CASE Event_(r) = "on-submit"      -> {OKResponse("warn", {"socket", "route"}),
                                          [ErrorResponse("invalid_config") EXCEPT !.warnings = {"socket"}]}
      [] Event_(r) = "on-tool-before" -> {OKResponse("warn", {"socket"})}
      [] Event_(r) = "on-run"         -> {OKResponse("none", {}), ErrorResponse("unknown")}
      [] OTHER                        -> {ErrorResponse("socket_unavailable")}

\* ... or the dial, the write or the read fails, at the latest after 100 ms.
GiveUp(r) ==
    /\ host[r] = "waiting"
    /\ \E response \in Fallbacks(r) : Answer(r, response)
    /\ UNCHANGED <<req, daemonVars, hnd, reply, fileVars, dbVars, faults>>

-----------------------------------------------------------------------------
(* handleConnection *)

\* A client that has given up reads nothing more.
Deliver(r, response) ==
    \/ host[r] = "waiting" /\ Answer(r, response)
    \/ host[r] = "answered" /\ UNCHANGED hostVars

\* An invalid request is answered at once.
ReadRequest(r) ==
    /\ hnd[r] = "begin" /\ ~ValidateRequest(req[r])
    /\ Goto(r, "done")
    /\ Deliver(r, ErrorResponse("invalid_config"))
    /\ UNCHANGED <<req, daemonVars, reply, fileVars, dbVars, faults>>

\* The context the handler was given.
Alive(r) == r \notin expired /\ ~stopping

\* After an on-stop the handler of runDaemonStart cancels stopCtx.
Cancel(r) ==
    /\ hnd[r] = "cancel"
    /\ Goto(r, "returned")
    /\ stopping' = TRUE
    /\ UNCHANGED <<req, hostVars, up, expired, closed, reply, fileVars, dbVars, faults>>

\* Mutant: the response is sent while the event is still being recorded.
RespondEarly(r) ==
    /\ hnd[r] = "record" /\ r \notin closed /\ host[r] = "waiting"
    /\ Deliver(r, reply[r])
    /\ UNCHANGED <<req, daemonVars, hnd, reply, fileVars, dbVars, faults>>

\* The select of handleConnection finds the response, ...
Respond(r) ==
    /\ hnd[r] = "returned" /\ r \notin closed
    /\ Goto(r, "done")
    /\ expired' = expired \ {r}
    /\ Deliver(r, reply[r])
    /\ UNCHANGED <<req, up, stopping, closed, reply, fileVars, dbVars, faults>>

Handling(r) == hnd[r] \in {"begin", "write", "record", "commit", "cancel", "returned"} /\ ValidateRequest(req[r])

\* ... or the end of the context, even if the response is there too; the
\* handler goes on.
TimeOut(r) ==
    /\ Handling(r) /\ ~Alive(r) /\ r \notin closed
    /\ closed' = closed \cup {r}
    /\ Deliver(r, ErrorResponse("timeout"))
    /\ UNCHANGED <<req, up, stopping, expired, hnd, reply, fileVars, dbVars, faults>>

\* timeoutFor: the deadline of the request passes, ...
Expire(r) ==
    /\ Handling(r) /\ r \notin expired
    /\ expired' = expired \cup {r}
    /\ UNCHANGED <<req, hostVars, up, stopping, closed, hnd, reply, fileVars, dbVars, faults>>

\* ... or a signal ends stopCtx.
Interrupt ==
    /\ up /\ ~stopping /\ stopping' = TRUE
    /\ UNCHANGED <<req, hostVars, up, expired, closed, hnd, reply, fileVars, dbVars, faults>>

\* The daemon ends, regularly or not, and all it knew is gone; it does not wait
\* for its handlers.
Exit ==
    /\ up
    /\ up' = FALSE /\ stopping' = FALSE
    /\ expired' = {} /\ closed' = {}
    /\ hnd' = [r \in Requests |-> "absent"]
    /\ reply' = [r \in Requests |-> NoResponse]
    /\ UNCHANGED <<req, hostVars, fileVars, dbVars, faults>>

-----------------------------------------------------------------------------
(* handleSubmit, handleToolBefore, handleToolAfter, on-compact *)

Begin(r, event) == hnd[r] = "begin" /\ ValidateRequest(req[r]) /\ Event_(r) = event

BeginRecord(r, response) ==
    /\ reply' = [reply EXCEPT ![r] = response]
    /\ Goto(r, "record")

\* Configuration, registry, route and prompt are modelled in Submit; an error of
\* any of them ends the request, that of the prompt with the route in a warning.
HandleSubmit(r) ==
    /\ Begin(r, "on-submit")
    /\ \/ /\ req[r].failed
          /\ \E w \in {{}, {"route"}} : Reply(r, [ErrorResponse("invalid_config") EXCEPT !.warnings = w])
       \/ ~req[r].failed /\ BeginRecord(r, OKResponse("inject_prompt", {"route"}))
    /\ UNCHANGED <<req, hostVars, daemonVars, fileVars, dbVars, faults>>

\* Mutant: a blocked call is answered like a warning.
GuardActionLenient(r) == IF req[r].decision = "allow" THEN "none" ELSE "warn"

GuardAction(r) ==
    CASE req[r].decision = "allow" -> "none"
      [] req[r].decision = "warn"  -> "warn"
      [] req[r].decision = "block" -> "block"

HandleToolBefore(r) ==
    /\ Begin(r, "on-tool-before")
    /\ BeginRecord(r, OKResponse(GuardAction(r), IF GuardAction(r) = "warn" THEN {"guard"} ELSE {}))
    /\ UNCHANGED <<req, hostVars, daemonVars, fileVars, dbVars, faults>>

HandleToolAfter(r) ==
    /\ Begin(r, "on-tool-after")
    /\ BeginRecord(r, OKResponse("none", {}))
    /\ UNCHANGED <<req, hostVars, daemonVars, fileVars, dbVars, faults>>

HandleCompact(r) ==
    /\ Begin(r, "on-compact")
    /\ Reply(r, OKResponse("none", {}))
    /\ UNCHANGED <<req, hostVars, daemonVars, fileVars, dbVars, faults>>

\* The daemon has no WorkerFactory, so handleRun ends in preWorker.
HandleRun(r) ==
    /\ Begin(r, "on-run")
    /\ Reply(r, ErrorResponse("invalid_config"))
    /\ UNCHANGED <<req, hostVars, daemonVars, fileVars, dbVars, faults>>

-----------------------------------------------------------------------------
(* handleStateTransition *)

\* lifecycleForError; on-stop cancels.
Target(r) ==
    IF Event_(r) = "on-stop" THEN "cancelled" ELSE IF req[r].blocked THEN "blocked" ELSE "failed"

\* The daemon has no StateStore of its own: without a project or a session id
\* (`omg daemon stop') there is nothing to do, and the answer is a clean one.
\* Otherwise Transition reads the file and validates, ...
HandleStateTransition(r) ==
    /\ Begin(r, "on-error") \/ Begin(r, "on-stop")
    /\ \/ ~(req[r].project /\ req[r].session) /\ Reply(r, OKResponse("none", {}))
       \/ /\ req[r].project /\ req[r].session
          /\ IF ValidTransition(life, Target(r)) THEN Goto(r, "write") /\ UNCHANGED reply
                                                 ELSE Reply(r, ErrorResponse("unknown"))
    /\ UNCHANGED <<req, hostVars, daemonVars, fileVars, dbVars, faults>>

\* ... and then writes, whatever the file says by now.  It takes no context.
WriteState(r) ==
    /\ hnd[r] = "write"
    /\ \/ /\ life' = Target(r)
          /\ moved' = moved \cup {r}
          /\ BeginRecord(r, OKResponse("none", {}))
          /\ UNCHANGED faults
       \/ Fault /\ Reply(r, ErrorResponse("unknown")) /\ UNCHANGED fileVars
    /\ UNCHANGED <<req, hostVars, daemonVars, dbVars>>

\* Another process, running the session's worker, ends it.
RunEnds ==
    /\ \E to \in {"finished", "failed"} : ValidTransition(life, to) /\ life' = to
    /\ UNCHANGED <<req, hostVars, daemonVars, hnd, reply, moved, dbVars, faults>>

-----------------------------------------------------------------------------
(* recordStorageEvent *)

\* The storage event of a request; the session is the agent session.
StorageEvent(r) ==
    LET type == CASE Event_(r) = "on-submit"     -> "run_created"
                  [] Event_(r) = "on-tool-before" ->
                       IF GuardAction(r) = "block" THEN "tool_call_blocked" ELSE "tool_call_started"
                  [] Event_(r) = "on-tool-after" ->
                       IF req[r].failed THEN "tool_call_failed" ELSE "tool_call_completed"
                  [] OTHER                        -> "run_status_changed"
        status == CASE Event_(r) = "on-submit"      -> "scoped"
                    [] Event_(r) = "on-tool-before" ->
                         (CASE GuardAction(r) = "none"  -> "allowed"
                            [] GuardAction(r) = "warn"  -> "warned"
                            [] GuardAction(r) = "block" -> "blocked")
                    [] Event_(r) = "on-tool-after"  -> IF req[r].failed THEN "failed" ELSE "completed"
                    [] OTHER                        -> Target(r)
    IN  Event(type, status, IF Transitions(r) THEN Target(r) ELSE "", req[r].work, req[r].session)

\* SQLite's write lock: a transaction has it from its first statement on, and the
\* others wait.
Locked == \E r \in Requests : hnd[r] = "commit"

\* Mutant: the transaction runs under a context of its own.
ExecuteDetached(r) ==
    /\ hnd[r] = "record" /\ ~Locked
    /\ Goto(r, "commit")
    /\ UNCHANGED <<req, hostVars, daemonVars, reply, fileVars, dbVars, faults>>

\* RecordEvent's statements, all under the handler's context, and the look
\* tx.Commit takes at it.  Foreign keys are only enforced on the connection of
\* the pool that ran Migrate, so a missing row may or may not matter.
Execute(r) ==
    /\ hnd[r] = "record" /\ Alive(r) /\ ~Locked
    /\ Goto(r, "commit")
    /\ UNCHANGED <<req, hostVars, daemonVars, reply, fileVars, dbVars, faults>>

\* The COMMIT itself, which no context stops any more.
Commit(r) ==
    /\ hnd[r] = "commit"
    /\ db' = Recorded(db, StorageEvent(r))
    /\ tool' = IF Event_(r) \in {"on-tool-before", "on-tool-after"}
               THEN toolStatus(StorageEvent(r)) ELSE tool
    /\ ledger' = ledger \cup {r}
    /\ Reply(r, reply[r])
    /\ UNCHANGED <<req, hostVars, daemonVars, fileVars, faults>>

\* Mutant: a rejected event is not mentioned.
RejectedReplySilent(r) == reply[r]

\* Mutant: a rejected event fails the request.
RejectedReplyFails(r) == ErrorResponse("unknown")

\* The response after a rejected event: a warning more, and the action "warn"
\* for on-error and on-stop.
RejectedReply(r) ==
    IF Transitions(r) THEN OKResponse("warn", {"storage"})
                      ELSE [reply[r] EXCEPT !.warnings = @ \cup {"storage"}]

\* The context has ended, a row is missing, or the transaction or its COMMIT
\* fails.
Reject(r) ==
    /\ hnd[r] \in {"record", "commit"}
    /\ \/ Fault
       \/ /\ hnd[r] = "record" /\ ~(Alive(r) /\ Recordable(db, StorageEvent(r)))
          /\ UNCHANGED faults
    /\ Reply(r, RejectedReply(r))
    /\ UNCHANGED <<req, hostVars, daemonVars, fileVars, dbVars>>

-----------------------------------------------------------------------------

Handle(r) ==
    \/ HandleSubmit(r) \/ HandleToolBefore(r) \/ HandleToolAfter(r)
    \/ HandleCompact(r) \/ HandleRun(r)
    \/ HandleStateTransition(r) \/ WriteState(r)
    \/ Execute(r) \/ Commit(r) \/ Reject(r)

\* No handler runs.
Quiet ==
    /\ \A r \in Requests : hnd[r] \in {"absent", "returned", "done"}
    /\ UNCHANGED vars

Next ==
    \/ \E r \in Requests :
          \/ Refuse(r) \/ Send(r) \/ GiveUp(r)
          \/ ReadRequest(r) \/ Cancel(r) \/ Respond(r) \/ Expire(r) \/ TimeOut(r)
          \/ Handle(r)
    \/ Interrupt \/ Exit \/ RunEnds \/ Quiet

Spec == Init /\ [][Next]_vars

-----------------------------------------------------------------------------
(* Properties *)

Steps == {"absent", "begin", "write", "record", "commit", "cancel", "returned", "done"}

TypeOK ==
    /\ req \in Scripts
    /\ host \in [Requests -> {"idle", "waiting", "answered"}]
    /\ answer \in [Requests -> Response]
    /\ up \in BOOLEAN /\ stopping \in BOOLEAN
    /\ expired \subseteq Requests /\ closed \subseteq Requests
    /\ hnd \in [Requests -> Steps]
    /\ reply \in [Requests -> Response]
    /\ life \in Lifecycle
    /\ moved \subseteq Requests
    /\ db.run \in RunStatuses \cup {"absent"} /\ db.agent \in AgentStatuses \cup {"absent"}
    /\ tool \in {"absent", "started", "allowed", "blocked", "completed", "failed"}
    /\ ledger \subseteq Requests
    /\ faults \in 0 .. MaxFaults

Answered(r) == host[r] = "answered"

\* The answer came from the handler, not from a timeout or from the client.
Heard(r) ==
    /\ Answered(r)
    /\ "socket" \notin answer[r].warnings
    /\ answer[r].error \notin {"timeout", "socket_unavailable"}

\* The requests that ask for something to be left behind.
Effective(r) ==
    \/ Event_(r) \in {"on-submit", "on-tool-before", "on-tool-after"}
    \/ Transitions(r) /\ req[r].project /\ req[r].session

\* A host that gets a clean answer knows what has happened: the event is in the
\* database, and an on-error or on-stop has moved the state file, exactly if the
\* request asked for it.  One without a project or a session id asks for nothing,
\* and its clean answer promises nothing (orchestrator.go:159).  Every failure on
\* the way shows as an error, a warning or a timeout (orchestrator.go:96-98,
\* 126-133, 145-152, 176-182).
CleanAnswerHolds ==
    \A r \in Requests :
        Heard(r) /\ answer[r].error = "" /\ "storage" \notin answer[r].warnings =>
            /\ r \in ledger <=> Effective(r)
            /\ r \in moved <=> Effective(r) /\ Transitions(r)

\* An error other than a timeout means that nothing happened, so that the
\* request may be sent again: neither the state file nor the database has
\* anything of it, then or later (orchestrator.go:65-91, 176-178,
\* daemon.go:166-170).
ErrorLeavesNothing ==
    \A r \in Requests :
        Heard(r) /\ answer[r].error # "" /\ Event_(r) # "on-run" => r \notin ledger \cup moved

\* Once the end of a tool call is recorded it stays so, unless the host reported
\* it without having heard from its on-tool-before: a handler whose client
\* has given up may still record the start of a call that has ended
\* (main.go:133-148, storage.go:296-309).
SettledToolStays ==
    \A a \in Requests :
        Event_(a) = "on-tool-after" /\ a \in ledger /\ (\A b \in Befores : Heard(b)) =>
            tool = IF req[a].failed THEN "failed" ELSE "completed"

\* The host runs a tool the guard blocks only if it has not heard from the
\* guard: the request was not a valid one, the daemon timed out or the command
\* answered in its place (orchestrator.go:102-134, main.go:133-148).
BlockedRunsOnlyUnheard ==
    \A a \in Requests, b \in Befores :
        Event_(a) = "on-tool-after" /\ host[a] # "idle" /\ req[b].decision = "block" =>
            ~(Heard(b) /\ ValidateRequest(req[b]))

\* The end of the context reaches the database: once a connection has been closed
\* with a timeout, the handler it left behind does not get its event into a
\* COMMIT any more.  Only one that was already there when the connection was
\* closed can still record it, so that a retry records it twice
\* (daemon.go:172-187, storage.go:195-222).
LateStep ==
    \A r \in closed : /\ hnd'[r] = "commit" => hnd[r] = "commit"
                      /\ r \in ledger' => r \in ledger \/ hnd[r] = "commit"

TimedOutStopsBeforeCommit == [][LateStep]_vars

=============================================================================
