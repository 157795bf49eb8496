--------------------------- MODULE HostEventsProofs ---------------------------
(***************************************************************************)
(* What a host may conclude from an answer, for any requests in any order, *)
(* any number of failing writes, timeouts and deaths of the daemon.        *)
(***************************************************************************)
EXTENDS HostEvents, TLAPS

Unmoved(r) == r \notin ledger /\ r \notin moved

\* What a response says of its request is so.
Kept(r, response) ==
    /\ response.error = "" /\ "storage" \notin response.warnings =>
          /\ r \in ledger <=> Effective(r)
          /\ r \in moved <=> Effective(r) /\ Transitions(r)
    /\ response.error # "" /\ Event_(r) # "on-run" => Unmoved(r)

\* How far the effects of a request are, by the step of its handler.
HandlerOf(r) ==
    /\ host[r] = "idle" => hnd[r] = "absent" /\ Unmoved(r)
    /\ hnd[r] \in {"begin", "write"} => Unmoved(r)
    /\ ~Effective(r) => Unmoved(r)
    /\ ~Transitions(r) => r \notin moved
    /\ hnd[r] = "write" => Effective(r) /\ Transitions(r)
    /\ hnd[r] \in {"record", "commit"} => /\ Effective(r)
                                          /\ r \notin ledger
                                          /\ reply[r].error = ""
                                          /\ Transitions(r) => r \in moved
    /\ hnd[r] \in {"cancel", "returned"} => Kept(r, reply[r])

HandlerInv == \A r \in Requests : HandlerOf(r)

\* What the host has heard from a handler is so, and the handler is over.
HeardInv ==
    \A r \in Requests :
        Heard(r) => /\ Kept(r, answer[r])
                    /\ Event_(r) # "on-run" => hnd[r] \in {"absent", "done"}

\* A connection is closed only when the context has ended, and it stays so.
ClosedInv == \A r \in closed : ~Alive(r)

Blocks(r) == Event_(r) = "on-tool-before" /\ ValidateRequest(req[r]) /\ req[r].decision = "block"

\* A block of the guard arrives as one.
BlockInv ==
    \A r \in Requests :
        Blocks(r) => /\ hnd[r] \in {"record", "commit", "returned"} => reply[r].action = "block"
                     /\ Heard(r) => answer[r].action = "block"
                     /\ hnd[r] # "cancel"

\* The end of a tool call is reported after all answers about its start.
AfterInv ==
    \A a \in Requests, b \in Requests :
        Event_(a) = "on-tool-after" /\ host[a] # "idle" /\ Event_(b) = "on-tool-before" =>
            host[b] = "answered" /\ answer[b].action # "block"

Inv == TypeOK /\ HandlerInv /\ HeardInv /\ ClosedInv /\ BlockInv /\ AfterInv

-----------------------------------------------------------------------------
(* Responses and rows *)

\* The responses the code builds are responses.
LEMMA ResponseType ==
  /\ NoResponse \in Response
  /\ \A c \in ErrorClasses : ErrorResponse(c) \in Response
  /\ \A a \in {"none", "inject_prompt", "block", "warn"}, w \in SUBSET Warnings :
        OKResponse(a, w) \in Response
  BY DEF NoResponse, ErrorResponse, OKResponse, Response, ErrorClasses

\* The fallbacks of the commands are responses, and can be told from a handler's.
LEMMA FallbackType ==
  ASSUME NEW r \in Requests, NEW response \in Fallbacks(r)
  PROVE  /\ response \in Response
         /\ \/ "socket" \in response.warnings
            \/ response.error = "socket_unavailable"
            \/ Event_(r) = "on-run"
<1> USE DEF OKResponse, ErrorResponse, Response, ErrorClasses, Warnings
<1>1. CASE Event_(r) = "on-submit"
  <2>1. response \in {OKResponse("warn", {"socket", "route"}),
                      [ErrorResponse("invalid_config") EXCEPT !.warnings = {"socket"}]}
    BY <1>1 DEF Fallbacks
  <2>2. CASE response = OKResponse("warn", {"socket", "route"})
    BY <2>2
  <2>3. CASE response = [ErrorResponse("invalid_config") EXCEPT !.warnings = {"socket"}]
    BY <2>3
  <2> QED BY <2>1, <2>2, <2>3
<1>2. CASE Event_(r) = "on-tool-before"
  <2>1. response = OKResponse("warn", {"socket"})
    BY <1>2 DEF Fallbacks
  <2> QED BY <2>1
<1>3. CASE Event_(r) = "on-run"
  <2>1. response \in {OKResponse("none", {}), ErrorResponse("unknown")}
    BY <1>3 DEF Fallbacks
  <2>2. CASE response = OKResponse("none", {})
    BY <1>3, <2>2
  <2>3. CASE response = ErrorResponse("unknown")
    BY <1>3, <2>3
  <2> QED BY <2>1, <2>2, <2>3
<1>4. CASE Event_(r) \notin {"on-submit", "on-tool-before", "on-run"}
  <2>1. response = ErrorResponse("socket_unavailable")
    BY <1>4 DEF Fallbacks
  <2> QED BY <2>1
<1> QED BY <1>1, <1>2, <1>3, <1>4

\* The response to an event that was not recorded is a response.
LEMMA RejectedType ==
  ASSUME NEW r \in Requests, reply[r] \in Response
  PROVE  /\ RejectedReply(r) \in Response
         /\ "storage" \in RejectedReply(r).warnings
         /\ reply[r].error = "" => RejectedReply(r).error = ""
         /\ ~Transitions(r) => RejectedReply(r).action = reply[r].action
  BY DEF RejectedReply, OKResponse, Response, Warnings

\* The rows keep to the CHECK constraints of the schema.
LEMMA RowType ==
  ASSUME TypeOK, NEW r \in Requests
  PROVE  /\ Recorded(db, StorageEvent(r)).run \in RunStatuses \cup {"absent"}
         /\ Recorded(db, StorageEvent(r)).agent \in AgentStatuses \cup {"absent"}
<1>1. Target(r) \in {"cancelled", "blocked", "failed"}
  BY DEF Target
<1>2. StorageEvent(r).lifecycle \in {"", "cancelled", "blocked", "failed"}
  BY <1>1 DEF StorageEvent, Event
<1>3. ensureRun(db, StorageEvent(r)) \in RunStatuses \cup {"absent"}
  BY <1>2 DEF TypeOK, ensureRun, runStatus, runStatusOfType, RunStatuses
<1>4. ensureAgentSession(db, StorageEvent(r)) \in AgentStatuses \cup {"absent"}
  BY DEF TypeOK, ensureAgentSession, agentStatus, AgentStatuses
<1> QED BY <1>3, <1>4 DEF Recorded

\* The row of a tool call has the status its event carries.
LEMMA ToolType ==
  ASSUME TypeOK, NEW r \in Requests, Event_(r) \in {"on-tool-before", "on-tool-after"}
  PROVE  /\ toolStatus(StorageEvent(r)) \in {"started", "allowed", "blocked", "completed", "failed"}
         /\ Event_(r) = "on-tool-after" =>
              toolStatus(StorageEvent(r)) = IF req[r].failed THEN "failed" ELSE "completed"
  BY DEF toolStatus, StorageEvent, Event

-----------------------------------------------------------------------------
(* Types *)

\* What an answer may change.
LEMMA AnswerType ==
  ASSUME TypeOK, NEW r \in Requests, NEW response \in Response, Answer(r, response)
  PROVE  host' \in [Requests -> {"idle", "waiting", "answered"}] /\ answer' \in [Requests -> Response]
  BY DEF TypeOK, Answer

LEMMA DeliverType ==
  ASSUME TypeOK, NEW r \in Requests, NEW response \in Response, Deliver(r, response)
  PROVE  host' \in [Requests -> {"idle", "waiting", "answered"}] /\ answer' \in [Requests -> Response]
<1>1. CASE Answer(r, response) BY <1>1, AnswerType
<1>2. CASE UNCHANGED hostVars BY <1>2 DEF TypeOK, hostVars
<1> QED BY <1>1, <1>2 DEF Deliver

LEMMA ReplyType ==
  ASSUME TypeOK, NEW r \in Requests, NEW response \in Response,
         Reply(r, response) \/ BeginRecord(r, response)
  PROVE  hnd' \in [Requests -> Steps] /\ reply' \in [Requests -> Response]
  BY DEF TypeOK, Reply, BeginRecord, Goto, Steps

LEMMA FaultType ==
  ASSUME TypeOK, Fault
  PROVE  faults' \in 0 .. MaxFaults
  BY ConstantsAssumption DEF TypeOK, Fault

\* Every step keeps to the types.
LEMMA TypeKept == TypeOK /\ [Next]_vars => TypeOK'
<1> SUFFICES ASSUME TypeOK, [Next]_vars PROVE TypeOK' OBVIOUS
<1> USE DEF hostVars, daemonVars, fileVars, dbVars
<1>1. ASSUME NEW r \in Requests, Refuse(r) PROVE TypeOK'
  BY <1>1, AnswerType, ResponseType DEF Refuse, TypeOK, ErrorClasses
<1>2. ASSUME NEW r \in Requests, Send(r) PROVE TypeOK'
  BY <1>2 DEF Send, TypeOK, Goto, Steps
<1>3. ASSUME NEW r \in Requests, GiveUp(r) PROVE TypeOK'
  BY <1>3, AnswerType, FallbackType DEF GiveUp, TypeOK
<1>4. ASSUME NEW r \in Requests, ReadRequest(r) PROVE TypeOK'
  BY <1>4, DeliverType, ResponseType DEF ReadRequest, TypeOK, ErrorClasses, Goto, Steps
<1>5. ASSUME NEW r \in Requests, Cancel(r) PROVE TypeOK'
  BY <1>5 DEF Cancel, TypeOK, Goto, Steps
<1>6. ASSUME NEW r \in Requests, Respond(r) PROVE TypeOK'
  <2>1. reply[r] \in Response
    BY <1>6 DEF TypeOK
  <2> QED BY <1>6, <2>1, DeliverType DEF Respond, TypeOK, Goto, Steps
<1>7. ASSUME NEW r \in Requests, Expire(r) PROVE TypeOK'
  BY <1>7 DEF Expire, TypeOK
<1>8. ASSUME NEW r \in Requests, TimeOut(r) PROVE TypeOK'
  BY <1>8, DeliverType, ResponseType DEF TimeOut, TypeOK, ErrorClasses
<1>9. ASSUME NEW r \in Requests, HandleSubmit(r) PROVE TypeOK'
  <2>1. \A w \in {{}, {"route"}} : [ErrorResponse("invalid_config") EXCEPT !.warnings = w] \in Response
    BY DEF ErrorResponse, Response, Warnings, ErrorClasses
  <2>2. OKResponse("inject_prompt", {"route"}) \in Response
    BY ResponseType DEF Warnings
  <2> QED BY <1>9, <2>1, <2>2, ReplyType DEF HandleSubmit, TypeOK
<1>10. ASSUME NEW r \in Requests, HandleToolBefore(r) PROVE TypeOK'
  <2>1. GuardAction(r) \in {"none", "warn", "block"}
    BY <1>10, ConstantsAssumption DEF TypeOK, GuardAction, Request
  <2>2. OKResponse(GuardAction(r), IF GuardAction(r) = "warn" THEN {"guard"} ELSE {}) \in Response
    BY <2>1 DEF OKResponse, Response, Warnings
  <2> QED BY <1>10, <2>2, ReplyType DEF HandleToolBefore, TypeOK
<1>11. ASSUME NEW r \in Requests, HandleToolAfter(r) PROVE TypeOK'
  BY <1>11, ReplyType, ResponseType DEF HandleToolAfter, TypeOK
<1>12. ASSUME NEW r \in Requests, HandleCompact(r) PROVE TypeOK'
  BY <1>12, ReplyType, ResponseType DEF HandleCompact, TypeOK
<1>13. ASSUME NEW r \in Requests, HandleRun(r) PROVE TypeOK'
  BY <1>13, ReplyType, ResponseType DEF HandleRun, TypeOK, ErrorClasses
<1>14. ASSUME NEW r \in Requests, HandleStateTransition(r) PROVE TypeOK'
  <2>1. /\ hnd' \in [Requests -> Steps] /\ reply' \in [Requests -> Response]
    <3>1. CASE Reply(r, OKResponse("none", {})) BY <3>1, ReplyType, ResponseType
    <3>2. CASE Goto(r, "write") /\ UNCHANGED reply BY <3>2 DEF TypeOK, Goto, Steps
    <3>3. CASE Reply(r, ErrorResponse("unknown")) BY <3>3, ReplyType, ResponseType DEF ErrorClasses
    <3> QED BY <1>14, <3>1, <3>2, <3>3 DEF HandleStateTransition
  <2> QED BY <1>14, <2>1 DEF HandleStateTransition, TypeOK
<1>15. ASSUME NEW r \in Requests, WriteState(r) PROVE TypeOK'
  <2>1. Target(r) \in Lifecycle
    BY DEF Target, Lifecycle
  <2>2. hnd' \in [Requests -> Steps] /\ reply' \in [Requests -> Response]
    BY <1>15, ReplyType, ResponseType DEF WriteState, ErrorClasses
  <2>3. life' \in Lifecycle /\ moved' \subseteq Requests
    BY <1>15, <2>1 DEF WriteState, TypeOK
  <2>4. faults' \in 0 .. MaxFaults
    BY <1>15, FaultType DEF WriteState, TypeOK
  <2> QED BY <1>15, <2>2, <2>3, <2>4 DEF WriteState, TypeOK
<1>16. ASSUME NEW r \in Requests, Commit(r) PROVE TypeOK'
  <2>1. reply[r] \in Response
    BY DEF TypeOK
  <2>2. hnd' \in [Requests -> Steps] /\ reply' \in [Requests -> Response]
    BY <1>16, <2>1, ReplyType DEF Commit
  <2>3. db'.run \in RunStatuses \cup {"absent"} /\ db'.agent \in AgentStatuses \cup {"absent"}
    BY <1>16, RowType DEF Commit
  <2>4. tool' \in {"absent", "started", "allowed", "blocked", "completed", "failed"}
    BY <1>16, ToolType DEF Commit, TypeOK
  <2> QED BY <1>16, <2>2, <2>3, <2>4 DEF Commit, TypeOK
<1>22. ASSUME NEW r \in Requests, Execute(r) PROVE TypeOK'
  BY <1>22 DEF Execute, TypeOK, Goto, Steps
<1>17. ASSUME NEW r \in Requests, Reject(r) PROVE TypeOK'
  <2>1. reply[r] \in Response
    BY DEF TypeOK
  <2>2. hnd' \in [Requests -> Steps] /\ reply' \in [Requests -> Response]
    BY <1>17, <2>1, RejectedType, ReplyType DEF Reject
  <2>3. faults' \in 0 .. MaxFaults
    BY <1>17, FaultType DEF Reject, TypeOK
  <2> QED BY <1>17, <2>2, <2>3 DEF Reject, TypeOK
<1>18. CASE Interrupt
  BY <1>18 DEF Interrupt, TypeOK
<1>19. CASE Exit
  BY <1>19, ResponseType DEF Exit, TypeOK, Steps
<1>20. CASE RunEnds
  BY <1>20 DEF RunEnds, TypeOK, Lifecycle
<1>21. CASE Quiet \/ UNCHANGED vars
  BY <1>21 DEF Quiet, vars, TypeOK
<1> QED
  BY <1>1, <1>2, <1>3, <1>4, <1>5, <1>6, <1>7, <1>8, <1>9, <1>10, <1>11, <1>12, <1>13, <1>14,
     <1>15, <1>16, <1>17, <1>18, <1>19, <1>20, <1>21, <1>22 DEF Next, Handle

-----------------------------------------------------------------------------
(* Handlers and answers *)

\* What is so while an event is being recorded, ...
LEMMA Recording ==
  ASSUME Inv, NEW r \in Requests, hnd[r] \in {"record", "commit"}
  PROVE  /\ host[r] # "idle" /\ Effective(r) /\ r \notin ledger
         /\ reply[r].error = "" /\ reply[r] \in Response
         /\ r \in moved <=> Transitions(r)
<1>1. HandlerOf(r) /\ reply[r] \in Response
  BY DEF Inv, HandlerInv, TypeOK
<1> QED BY <1>1 DEF HandlerOf

\* ... and for a request that asks for nothing.
LEMMA Ineffective ==
  ASSUME Inv, NEW r \in Requests, ~Effective(r)
  PROVE  Unmoved(r) /\ hnd[r] \notin {"write", "record", "commit"}
<1>1. HandlerOf(r)
  BY DEF Inv, HandlerInv
<1> QED BY <1>1 DEF HandlerOf

\* The handlers keep to it.
LEMMA HandlerKept == Inv /\ [Next]_vars => HandlerInv'
<1> SUFFICES ASSUME Inv, [Next]_vars PROVE HandlerInv' OBVIOUS
<1> USE DEF hostVars, daemonVars, fileVars, dbVars, Inv, TypeOK, HandlerInv, HandlerOf, Kept, Unmoved, Effective, Transitions, Event_, Goto, Reply, BeginRecord, Begin
<1>1. ASSUME NEW q \in Requests, Refuse(q) PROVE HandlerInv'
  BY <1>1 DEF Refuse, Answer
<1>2. ASSUME NEW q \in Requests, Send(q) PROVE HandlerInv'
  <2> SUFFICES ASSUME NEW r \in Requests PROVE HandlerOf(r)' BY DEF HandlerInv
  <2>1. CASE r = q
    BY <1>2, <2>1 DEF Send
  <2>2. CASE r # q
    BY <1>2, <2>2 DEF Send
  <2> QED BY <2>1, <2>2
<1>3. ASSUME NEW q \in Requests, GiveUp(q) PROVE HandlerInv'
  BY <1>3 DEF GiveUp, Answer
<1>4. ASSUME NEW q \in Requests, ReadRequest(q) PROVE HandlerInv'
  BY <1>4 DEF ReadRequest, Deliver, Answer
<1>5. ASSUME NEW q \in Requests, Cancel(q) PROVE HandlerInv'
  BY <1>5 DEF Cancel
<1>6. ASSUME NEW q \in Requests, Respond(q) PROVE HandlerInv'
  BY <1>6 DEF Respond, Deliver, Answer
<1>7. ASSUME NEW q \in Requests, Expire(q) PROVE HandlerInv'
  BY <1>7 DEF Expire
<1>8. ASSUME NEW q \in Requests, TimeOut(q) PROVE HandlerInv'
  BY <1>8 DEF TimeOut, Deliver, Answer
<1>9. ASSUME NEW q \in Requests, HandleSubmit(q) PROVE HandlerInv'
  <2>1. CASE BeginRecord(q, OKResponse("inject_prompt", {"route"}))
    BY <1>9, <2>1 DEF HandleSubmit, OKResponse
  <2>2. ASSUME NEW w \in {{}, {"route"}},
               Reply(q, [ErrorResponse("invalid_config") EXCEPT !.warnings = w])
        PROVE  HandlerInv'
    <3> SUFFICES ASSUME NEW r \in Requests PROVE HandlerOf(r)' BY DEF HandlerInv
    <3>1. CASE r = q
      BY <1>9, <2>2, <3>1 DEF HandleSubmit, ErrorResponse
    <3>2. CASE r # q
      BY <1>9, <2>2, <3>2 DEF HandleSubmit, ErrorResponse
    <3> QED BY <3>1, <3>2
  <2> QED BY <1>9, <2>1, <2>2 DEF HandleSubmit
<1>10. ASSUME NEW q \in Requests, HandleToolBefore(q) PROVE HandlerInv'
  BY <1>10 DEF HandleToolBefore, OKResponse
<1>11. ASSUME NEW q \in Requests, HandleToolAfter(q) PROVE HandlerInv'
  BY <1>11 DEF HandleToolAfter, OKResponse
<1>12. ASSUME NEW q \in Requests, HandleCompact(q) PROVE HandlerInv'
  BY <1>12 DEF HandleCompact, OKResponse
<1>13. ASSUME NEW q \in Requests, HandleRun(q) PROVE HandlerInv'
  BY <1>13 DEF HandleRun, ErrorResponse
<1>14. ASSUME NEW q \in Requests, HandleStateTransition(q) PROVE HandlerInv'
  <2>1. CASE ~(req[q].project /\ req[q].session) /\ Reply(q, OKResponse("none", {}))
    BY <1>14, <2>1 DEF HandleStateTransition, OKResponse
  <2>2. CASE Goto(q, "write") /\ UNCHANGED reply
    BY <1>14, <2>2 DEF HandleStateTransition
  <2>3. CASE Reply(q, ErrorResponse("unknown"))
    <3> SUFFICES ASSUME NEW r \in Requests PROVE HandlerOf(r)' BY DEF HandlerInv
    <3>1. CASE r = q
      BY <1>14, <2>3, <3>1 DEF HandleStateTransition, ErrorResponse
    <3>2. CASE r # q
      BY <1>14, <2>3, <3>2 DEF HandleStateTransition
    <3> QED BY <3>1, <3>2
  <2> QED BY <1>14, <2>1, <2>2, <2>3 DEF HandleStateTransition
<1>15. ASSUME NEW q \in Requests, WriteState(q) PROVE HandlerInv'
  <2>1. CASE moved' = moved \cup {q} /\ BeginRecord(q, OKResponse("none", {}))
    BY <1>15, <2>1 DEF WriteState, OKResponse
  <2>2. CASE Reply(q, ErrorResponse("unknown")) /\ UNCHANGED fileVars
    BY <1>15, <2>2 DEF WriteState, ErrorResponse
  <2> QED BY <1>15, <2>1, <2>2 DEF WriteState
<1>16. ASSUME NEW q \in Requests, Commit(q) PROVE HandlerInv'
  <2> SUFFICES ASSUME NEW r \in Requests PROVE HandlerOf(r)' BY DEF HandlerInv
  <2>1. CASE r = q
    <3>1. /\ hnd[q] = "commit" /\ hnd'[q] \in {"cancel", "returned"} /\ reply'[q] = reply[q]
          /\ q \in ledger' /\ moved' = moved /\ req' = req /\ host' = host
      BY <1>16 DEF Commit
    <3>2. /\ host[q] # "idle" /\ Effective(q) /\ reply[q].error = ""
          /\ q \in moved <=> Transitions(q)
      BY <3>1, Recording
    <3>3. Effective(q)' /\ (Transitions(q)' <=> Transitions(q)) /\ Kept(q, reply[q])'
      BY <3>1, <3>2
    <3> QED BY <2>1, <3>1, <3>2, <3>3
  <2>2. CASE r # q
    BY <1>16, <2>2 DEF Commit
  <2> QED BY <2>1, <2>2
<1>22. ASSUME NEW q \in Requests, Execute(q) PROVE HandlerInv'
  BY <1>22 DEF Execute
<1>17. ASSUME NEW q \in Requests, Reject(q) PROVE HandlerInv'
  <2> SUFFICES ASSUME NEW r \in Requests PROVE HandlerOf(r)' BY DEF HandlerInv
  <2>1. CASE r = q
    <3>1. /\ hnd[q] \in {"record", "commit"} /\ hnd'[q] \in {"cancel", "returned"}
          /\ reply'[q] = RejectedReply(q)
          /\ ledger' = ledger /\ moved' = moved /\ req' = req /\ host' = host
      BY <1>17 DEF Reject
    <3>2. host[q] # "idle" /\ Effective(q) /\ reply[q].error = "" /\ reply[q] \in Response
      BY <3>1, Recording
    <3>3. reply'[q].error = "" /\ "storage" \in reply'[q].warnings
      BY <3>1, <3>2, RejectedType
    <3>4. Effective(q)' /\ (Transitions(q)' <=> Transitions(q)) /\ Kept(q, reply[q])'
      BY <3>1, <3>2, <3>3
    <3>5. ~Transitions(q) => q \notin moved
      OBVIOUS
    <3> QED BY <2>1, <3>1, <3>2, <3>4, <3>5
  <2>2. CASE r # q
    BY <1>17, RejectedType, <2>2 DEF Reject, Fault
  <2> QED BY <2>1, <2>2
<1>18. CASE Interrupt BY <1>18 DEF Interrupt
<1>19. CASE Exit BY <1>19 DEF Exit
<1>20. CASE RunEnds BY <1>20 DEF RunEnds
<1>21. CASE Quiet \/ UNCHANGED vars
  <2> SUFFICES ASSUME NEW r \in Requests PROVE HandlerOf(r)' BY DEF HandlerInv
  <2>1. HandlerOf(r)
    BY DEF Inv, HandlerInv
  <2> QED BY <1>21, <2>1 DEF Quiet, vars
<1> QED
  BY <1>1, <1>2, <1>3, <1>4, <1>5, <1>6, <1>7, <1>8, <1>9, <1>10, <1>11, <1>12, <1>13, <1>14,
     <1>15, <1>16, <1>17, <1>18, <1>19, <1>20, <1>21, <1>22 DEF Next, Handle

\* A context that has ended is not revived while its connection is remembered.
LEMMA ClosedKept == Inv /\ [Next]_vars => ClosedInv'
<1> SUFFICES ASSUME Inv, [Next]_vars PROVE ClosedInv' OBVIOUS
<1> USE DEF hostVars, daemonVars, fileVars, dbVars, Inv, TypeOK, ClosedInv, Alive
<1>1. ASSUME NEW q \in Requests, Refuse(q) PROVE ClosedInv'
  BY <1>1 DEF Refuse
<1>2. ASSUME NEW q \in Requests, Send(q) PROVE ClosedInv'
  BY <1>2 DEF Send
<1>3. ASSUME NEW q \in Requests, GiveUp(q) PROVE ClosedInv'
  BY <1>3 DEF GiveUp
<1>4. ASSUME NEW q \in Requests, ReadRequest(q) PROVE ClosedInv'
  BY <1>4 DEF ReadRequest
<1>5. ASSUME NEW q \in Requests, Cancel(q) PROVE ClosedInv'
  BY <1>5 DEF Cancel
<1>6. ASSUME NEW q \in Requests, Respond(q) PROVE ClosedInv'
  BY <1>6 DEF Respond
<1>7. ASSUME NEW q \in Requests, Expire(q) PROVE ClosedInv'
  BY <1>7 DEF Expire
<1>8. ASSUME NEW q \in Requests, TimeOut(q) PROVE ClosedInv'
  BY <1>8 DEF TimeOut, Handling
<1>9. ASSUME NEW q \in Requests, HandleSubmit(q) PROVE ClosedInv'
  BY <1>9 DEF HandleSubmit
<1>10. ASSUME NEW q \in Requests, HandleToolBefore(q) PROVE ClosedInv'
  BY <1>10 DEF HandleToolBefore
<1>11. ASSUME NEW q \in Requests, HandleToolAfter(q) PROVE ClosedInv'
  BY <1>11 DEF HandleToolAfter
<1>12. ASSUME NEW q \in Requests, HandleCompact(q) PROVE ClosedInv'
  BY <1>12 DEF HandleCompact
<1>13. ASSUME NEW q \in Requests, HandleRun(q) PROVE ClosedInv'
  BY <1>13 DEF HandleRun
<1>14. ASSUME NEW q \in Requests, HandleStateTransition(q) PROVE ClosedInv'
  BY <1>14 DEF HandleStateTransition
<1>15. ASSUME NEW q \in Requests, WriteState(q) PROVE ClosedInv'
  BY <1>15 DEF WriteState, Fault
<1>16. ASSUME NEW q \in Requests, Commit(q) PROVE ClosedInv'
  BY <1>16 DEF Commit
<1>22. ASSUME NEW q \in Requests, Execute(q) PROVE ClosedInv'
  BY <1>22 DEF Execute
<1>17. ASSUME NEW q \in Requests, Reject(q) PROVE ClosedInv'
  BY <1>17 DEF Reject, Fault
<1>18. CASE Interrupt BY <1>18 DEF Interrupt
<1>19. CASE Exit BY <1>19 DEF Exit
<1>20. CASE RunEnds BY <1>20 DEF RunEnds
<1>21. CASE Quiet \/ UNCHANGED vars BY <1>21 DEF Quiet, vars
<1> QED
  BY <1>1, <1>2, <1>3, <1>4, <1>5, <1>6, <1>7, <1>8, <1>9, <1>10, <1>11, <1>12, <1>13, <1>14,
     <1>15, <1>16, <1>17, <1>18, <1>19, <1>20, <1>21, <1>22 DEF Next, Handle

\* How the host's view of a request changes: it sends it, a refusal, an answer of
\* its handler, or an answer that is none of the handler's.
Unchanged(r) == host'[r] = host[r] /\ answer'[r] = answer[r]

Sent(r) == host[r] = "idle" /\ host'[r] = "waiting" /\ answer'[r] = answer[r] /\ MaySend(r)

Refused(r) ==
    /\ answer'[r] = ErrorResponse("invalid_config") /\ ~ValidateRequest(req[r])
    /\ \/ host[r] = "idle" /\ hnd'[r] = hnd[r]
       \/ hnd[r] = "begin" /\ hnd'[r] = "done"

Told(r) == hnd[r] = "returned" /\ hnd'[r] = "done" /\ answer'[r] = reply[r]

Unheard(r) ==
    \/ "socket" \in answer'[r].warnings
    \/ answer'[r].error \in {"timeout", "socket_unavailable"}
    \/ Event_(r) = "on-run"

HostStep(r) ==
    \/ Unchanged(r)
    \/ Sent(r)
    \/ /\ host[r] = "waiting" \/ (host[r] = "idle" /\ Event_(r) # "on-tool-after")
       /\ host'[r] = "answered"
       /\ Refused(r) \/ Told(r) \/ Unheard(r)

\* Every step changes the host's view in one of these ways.
LEMMA HostSteps ==
  ASSUME Inv, [Next]_vars, NEW r \in Requests
  PROVE  HostStep(r)
<1> USE DEF HostStep, hostVars
<1>0. /\ host \in [Requests -> {"idle", "waiting", "answered"}]
      /\ answer \in [Requests -> Response]
      /\ hnd \in [Requests -> Steps]
  BY DEF Inv, TypeOK
<1>1. ASSUME NEW q \in Requests, Refuse(q) PROVE HostStep(r)
  BY <1>1, <1>0 DEF Refuse, Answer, Unchanged, Refused
<1>2. ASSUME NEW q \in Requests, Send(q) PROVE HostStep(r)
  BY <1>2, <1>0 DEF Send, Sent, Unchanged
<1>3. ASSUME NEW q \in Requests, GiveUp(q) PROVE HostStep(r)
  BY <1>3, <1>0, FallbackType DEF GiveUp, Answer, Unchanged, Unheard
<1>4. ASSUME NEW q \in Requests, ReadRequest(q) PROVE HostStep(r)
  BY <1>4, <1>0 DEF ReadRequest, Deliver, Answer, Goto, Unchanged, Refused
<1>5. ASSUME NEW q \in Requests, Cancel(q) PROVE HostStep(r)
  BY <1>5, <1>0 DEF Cancel, Unchanged
<1>6. ASSUME NEW q \in Requests, Respond(q) PROVE HostStep(r)
  BY <1>6, <1>0 DEF Respond, Deliver, Answer, Goto, Unchanged, Told
<1>7. ASSUME NEW q \in Requests, Expire(q) PROVE HostStep(r)
  BY <1>7, <1>0 DEF Expire, Unchanged
<1>8. ASSUME NEW q \in Requests, TimeOut(q) PROVE HostStep(r)
  BY <1>8, <1>0 DEF TimeOut, Deliver, Answer, ErrorResponse, Unchanged, Unheard
<1>9. ASSUME NEW q \in Requests, HandleSubmit(q) PROVE HostStep(r)
  BY <1>9, <1>0 DEF HandleSubmit, Unchanged
<1>10. ASSUME NEW q \in Requests, HandleToolBefore(q) PROVE HostStep(r)
  BY <1>10, <1>0 DEF HandleToolBefore, Unchanged
<1>11. ASSUME NEW q \in Requests, HandleToolAfter(q) PROVE HostStep(r)
  BY <1>11, <1>0 DEF HandleToolAfter, Unchanged
<1>12. ASSUME NEW q \in Requests, HandleCompact(q) PROVE HostStep(r)
  BY <1>12, <1>0 DEF HandleCompact, Unchanged
<1>13. ASSUME NEW q \in Requests, HandleRun(q) PROVE HostStep(r)
  BY <1>13, <1>0 DEF HandleRun, Unchanged
<1>14. ASSUME NEW q \in Requests, HandleStateTransition(q) PROVE HostStep(r)
  BY <1>14, <1>0 DEF HandleStateTransition, Unchanged
<1>15. ASSUME NEW q \in Requests, WriteState(q) PROVE HostStep(r)
  BY <1>15, <1>0 DEF WriteState, Unchanged
<1>16. ASSUME NEW q \in Requests, Commit(q) PROVE HostStep(r)
  BY <1>16, <1>0 DEF Commit, Unchanged
<1>22. ASSUME NEW q \in Requests, Execute(q) PROVE HostStep(r)
  BY <1>22, <1>0 DEF Execute, Unchanged
<1>17. ASSUME NEW q \in Requests, Reject(q) PROVE HostStep(r)
  BY <1>17, <1>0 DEF Reject, Unchanged
<1>18. CASE Interrupt BY <1>18, <1>0 DEF Interrupt, Unchanged
<1>19. CASE Exit BY <1>19, <1>0 DEF Exit, Unchanged
<1>20. CASE RunEnds BY <1>20, <1>0 DEF RunEnds, Unchanged
<1>21. CASE Quiet \/ UNCHANGED vars BY <1>21, <1>0 DEF Quiet, vars, Unchanged
<1> QED
  BY <1>1, <1>2, <1>3, <1>4, <1>5, <1>6, <1>7, <1>8, <1>9, <1>10, <1>11, <1>12, <1>13, <1>14,
     <1>15, <1>16, <1>17, <1>18, <1>19, <1>20, <1>21, <1>22 DEF Next, Handle

Resting(r) == hnd[r] \in {"absent", "done"} /\ host[r] # "idle"

EffectStep(r) ==
    /\ req' = req
    /\ hnd[r] # "commit" => (r \in ledger' <=> r \in ledger)
    /\ hnd[r] # "write" => (r \in moved' <=> r \in moved)
    /\ Resting(r) => hnd'[r] \in {"absent", "done"}

\* The requests stay what they are, only two steps of a handler leave something
\* behind, and a request whose handler is over, or has died, stays at rest.
LEMMA EffectSteps ==
  ASSUME Inv, [Next]_vars, NEW r \in Requests
  PROVE  EffectStep(r)
<1> USE DEF EffectStep, Resting, hostVars, daemonVars, fileVars, dbVars, Goto, Reply, BeginRecord, Begin
<1>0. hnd \in [Requests -> Steps]
  BY DEF Inv, TypeOK
<1>1. ASSUME NEW q \in Requests, Refuse(q) PROVE EffectStep(r)
  BY <1>1, <1>0 DEF Refuse
<1>2. ASSUME NEW q \in Requests, Send(q) PROVE EffectStep(r)
  BY <1>2, <1>0 DEF Send
<1>3. ASSUME NEW q \in Requests, GiveUp(q) PROVE EffectStep(r)
  BY <1>3, <1>0 DEF GiveUp
<1>4. ASSUME NEW q \in Requests, ReadRequest(q) PROVE EffectStep(r)
  BY <1>4, <1>0 DEF ReadRequest
<1>5. ASSUME NEW q \in Requests, Cancel(q) PROVE EffectStep(r)
  BY <1>5, <1>0 DEF Cancel
<1>6. ASSUME NEW q \in Requests, Respond(q) PROVE EffectStep(r)
  BY <1>6, <1>0 DEF Respond
<1>7. ASSUME NEW q \in Requests, Expire(q) PROVE EffectStep(r)
  BY <1>7, <1>0 DEF Expire
<1>8. ASSUME NEW q \in Requests, TimeOut(q) PROVE EffectStep(r)
  BY <1>8, <1>0 DEF TimeOut
<1>9. ASSUME NEW q \in Requests, HandleSubmit(q) PROVE EffectStep(r)
  BY <1>9, <1>0 DEF HandleSubmit
<1>10. ASSUME NEW q \in Requests, HandleToolBefore(q) PROVE EffectStep(r)
  BY <1>10, <1>0 DEF HandleToolBefore
<1>11. ASSUME NEW q \in Requests, HandleToolAfter(q) PROVE EffectStep(r)
  BY <1>11, <1>0 DEF HandleToolAfter
<1>12. ASSUME NEW q \in Requests, HandleCompact(q) PROVE EffectStep(r)
  BY <1>12, <1>0 DEF HandleCompact
<1>13. ASSUME NEW q \in Requests, HandleRun(q) PROVE EffectStep(r)
  BY <1>13, <1>0 DEF HandleRun
<1>14. ASSUME NEW q \in Requests, HandleStateTransition(q) PROVE EffectStep(r)
  BY <1>14, <1>0 DEF HandleStateTransition
<1>15. ASSUME NEW q \in Requests, WriteState(q) PROVE EffectStep(r)
  BY <1>15, <1>0 DEF WriteState
<1>16. ASSUME NEW q \in Requests, Commit(q) PROVE EffectStep(r)
  BY <1>16, <1>0 DEF Commit
<1>22. ASSUME NEW q \in Requests, Execute(q) PROVE EffectStep(r)
  BY <1>22, <1>0 DEF Execute
<1>17. ASSUME NEW q \in Requests, Reject(q) PROVE EffectStep(r)
  BY <1>17, <1>0 DEF Reject
<1>18. CASE Interrupt BY <1>18, <1>0 DEF Interrupt
<1>19. CASE Exit BY <1>19, <1>0 DEF Exit
<1>20. CASE RunEnds BY <1>20, <1>0 DEF RunEnds
<1>21. CASE Quiet \/ UNCHANGED vars BY <1>21, <1>0 DEF Quiet, vars
<1> QED
  BY <1>1, <1>2, <1>3, <1>4, <1>5, <1>6, <1>7, <1>8, <1>9, <1>10, <1>11, <1>12, <1>13, <1>14,
     <1>15, <1>16, <1>17, <1>18, <1>19, <1>20, <1>21, <1>22 DEF Next, Handle

\* What the host has heard stays so.
LEMMA HeardKept == Inv /\ [Next]_vars => HeardInv'
<1> SUFFICES ASSUME Inv, [Next]_vars, NEW r \in Requests, Heard(r)'
             PROVE  /\ Kept(r, answer[r])'
                    /\ (Event_(r) # "on-run")' => (hnd[r] \in {"absent", "done"})'
  BY DEF HeardInv
<1>1. HostStep(r) /\ EffectStep(r)
  BY HostSteps, EffectSteps
<1>2. req' = req
  BY <1>1 DEF EffectStep
<1>3. host'[r] = "answered" /\ "socket" \notin answer'[r].warnings
      /\ answer'[r].error \notin {"timeout", "socket_unavailable"}
  BY DEF Heard, Answered
<1>4. CASE Event_(r) = "on-run"
  <2>1. Unmoved(r) /\ ~Effective(r) /\ hnd[r] \notin {"write", "commit"}
    <3>1. ~Effective(r)
      BY <1>4 DEF Effective, Transitions
    <3> QED BY <3>1, Ineffective
  <2>2. r \notin ledger' /\ r \notin moved'
    BY <1>1, <2>1 DEF EffectStep, Unmoved
  <2>3. ~Effective(r)' /\ Unmoved(r)' /\ (Event_(r) = "on-run")'
    BY <1>2, <1>4, <2>1, <2>2 DEF Unmoved, Effective, Transitions, Event_
  <2> QED BY <2>3 DEF Kept, Unmoved
<1>5. CASE Event_(r) # "on-run" /\ Unchanged(r)
  <2>1. Heard(r)
    BY <1>3, <1>5 DEF Heard, Answered, Unchanged
  <2>2. Kept(r, answer[r]) /\ hnd[r] \in {"absent", "done"} /\ host[r] = "answered"
    BY <2>1, <1>5 DEF Inv, HeardInv, Heard, Answered
  <2> QED BY <1>1, <1>2, <1>5, <2>2 DEF EffectStep, Resting, Unchanged, Kept, Unmoved, Effective, Transitions, Event_
<1>6. CASE Refused(r)
  <2>1. Unmoved(r) /\ hnd[r] \in {"absent", "begin"} /\ hnd'[r] \in {"absent", "done"}
    BY <1>6 DEF Refused, Inv, HandlerInv, HandlerOf
  <2>2. answer'[r].error = "invalid_config"
    BY <1>6 DEF Refused, ErrorResponse
  <2> QED BY <1>1, <2>1, <2>2 DEF EffectStep, Kept, Unmoved
<1>7. CASE Told(r)
  <2>1. Kept(r, reply[r])
    BY <1>7 DEF Told, Inv, HandlerInv, HandlerOf
  <2> QED BY <1>1, <1>2, <1>7, <2>1 DEF EffectStep, Told, Kept, Unmoved, Effective, Transitions, Event_
<1> QED BY <1>1, <1>3, <1>4, <1>5, <1>6, <1>7 DEF HostStep, Sent, Unheard

-----------------------------------------------------------------------------
(* Tool calls *)

\* The end of a call is not reported before its start is answered.
LEMMA AfterKept == Inv /\ [Next]_vars => AfterInv'
<1> SUFFICES ASSUME Inv, [Next]_vars, NEW a \in Requests, NEW b \in Requests,
                    (Event_(a) = "on-tool-after")', (host[a] # "idle")', (Event_(b) = "on-tool-before")'
             PROVE  (host[b] = "answered" /\ answer[b].action # "block")'
  BY DEF AfterInv
<1>1. HostStep(a) /\ HostStep(b) /\ req' = req
  BY HostSteps, EffectSteps DEF EffectStep
<1>2. Event_(a) = "on-tool-after" /\ Event_(b) = "on-tool-before" /\ host'[a] # "idle"
  BY <1>1 DEF Event_
<1>3. host[a] # "idle" \/ (host[b] = "answered" /\ answer[b].action # "block")
  BY <1>1, <1>2 DEF HostStep, Unchanged, Sent, MaySend, Befores
<1>4. host[b] = "answered" /\ answer[b].action # "block"
  BY <1>2, <1>3 DEF Inv, AfterInv
<1> QED BY <1>1, <1>4 DEF HostStep, Unchanged, Sent

\* How the handler of a blocked call may go on.
BlockReply(r) ==
    Blocks(r) => /\ hnd[r] \in {"record", "commit", "returned"} => reply[r].action = "block"
                 /\ hnd[r] \notin {"write", "cancel"}

\* From the guard's decision to the end of the handler, the reply is a block.
LEMMA BlockReplyKept ==
  ASSUME Inv, [Next]_vars, NEW r \in Requests
  PROVE  BlockReply(r)'
<1> SUFFICES ASSUME Blocks(r)
             PROVE  /\ hnd'[r] \in {"record", "commit", "returned"} => reply'[r].action = "block"
                    /\ hnd'[r] \notin {"write", "cancel"}
  BY EffectSteps DEF BlockReply, Blocks, EffectStep, Event_
<1> DEFINE G == /\ hnd'[r] \in {"record", "commit", "returned"} => reply'[r].action = "block"
                /\ hnd'[r] \notin {"write", "cancel"}
<1> USE DEF Goto, Reply, BeginRecord, Begin
<1>0. /\ hnd \in [Requests -> Steps] /\ reply \in [Requests -> Response]
      /\ hnd[r] \in {"record", "commit", "returned"} => reply[r].action = "block"
      /\ hnd[r] \notin {"write", "cancel"}
      /\ Event_(r) = "on-tool-before" /\ req[r].event = "on-tool-before"
      /\ ValidateRequest(req[r]) /\ req[r].decision = "block"
  BY DEF Inv, TypeOK, BlockInv, HandlerInv, HandlerOf, Blocks, Transitions, Event_
<1>1. ASSUME NEW q \in Requests, Refuse(q) PROVE G
  BY <1>1, <1>0 DEF Refuse
<1>2. ASSUME NEW q \in Requests, Send(q) PROVE G
  BY <1>2, <1>0 DEF Send
<1>3. ASSUME NEW q \in Requests, GiveUp(q) PROVE G
  BY <1>3, <1>0 DEF GiveUp
<1>4. ASSUME NEW q \in Requests, ReadRequest(q) PROVE G
  BY <1>4, <1>0 DEF ReadRequest
<1>5. ASSUME NEW q \in Requests, Cancel(q) PROVE G
  BY <1>5, <1>0 DEF Cancel
<1>6. ASSUME NEW q \in Requests, Respond(q) PROVE G
  BY <1>6, <1>0 DEF Respond
<1>7. ASSUME NEW q \in Requests, Expire(q) PROVE G
  BY <1>7, <1>0 DEF Expire
<1>8. ASSUME NEW q \in Requests, TimeOut(q) PROVE G
  BY <1>8, <1>0 DEF TimeOut
<1>9. ASSUME NEW q \in Requests, HandleSubmit(q) PROVE G
  BY <1>9, <1>0 DEF HandleSubmit
<1>10. ASSUME NEW q \in Requests, HandleToolBefore(q) PROVE G
  BY <1>10, <1>0 DEF HandleToolBefore, GuardAction, OKResponse
<1>11. ASSUME NEW q \in Requests, HandleToolAfter(q) PROVE G
  BY <1>11, <1>0 DEF HandleToolAfter
<1>12. ASSUME NEW q \in Requests, HandleCompact(q) PROVE G
  BY <1>12, <1>0 DEF HandleCompact
<1>13. ASSUME NEW q \in Requests, HandleRun(q) PROVE G
  BY <1>13, <1>0 DEF HandleRun
<1>14. ASSUME NEW q \in Requests, HandleStateTransition(q) PROVE G
  BY <1>14, <1>0 DEF HandleStateTransition, OKResponse, ErrorResponse
<1>15. ASSUME NEW q \in Requests, WriteState(q) PROVE G
  BY <1>15, <1>0 DEF WriteState
<1>16. ASSUME NEW q \in Requests, Commit(q) PROVE G
  BY <1>16, <1>0 DEF Commit
<1>22. ASSUME NEW q \in Requests, Execute(q) PROVE G
  BY <1>22, <1>0 DEF Execute
<1>17. ASSUME NEW q \in Requests, Reject(q) PROVE G
  <2>1. q = r => RejectedReply(r).action = reply[r].action
    BY <1>0, RejectedType DEF Transitions
  <2> QED BY <1>17, <1>0, <2>1 DEF Reject
<1>18. CASE Interrupt BY <1>18, <1>0 DEF Interrupt
<1>19. CASE Exit BY <1>19, <1>0 DEF Exit
<1>20. CASE RunEnds BY <1>20, <1>0 DEF RunEnds
<1>21. CASE Quiet \/ UNCHANGED vars BY <1>21, <1>0 DEF Quiet, vars
<1> QED
  BY <1>1, <1>2, <1>3, <1>4, <1>5, <1>6, <1>7, <1>8, <1>9, <1>10, <1>11, <1>12, <1>13, <1>14,
     <1>15, <1>16, <1>17, <1>18, <1>19, <1>20, <1>21, <1>22 DEF Next, Handle

\* A block of the guard arrives as one, or not at all.
LEMMA BlockKept == Inv /\ [Next]_vars => BlockInv'
<1> SUFFICES ASSUME Inv, [Next]_vars, NEW r \in Requests, Blocks(r)'
             PROVE  /\ (hnd[r] \in {"record", "commit", "returned"} => reply[r].action = "block")'
                    /\ (Heard(r) => answer[r].action = "block")'
                    /\ (hnd[r] # "cancel")'
  BY DEF BlockInv
<1>1. HostStep(r) /\ EffectStep(r) /\ BlockReply(r)'
  BY HostSteps, EffectSteps, BlockReplyKept
<1>2. Blocks(r)
  BY <1>1 DEF EffectStep, Blocks, Event_
<1>3. ASSUME Heard(r)' PROVE answer'[r].action = "block"
  <2>1. Event_(r) = "on-tool-before" /\ ValidateRequest(req[r])
    BY <1>2 DEF Blocks
  <2>2. CASE Unchanged(r)
    BY <1>2, <1>3, <2>2 DEF Unchanged, Heard, Answered, Inv, BlockInv
  <2>3. CASE Told(r)
    BY <1>2, <2>3 DEF Told, Inv, BlockInv
  <2> QED BY <1>1, <1>3, <2>1, <2>2, <2>3 DEF HostStep, Sent, Refused, Unheard, Heard, Answered
<1> QED BY <1>1, <1>3 DEF BlockReply

-----------------------------------------------------------------------------
(* The theorems *)

\* The initial states satisfy the invariant.
LEMMA InitInv == Init => Inv
<1> SUFFICES ASSUME Init PROVE Inv OBVIOUS
<1>1. TypeOK
  <2>1. answer \in [Requests -> Response] /\ reply \in [Requests -> Response]
    BY ResponseType DEF Init
  <2>2. 0 \in 0 .. MaxFaults
    BY ConstantsAssumption
  <2> QED BY <2>1, <2>2 DEF Init, TypeOK, Steps, Lifecycle, NoRows
<1>2. HandlerInv /\ HeardInv /\ ClosedInv /\ BlockInv /\ AfterInv
  BY DEF Init, HandlerInv, HandlerOf, HeardInv, ClosedInv, BlockInv, AfterInv, Unmoved, Heard, Answered
<1> QED BY <1>1, <1>2 DEF Inv

\* The invariant holds always.
THEOREM HostInvariant == Spec => []Inv
<1>1. Inv /\ [Next]_vars => Inv'
  BY TypeKept, HandlerKept, HeardKept, ClosedKept, BlockKept, AfterKept DEF Inv
<1> QED BY InitInv, <1>1, PTL DEF Spec

\* Every value keeps to its type: the responses are those of the protocol, the
\* rows satisfy the CHECK constraints of the schema (protocol.go, schema of
\* storage.go).
THEOREM HostTypeCorrect == Spec => []TypeOK
<1>1. Inv => TypeOK BY DEF Inv
<1> QED BY HostInvariant, <1>1, PTL

\* A clean answer can be relied on, whatever else the daemon does at the same
\* time and whenever it dies: what the request asked for has happened, and one
\* that names no project or no session has left nothing behind.
THEOREM CleanAnswerAlwaysHolds == Spec => []CleanAnswerHolds
<1>1. Inv => CleanAnswerHolds
  BY DEF Inv, HeardInv, Kept, CleanAnswerHolds
<1> QED BY HostInvariant, <1>1, PTL

\* A request that was answered with an error may be sent again.
THEOREM ErrorAlwaysLeavesNothing == Spec => []ErrorLeavesNothing
<1>1. Inv => ErrorLeavesNothing
  BY DEF Inv, HeardInv, Kept, Unmoved, ErrorLeavesNothing
<1> QED BY HostInvariant, <1>1, PTL

\* Only a host that has not heard from the guard runs a tool it blocks.
THEOREM BlockedAlwaysUnheard == Spec => []BlockedRunsOnlyUnheard
<1>1. Inv => BlockedRunsOnlyUnheard
  BY DEF Inv, AfterInv, BlockInv, Blocks, BlockedRunsOnlyUnheard, Befores
<1> QED BY HostInvariant, <1>1, PTL

\* A handler whose context has ended gets no further than its transaction.
LEMMA LateStops ==
  ASSUME Inv, [Next]_vars, NEW r \in closed
  PROVE  /\ hnd'[r] = "commit" => hnd[r] = "commit"
         /\ r \in ledger' => r \in ledger \/ hnd[r] = "commit"
<1>1. ~Alive(r) /\ r \in Requests /\ hnd \in [Requests -> Steps]
  BY DEF Inv, TypeOK, ClosedInv
<1>2. r \in ledger' => r \in ledger \/ hnd[r] = "commit"
  BY <1>1, EffectSteps DEF EffectStep
<1>3. ASSUME NEW q \in Requests, Execute(q) PROVE hnd'[r] = "commit" => hnd[r] = "commit"
  BY <1>1, <1>3 DEF Execute, Goto
<1>4. hnd'[r] = "commit" => hnd[r] = "commit"
  BY <1>1, <1>3 DEF Next, Handle, vars, Refuse, Send, GiveUp, ReadRequest, Cancel, Respond, Expire,
     TimeOut, HandleSubmit, HandleToolBefore, HandleToolAfter, HandleCompact, HandleRun,
     HandleStateTransition, WriteState, Commit, Reject, Interrupt, Exit, RunEnds, Quiet,
     Goto, Reply, BeginRecord
<1> QED BY <1>2, <1>4

\* After a timeout only a COMMIT that had been reached can record the event.
THEOREM TimedOutAlwaysStopsBeforeCommit == Spec => TimedOutStopsBeforeCommit
<1>1. Inv /\ [Next]_vars => [LateStep]_vars
  BY LateStops DEF LateStep
<1> QED BY HostInvariant, <1>1, PTL DEF Spec, TimedOutStopsBeforeCommit

\* A recorded end of the tool call was sent after every answer about its start,
\* and those answers do not change.
LEMMA AnswersSettled ==
  ASSUME Inv, [Next]_vars, NEW a \in Requests, Event_(a) = "on-tool-after", host[a] # "idle",
         (\A b \in Befores : Heard(b))'
  PROVE  \A b \in Befores : Heard(b) /\ hnd[b] \in {"absent", "done"}
<1> SUFFICES ASSUME NEW b \in Befores PROVE Heard(b) /\ hnd[b] \in {"absent", "done"}
  OBVIOUS
<1>1. b \in Requests /\ Event_(b) = "on-tool-before"
  BY DEF Befores
<1>2. HostStep(b) /\ EffectStep(b)
  BY <1>1, HostSteps, EffectSteps
<1>3. Heard(b)'
  BY <1>2 DEF EffectStep, Befores, Event_
<1>4. host[b] = "answered"
  BY <1>1 DEF Inv, AfterInv
<1>5. Heard(b)
  BY <1>2, <1>3, <1>4 DEF HostStep, Unchanged, Sent, Heard, Answered
<1> QED BY <1>1, <1>5 DEF Inv, HeardInv

\* Only the end of a tool call can be recorded over its end.
LEMMA SettledKept == Inv /\ SettledToolStays /\ [Next]_vars => SettledToolStays'
<1> SUFFICES ASSUME Inv, SettledToolStays, [Next]_vars, NEW a \in Requests,
                    (Event_(a) = "on-tool-after")', a \in ledger', (\A b \in Befores : Heard(b))'
             PROVE  tool' = IF req'[a].failed THEN "failed" ELSE "completed"
  BY DEF SettledToolStays
<1>1. EffectStep(a) /\ req' = req
  BY EffectSteps DEF EffectStep
<1>2. Event_(a) = "on-tool-after"
  BY <1>1 DEF Event_
<1>3. host[a] # "idle"
  BY <1>1 DEF EffectStep, Inv, HandlerInv, HandlerOf, Unmoved
<1>4. \A b \in Befores : Heard(b) /\ hnd[b] \in {"absent", "done"}
  BY <1>2, <1>3, AnswersSettled
<1>5. ASSUME NEW q \in Requests, Commit(q)
      PROVE  tool' = IF req[a].failed THEN "failed" ELSE "completed"
  <2>1. CASE Event_(q) = "on-tool-before"
    BY <1>4, <1>5, <2>1 DEF Commit, Befores
  <2>2. CASE Event_(q) = "on-tool-after"
    <3>1. q = a
      BY <1>2, <2>2, OneEndAssumption DEF Event_, Inv, TypeOK
    <3>2. tool' = toolStatus(StorageEvent(q))
      BY <1>5, <2>2 DEF Commit
    <3> QED BY <2>2, <3>1, <3>2, ToolType DEF Inv
  <2>3. CASE Event_(q) \notin {"on-tool-before", "on-tool-after"}
    <3>1. tool' = tool /\ q # a
      BY <1>2, <1>5, <2>3 DEF Commit
    <3>2. a \in ledger
      BY <1>5, <3>1 DEF Commit
    <3> QED BY <1>2, <1>4, <3>1, <3>2 DEF SettledToolStays
  <2> QED BY <2>1, <2>2, <2>3
<1>6. CASE UNCHANGED <<tool, ledger>>
  BY <1>1, <1>2, <1>4, <1>6 DEF SettledToolStays
<1> QED
  BY <1>1, <1>5, <1>6 DEF Next, Handle, vars, dbVars, Refuse, Send, GiveUp, ReadRequest, Cancel, Respond,
     Expire, TimeOut, HandleSubmit, HandleToolBefore, HandleToolAfter, HandleCompact, HandleRun,
     HandleStateTransition, WriteState, Execute, Reject, Interrupt, Exit, RunEnds, Quiet

\* The recorded end of a tool call is final for a host that waits for its
\* answers.
THEOREM SettledToolAlwaysStays == Spec => []SettledToolStays
<1>1. Init => SettledToolStays
  BY DEF Init, SettledToolStays
<1> QED BY HostInvariant, <1>1, SettledKept, PTL DEF Spec

=============================================================================
