-------------------------------- MODULE Daemon --------------------------------
(***************************************************************************)
(* The daemon of internal/daemon/daemon.go, as `omg daemon start' runs it, *)
(* and the clients of cmd/omg/main.go.                                     *)
(*                                                                         *)
(* Any number of daemons may be started on the one lock file and the one   *)
(* socket path.  Every system call on a file, every goroutine's step and   *)
(* every client's step is an action, so that a start, a stop, a crash and  *)
(* requests in flight interleave freely.  A file is known by the daemon    *)
(* that made it; the operating system removes nothing by itself, so a      *)
(* crashed daemon leaves its files behind.                                 *)
(*                                                                         *)
(* Nobody but the daemons touches the two files: the module does not cover *)
(* a cleaner of the temporary directory.                                   *)
(***************************************************************************)
EXTENDS Naturals

CONSTANTS
    Daemons,    \* processes started with `omg daemon start'
    Requests,   \* requests of clients, each made once
    Stops,      \* the requests that carry on-stop
    Invalid,    \* the requests that may arrive garbled
    None,       \* no file, no daemon
    Faults      \* daemons may crash, and the removal of the lock may fail

ASSUME ConstantsAssumption ==
    /\ Stops \subseteq Requests
    /\ Invalid \subseteq Requests
    /\ None \notin Daemons
    /\ Faults \in BOOLEAN

VARIABLES
    pc,        \* where a daemon is in Start, serve and Close
    stopping,  \* the daemon's stopCtx is cancelled
    lock,      \* the lock file: None, or the daemon that created it
    sock,      \* the socket file: None, or the daemon that bound it
    client,    \* "idle", "dialled", "sent", "done"
    result,    \* what RoundTrip returned
    conn,      \* a connection: "none", "queued", "reading", "handling", "closed"
    srv,       \* the daemon the connection was made to
    reply,     \* what was written to the connection
    hnd,       \* the handler: "none", "running", "applied", "returned", "killed"
    took       \* the requests whose handler took effect

daemonVars == <<pc, stopping, lock, sock>>
clientVars == <<client, result>>
connVars == <<conn, srv, reply, hnd, took>>
vars == <<daemonVars, clientVars, connVars>>

\* Between OpenFile and the removal of the lock file.
Holding == {"locked", "clean", "serving", "unlistened", "unlinked"}

TypeOK ==
    /\ pc \in [Daemons -> {"down", "refused", "closed"} \cup Holding]
    /\ stopping \in [Daemons -> BOOLEAN]
    /\ lock \in Daemons \cup {None}
    /\ sock \in Daemons \cup {None}
    /\ client \in [Requests -> {"idle", "dialled", "sent", "done"}]
    /\ result \in [Requests -> {"none", "ok", "timeout", "rejected", "unavailable"}]
    /\ conn \in [Requests -> {"none", "queued", "reading", "handling", "closed"}]
    /\ srv \in [Requests -> Daemons \cup {None}]
    /\ reply \in [Requests -> {"none", "ok", "timeout", "rejected"}]
    /\ hnd \in [Requests -> {"none", "running", "applied", "returned", "killed"}]
    /\ took \subseteq Requests

Init ==
    /\ pc = [d \in Daemons |-> "down"]
    /\ stopping = [d \in Daemons |-> FALSE]
    /\ lock = None
    /\ sock = None
    /\ client = [r \in Requests |-> "idle"]
    /\ result = [r \in Requests |-> "none"]
    /\ conn = [r \in Requests |-> "none"]
    /\ srv = [r \in Requests |-> None]
    /\ reply = [r \in Requests |-> "none"]
    /\ hnd = [r \in Requests |-> "none"]
    /\ took = {}

Goto(d, from, to) == pc[d] = from /\ pc' = [pc EXCEPT ![d] = to]

-----------------------------------------------------------------------------
(* Start *)

\* Mutant: the lock file is opened without O_EXCL.
OpenLockShared(d) ==
    /\ Goto(d, "down", "locked")
    /\ lock' = d
    /\ UNCHANGED <<stopping, sock, clientVars, connVars>>

\* O_CREATE|O_EXCL: the file is made, ...
OpenLock(d) ==
    /\ Goto(d, "down", "locked")
    /\ lock = None
    /\ lock' = d
    /\ UNCHANGED <<stopping, sock, clientVars, connVars>>

\* ... or it exists and Start returns ErrAlreadyRunning.
Refuse(d) ==
    /\ Goto(d, "down", "refused")
    /\ lock # None
    /\ UNCHANGED <<stopping, lock, sock, clientVars, connVars>>

RefusedExits(d) ==
    /\ Goto(d, "refused", "down")
    /\ UNCHANGED <<stopping, lock, sock, clientVars, connVars>>

\* The pid cannot be written, the old socket not removed or the new one not
\* bound: the lock is given back, unless its removal fails, too.
StartFails(d) ==
    /\ \/ Goto(d, "locked", "down")
       \/ Goto(d, "clean", "down")
    /\ \/ lock' = None
       \/ Faults /\ UNCHANGED lock
    /\ UNCHANGED <<stopping, sock, clientVars, connVars>>

\* os.Remove of whatever socket file a predecessor left.
RemoveOldSocket(d) ==
    /\ Goto(d, "locked", "clean")
    /\ sock' = None
    /\ UNCHANGED <<stopping, lock, clientVars, connVars>>

\* net.Listen fails with EADDRINUSE when the path exists.
Listen(d) ==
    /\ Goto(d, "clean", "serving")
    /\ sock = None
    /\ sock' = d
    /\ UNCHANGED <<stopping, lock, clientVars, connVars>>

-----------------------------------------------------------------------------
(* The end of a daemon *)

\* SIGINT or SIGTERM.
Signal(d) ==
    /\ pc[d] = "serving"
    /\ ~stopping[d]
    /\ stopping' = [stopping EXCEPT ![d] = TRUE]
    /\ UNCHANGED <<pc, lock, sock, clientVars, connVars>>

\* Connections nobody has accepted end with their listener.
DropQueued(d) ==
    conn' = [r \in Requests |-> IF srv[r] = d /\ conn[r] = "queued" THEN "closed" ELSE conn[r]]

\* Mutant: Close that gives up the lock file with the listener.
CloseListenerAndLock(d) ==
    /\ Goto(d, "serving", "unlistened")
    /\ sock' = None
    /\ lock' = None
    /\ DropQueued(d)
    /\ UNCHANGED <<stopping, clientVars, srv, reply, hnd, took>>

\* Close, first part: the listener unlinks its path and closes.
CloseListener(d) ==
    /\ Goto(d, "serving", "unlistened")
    /\ sock' = None
    /\ DropQueued(d)
    /\ UNCHANGED <<stopping, lock, clientVars, srv, reply, hnd, took>>

\* The goroutine that waits for ctx.Done() calls Close.
ContextDone(d) == stopping[d] /\ CloseListener(d)

\* Accept fails while the daemon is not closed: serve calls Close.
AcceptFails(d) == CloseListener(d)

\* Close, second part: os.Remove of the socket path.
RemoveSocket(d) ==
    /\ Goto(d, "unlistened", "unlinked")
    /\ sock' = None
    /\ UNCHANGED <<stopping, lock, clientVars, connVars>>

\* Close, last part: os.Remove of the lock file, and close(s.closed) whether
\* that worked or not.
RemoveLock(d) ==
    /\ Goto(d, "unlinked", "closed")
    /\ \/ lock' = None
       \/ Faults /\ UNCHANGED lock
    /\ UNCHANGED <<stopping, sock, clientVars, connVars>>

\* The process ends: its connections close, and its handlers end where they are.
EndProcess(d) ==
    /\ pc' = [pc EXCEPT ![d] = "down"]
    /\ stopping' = [stopping EXCEPT ![d] = FALSE]
    /\ conn' = [r \in Requests |-> IF srv[r] = d THEN "closed" ELSE conn[r]]
    /\ hnd' = [r \in Requests |-> IF srv[r] = d /\ hnd[r] \in {"running", "applied"}
                                  THEN "killed" ELSE hnd[r]]
    /\ UNCHANGED <<lock, sock, clientVars, srv, reply, took>>

\* Done() is closed: daemonStarter.Start returns, the storage is shut down and
\* the process exits without waiting for its handlers.
Exit(d) == pc[d] = "closed" /\ EndProcess(d)

\* Any process may be killed; its files stay.
Crash(d) == Faults /\ pc[d] \in Holding /\ EndProcess(d)

-----------------------------------------------------------------------------
(* serve and handleConnection *)

Accept(r) ==
    /\ conn[r] = "queued"
    /\ srv[r] \in Daemons /\ pc[srv[r]] = "serving"
    /\ conn' = [conn EXCEPT ![r] = "reading"]
    /\ UNCHANGED <<daemonVars, clientVars, srv, reply, hnd, took>>

CloseConn(r, answer) ==
    /\ conn' = [conn EXCEPT ![r] = "closed"]
    /\ reply' = [reply EXCEPT ![r] = answer]

\* ReadRequest: a request to handle, ...
ReadRequest(r) ==
    /\ conn[r] = "reading"
    /\ client[r] # "dialled"
    /\ conn' = [conn EXCEPT ![r] = "handling"]
    /\ hnd' = [hnd EXCEPT ![r] = "running"]
    /\ UNCHANGED <<daemonVars, clientVars, srv, reply, took>>

\* ... or an error, which is answered.
RejectRequest(r) ==
    /\ conn[r] = "reading"
    /\ client[r] # "dialled"
    /\ r \in Invalid
    /\ CloseConn(r, "rejected")
    /\ UNCHANGED <<daemonVars, clientVars, srv, hnd, took>>

\* Mutant: on-stop is handled like any other event.
HandlerAppliesNoCancel(r) ==
    /\ hnd[r] = "running"
    /\ hnd' = [hnd EXCEPT ![r] = "applied"]
    /\ took' = took \cup {r}
    /\ UNCHANGED <<daemonVars, clientVars, conn, srv, reply>>

\* orchestrator.Handle does its work; on-stop then cancels stopCtx.  The handler
\* goes on whether or not its connection was answered meanwhile.
HandlerApplies(r) ==
    /\ hnd[r] = "running"
    /\ hnd' = [hnd EXCEPT ![r] = "applied"]
    /\ took' = took \cup {r}
    /\ stopping' = [d \in Daemons |-> stopping[d] \/ (r \in Stops /\ d = srv[r])]
    /\ UNCHANGED <<pc, lock, sock, clientVars, conn, srv, reply>>

\* Mutant: the response is sent before the event is handled.
HandlerReturnsEarly(r) ==
    /\ hnd[r] \in {"running", "applied"}
    /\ hnd' = [hnd EXCEPT ![r] = "returned"]
    /\ UNCHANGED <<daemonVars, clientVars, conn, srv, reply, took>>

\* The response goes to the buffered result channel.
HandlerReturns(r) ==
    /\ hnd[r] = "applied"
    /\ hnd' = [hnd EXCEPT ![r] = "returned"]
    /\ UNCHANGED <<daemonVars, clientVars, conn, srv, reply, took>>

\* The select of handleConnection: either case, when both are ready.
ReplyResult(r) ==
    /\ conn[r] = "handling"
    /\ hnd[r] = "returned"
    /\ CloseConn(r, "ok")
    /\ UNCHANGED <<daemonVars, clientVars, srv, hnd, took>>

\* Mutant: the select has no case for ctx.Done().
ReplyTimeoutNever(r) == FALSE /\ conn[r] = "handling" /\ UNCHANGED vars

\* ctx.Done(): the timeout of timeoutFor may pass at any time, and the daemon's
\* own context counts as well.
ReplyTimeout(r) ==
    /\ conn[r] = "handling"
    /\ CloseConn(r, "timeout")
    /\ UNCHANGED <<daemonVars, clientVars, srv, hnd, took>>

-----------------------------------------------------------------------------
(* RoundTrip *)

Finish(r, res) ==
    /\ client' = [client EXCEPT ![r] = "done"]
    /\ result' = [result EXCEPT ![r] = res]

Dial(r) ==
    /\ client[r] = "idle"
    /\ sock \in Daemons /\ pc[sock] = "serving"
    /\ client' = [client EXCEPT ![r] = "dialled"]
    /\ conn' = [conn EXCEPT ![r] = "queued"]
    /\ srv' = [srv EXCEPT ![r] = sock]
    /\ UNCHANGED <<daemonVars, result, reply, hnd, took>>

\* No socket file, or one nobody listens on: the command falls back.
DialFails(r) ==
    /\ client[r] = "idle"
    /\ ~(sock \in Daemons /\ pc[sock] = "serving")
    /\ Finish(r, "unavailable")
    /\ UNCHANGED <<daemonVars, connVars>>

WriteRequest(r) ==
    /\ client[r] = "dialled"
    /\ client' = [client EXCEPT ![r] = "sent"]
    /\ UNCHANGED <<daemonVars, result, connVars>>

\* The response, or the end of a connection nobody answered.
ReadResponse(r) ==
    /\ client[r] = "sent"
    /\ conn[r] = "closed"
    /\ Finish(r, IF reply[r] = "none" THEN "unavailable" ELSE reply[r])
    /\ UNCHANGED <<daemonVars, connVars>>

\* The 100 ms of the connection's deadline pass.  What was written stays
\* readable for the daemon.
ClientTimeout(r) ==
    /\ client[r] = "sent"
    /\ Finish(r, "unavailable")
    /\ UNCHANGED <<daemonVars, connVars>>

-----------------------------------------------------------------------------

Closing(d) == ContextDone(d) \/ RemoveSocket(d) \/ RemoveLock(d) \/ Exit(d)

Starting(d) ==
    \/ OpenLock(d) \/ Refuse(d) \/ RefusedExits(d)
    \/ StartFails(d) \/ RemoveOldSocket(d) \/ Listen(d)

\* handleConnection's own goroutine, as opposed to the handler's.
Connection(r) ==
    Accept(r) \/ ReadRequest(r) \/ RejectRequest(r) \/ ReplyResult(r) \/ ReplyTimeout(r)

Handler(r) == HandlerApplies(r) \/ HandlerReturns(r)

Client(r) ==
    Dial(r) \/ DialFails(r) \/ WriteRequest(r) \/ ReadResponse(r) \/ ClientTimeout(r)

Next ==
    \/ \E d \in Daemons :
          Crash(d) \/ Starting(d) \/ Signal(d) \/ Closing(d) \/ AcceptFails(d)
    \/ \E r \in Requests : Connection(r) \/ Handler(r) \/ Client(r)

Spec == Init /\ [][Next]_vars

\* Goroutines that can go on do, clients meet their deadlines, and timers fire.
\* Nothing is promised for the handlers, which wait for storage and for
\* configuration files, nor for anyone starting or stopping a daemon.
FairSpec ==
    /\ Spec
    /\ \A d \in Daemons : WF_vars(Closing(d))
    /\ \A r \in Requests :
          WF_vars(Connection(r)) /\ WF_vars(WriteRequest(r) \/ ReadResponse(r) \/ ClientTimeout(r))

-----------------------------------------------------------------------------
(* Properties *)

\* At most one daemon at a time is between taking and giving back the lock
\* (daemon.go:72-78, 130), however starts, failed starts, stops and crashes
\* interleave.
OneDaemon ==
    \A d, e \in Daemons : pc[d] \in Holding /\ pc[e] \in Holding => d = e

\* A daemon that serves can be reached: the socket path is its own listener,
\* and no predecessor on its way out removes it (daemon.go:85, 117-132).
SocketIsOwn == \A d \in Daemons : pc[d] = "serving" => sock = d /\ lock = d

\* A success answer is only written after the event was handled, and for
\* on-stop only after the daemon's context was cancelled, so that an answered
\* stop cannot be forgotten (main.go:259-265, daemon.go:176-183).
OkIsTrue ==
    [][\A r \in Requests : reply[r] = "none" /\ reply'[r] = "ok" =>
          r \in took /\ (r \in Stops => stopping[srv[r]])]_vars

\* Every connection whose request was read is answered or cut off, even if its
\* handler never returns (daemon.go:176-187).
EveryConnectionEnds == \A r \in Requests : conn[r] = "handling" ~> conn[r] = "closed"

\* A daemon that handled on-stop comes down, although the handlers of other
\* requests may be stuck (main.go:261-263, daemon.go:143-146, 111-136).
StopEndsDaemon ==
    \A r \in Stops :
        hnd[r] = "applied" ~> \A d \in Daemons : srv[r] = d => pc[d] = "down"

\* `omg daemon start' reports "omg daemon already running" (daemon.go:18) only
\* while some daemon has the lock and has not ended.
RefusedOnlyIfRunning ==
    [][\A d \in Daemons : pc[d] = "down" /\ pc'[d] = "refused" =>
          \E e \in Daemons : pc[e] \in Holding]_vars

=============================================================================
