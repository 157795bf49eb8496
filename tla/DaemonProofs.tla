----------------------------- MODULE DaemonProofs -----------------------------
(***************************************************************************)
(* What the daemon's lock, socket and answers guarantee for any number of  *)
(* daemons and requests, with and without crashes.                         *)
(***************************************************************************)
EXTENDS Daemon, TLAPS

\* A connection that is being handled has a daemon, and so does the handler of a
\* request.
ConnectionsOwned ==
    \A r \in Requests :
        conn[r] \in {"queued", "reading", "handling"} => srv[r] \in Daemons

\* The lock file is the mutual exclusion: whoever is in Start, serve or Close
\* made the file that is there now.
LockIsOwn == \A d \in Daemons : pc[d] \in Holding => lock = d

ServingSocket == \A d \in Daemons : pc[d] = "serving" => sock = d

FilesInv == TypeOK /\ LockIsOwn /\ ServingSocket

\* What a handler has done by the time its response can be written.
HandledInv ==
    \A r \in Requests :
        hnd[r] \in {"applied", "returned"} =>
            /\ r \in took
            /\ r \in Stops /\ conn[r] = "handling" => stopping[srv[r]]

AnswersInv == TypeOK /\ ConnectionsOwned /\ HandledInv

-----------------------------------------------------------------------------

LEMMA TypeInit == Init => TypeOK
  BY DEF Init, TypeOK, Holding

\* What on-stop does to the daemons' contexts: it cancels its own, and no context
\* is ever revived.
LEMMA CancelledContext ==
  ASSUME NEW r \in Requests, HandlerApplies(r)
  PROVE  /\ stopping' \in [Daemons -> BOOLEAN]
         /\ \A d \in Daemons : stopping[d] => stopping'[d]
         /\ r \in Stops /\ srv[r] \in Daemons => stopping'[srv[r]]
<1>1. stopping' = [d \in Daemons |-> stopping[d] \/ (r \in Stops /\ d = srv[r])]
  BY DEF HandlerApplies
<1> QED
  BY <1>1, Zenon

\* Every step keeps the types (no action leaves a field without a value of its
\* sort).
LEMMA TypeStep == TypeOK /\ [Next]_vars => TypeOK'
<1> SUFFICES ASSUME TypeOK, [Next]_vars PROVE TypeOK'
  OBVIOUS
<1> USE DEF TypeOK, Holding, clientVars, connVars, daemonVars, Goto
<1>1. ASSUME NEW d \in Daemons, Starting(d) PROVE TypeOK'
  BY <1>1 DEF Starting, OpenLock, Refuse, RefusedExits, StartFails, RemoveOldSocket, Listen
<1>2. ASSUME NEW d \in Daemons, Signal(d) PROVE TypeOK'
  BY <1>2 DEF Signal
<1>3. ASSUME NEW d \in Daemons, CloseListener(d) PROVE TypeOK'
  BY <1>3 DEF CloseListener, DropQueued
<1>4. ASSUME NEW d \in Daemons, EndProcess(d) PROVE TypeOK'
  BY <1>4 DEF EndProcess
<1>5. ASSUME NEW d \in Daemons, RemoveSocket(d) \/ RemoveLock(d) PROVE TypeOK'
  BY <1>5 DEF RemoveSocket, RemoveLock
<1>6. ASSUME NEW r \in Requests, Connection(r) PROVE TypeOK'
  BY <1>6 DEF Connection, Accept, ReadRequest, RejectRequest, ReplyResult,
              ReplyTimeout, CloseConn
<1>7. ASSUME NEW r \in Requests, Handler(r) PROVE TypeOK'
  <2>1. CASE HandlerReturns(r)
    BY <2>1 DEF HandlerReturns
  <2>2. CASE HandlerApplies(r)
    <3>1. stopping' \in [Daemons -> BOOLEAN]
      BY <2>2, CancelledContext
    <3> QED
      BY <2>2, <3>1 DEF HandlerApplies
  <2> QED
    BY <1>7, <2>1, <2>2 DEF Handler
<1>8. ASSUME NEW r \in Requests, Client(r) PROVE TypeOK'
  BY <1>8 DEF Client, Dial, DialFails, WriteRequest, ReadResponse, ClientTimeout, Finish
<1>9. CASE UNCHANGED vars
  BY <1>9 DEF vars
<1> QED
  BY <1>1, <1>2, <1>3, <1>4, <1>5, <1>6, <1>7, <1>8, <1>9
     DEF Next, Closing, ContextDone, AcceptFails, Exit, Crash

\* The two files and the daemons that use them stay in step: only the holder of
\* the lock creates, replaces or removes either file.
LEMMA FilesStep == FilesInv /\ [Next]_vars => (LockIsOwn /\ ServingSocket)'
<1> SUFFICES ASSUME FilesInv, [Next]_vars PROVE (LockIsOwn /\ ServingSocket)'
  OBVIOUS
<1> USE DEF FilesInv, TypeOK, LockIsOwn, ServingSocket, Holding, Goto
<1>0. None \notin Daemons
  BY ConstantsAssumption
<1>1. ASSUME NEW d \in Daemons, OpenLock(d) PROVE (LockIsOwn /\ ServingSocket)'
  BY <1>0, <1>1 DEF OpenLock
<1>2. ASSUME NEW d \in Daemons, Refuse(d) \/ RefusedExits(d)
      PROVE  (LockIsOwn /\ ServingSocket)'
  BY <1>2 DEF Refuse, RefusedExits
<1>3. ASSUME NEW d \in Daemons, StartFails(d) PROVE (LockIsOwn /\ ServingSocket)'
  BY <1>0, <1>3 DEF StartFails
<1>4. ASSUME NEW d \in Daemons, RemoveOldSocket(d) \/ Listen(d)
      PROVE  (LockIsOwn /\ ServingSocket)'
  BY <1>0, <1>4 DEF RemoveOldSocket, Listen
<1>5. ASSUME NEW d \in Daemons, CloseListener(d) PROVE (LockIsOwn /\ ServingSocket)'
  BY <1>0, <1>5 DEF CloseListener
<1>6. ASSUME NEW d \in Daemons, RemoveSocket(d) \/ RemoveLock(d)
      PROVE  (LockIsOwn /\ ServingSocket)'
  BY <1>0, <1>6 DEF RemoveSocket, RemoveLock
<1>7. ASSUME NEW d \in Daemons, EndProcess(d) PROVE (LockIsOwn /\ ServingSocket)'
  BY <1>7 DEF EndProcess
<1>8. CASE UNCHANGED <<pc, lock, sock>>
  BY <1>8
<1>9. ASSUME NEW r \in Requests, Connection(r) \/ Handler(r) \/ Client(r)
      PROVE  UNCHANGED <<pc, lock, sock>>
  BY <1>9 DEF Connection, Accept, ReadRequest, RejectRequest, ReplyResult, ReplyTimeout,
              Handler, HandlerApplies, HandlerReturns,
              Client, Dial, DialFails, WriteRequest, ReadResponse, ClientTimeout, daemonVars
<1>10. ASSUME NEW d \in Daemons, Signal(d) PROVE UNCHANGED <<pc, lock, sock>>
  BY <1>10 DEF Signal
<1>11. UNCHANGED vars => UNCHANGED <<pc, lock, sock>>
  BY DEF vars, daemonVars
<1> QED
  BY <1>1, <1>2, <1>3, <1>4, <1>5, <1>6, <1>7, <1>8, <1>9, <1>10, <1>11
     DEF Next, Starting, Closing, ContextDone, AcceptFails, Exit, Crash

\* A connection keeps its daemon, and a cancelled context is only forgotten when
\* the process ends, together with its connections.
LEMMA AnswersStep == AnswersInv /\ [Next]_vars => (ConnectionsOwned /\ HandledInv)'
<1> SUFFICES ASSUME AnswersInv, [Next]_vars PROVE (ConnectionsOwned /\ HandledInv)'
  OBVIOUS
<1> USE DEF AnswersInv, TypeOK, ConnectionsOwned, HandledInv, connVars, daemonVars
<1>1. CASE UNCHANGED <<conn, srv, hnd, took, stopping>>
  BY <1>1
<1>2. ASSUME NEW d \in Daemons, Starting(d) \/ RemoveSocket(d) \/ RemoveLock(d)
      PROVE  UNCHANGED <<conn, srv, hnd, took, stopping>>
  BY <1>2 DEF Starting, OpenLock, Refuse, RefusedExits, StartFails, RemoveOldSocket, Listen,
              RemoveSocket, RemoveLock
<1>3. ASSUME NEW d \in Daemons, Signal(d) PROVE (ConnectionsOwned /\ HandledInv)'
  BY <1>3 DEF Signal
<1>4. ASSUME NEW d \in Daemons, CloseListener(d) PROVE (ConnectionsOwned /\ HandledInv)'
  BY <1>4 DEF CloseListener, DropQueued
<1>5. ASSUME NEW d \in Daemons, EndProcess(d) PROVE (ConnectionsOwned /\ HandledInv)'
  BY <1>5 DEF EndProcess
<1>6. ASSUME NEW r \in Requests, Connection(r) PROVE (ConnectionsOwned /\ HandledInv)'
  BY <1>6 DEF Connection, Accept, ReadRequest, RejectRequest, ReplyResult,
              ReplyTimeout, CloseConn
<1>7. ASSUME NEW r \in Requests, Handler(r) PROVE (ConnectionsOwned /\ HandledInv)'
  <2>1. CASE HandlerReturns(r)
    BY <2>1 DEF HandlerReturns
  <2>2. CASE HandlerApplies(r)
    <3>1. /\ \A d \in Daemons : stopping[d] => stopping'[d]
          /\ r \in Stops /\ srv[r] \in Daemons => stopping'[srv[r]]
      BY <2>2, CancelledContext
    <3> QED
      BY <2>2, <3>1 DEF HandlerApplies
  <2> QED
    BY <1>7, <2>1, <2>2 DEF Handler
<1>8. ASSUME NEW r \in Requests, Client(r) PROVE (ConnectionsOwned /\ HandledInv)'
  BY <1>8 DEF Client, Dial, DialFails, WriteRequest, ReadResponse, ClientTimeout
<1>9. UNCHANGED vars => UNCHANGED <<conn, srv, hnd, took, stopping>>
  BY DEF vars
<1> QED
  BY <1>1, <1>2, <1>3, <1>4, <1>5, <1>6, <1>7, <1>8, <1>9
     DEF Next, Closing, ContextDone, AcceptFails, Exit, Crash

-----------------------------------------------------------------------------

\* Type correctness of the daemon, its connections and its clients.
THEOREM DaemonTypeCorrect == Spec => []TypeOK
  BY TypeInit, TypeStep, PTL DEF Spec

\* The invariant behind the next two theorems.
LEMMA FilesAlways == Spec => []FilesInv
<1>1. Init => FilesInv
  BY TypeInit DEF Init, FilesInv, LockIsOwn, ServingSocket, Holding
<1>2. FilesInv /\ [Next]_vars => FilesInv'
  BY TypeStep, FilesStep DEF FilesInv
<1> QED
  BY <1>1, <1>2, PTL DEF Spec

\* O_EXCL on the lock file lets at most one daemon be in Start, serve or Close
\* (daemon.go:72-130), for any number of daemons, with crashes at any point.
THEOREM AtMostOneDaemon == Spec => []OneDaemon
<1>1. FilesInv => OneDaemon
  BY DEF FilesInv, LockIsOwn, OneDaemon
<1> QED
  BY <1>1, FilesAlways, PTL

\* A serving daemon owns the lock and is the one behind the socket path: the
\* order in Close (socket first, lock last) keeps a daemon on its way out from
\* removing its successor's socket (daemon.go:117-132).
THEOREM ServingDaemonIsReachable == Spec => []SocketIsOwn
<1>1. FilesInv => SocketIsOwn
  BY DEF FilesInv, LockIsOwn, ServingSocket, SocketIsOwn, Holding
<1> QED
  BY <1>1, FilesAlways, PTL

\* A success answer is true: the event was handled, and an answered stop has
\* cancelled the daemon it was sent to (main.go:259-265, daemon.go:176-183).
THEOREM AnswersAreTrue == Spec => OkIsTrue
<1>1. Init => AnswersInv
  BY TypeInit DEF Init, AnswersInv, ConnectionsOwned, HandledInv
<1>2. AnswersInv /\ [Next]_vars => AnswersInv'
  BY TypeStep, AnswersStep DEF AnswersInv
<1> DEFINE Answer(r) == reply[r] = "none" /\ reply'[r] = "ok" =>
                            r \in took /\ (r \in Stops => stopping[srv[r]])
<1>3. AnswersInv /\ [Next]_vars => [\A r \in Requests : Answer(r)]_vars
  <2> SUFFICES ASSUME AnswersInv, Next, NEW r \in Requests,
                      reply[r] = "none", reply'[r] = "ok"
               PROVE  r \in took /\ (r \in Stops => stopping[srv[r]])
    OBVIOUS
  <2>1. UNCHANGED reply \/ \E q \in Requests : RejectRequest(q) \/ ReplyResult(q) \/ ReplyTimeout(q)
    BY DEF Next, Starting, OpenLock, Refuse, RefusedExits, StartFails, RemoveOldSocket, Listen,
           Signal, Closing, ContextDone, AcceptFails, CloseListener, RemoveSocket, RemoveLock,
           Exit, Crash, EndProcess, Connection, Accept, ReadRequest, Handler,
           HandlerApplies, HandlerReturns, Client, Dial, DialFails, WriteRequest, ReadResponse,
           ClientTimeout, connVars
  <2>2. PICK q \in Requests : RejectRequest(q) \/ ReplyResult(q) \/ ReplyTimeout(q)
    BY <2>1
  <2>3. q = r /\ ReplyResult(r)
    BY <2>2 DEF RejectRequest, ReplyResult, ReplyTimeout, CloseConn, AnswersInv, TypeOK
  <2> QED
    BY <2>3 DEF ReplyResult, AnswersInv, HandledInv
<1> QED
  BY <1>1, <1>2, <1>3, PTL DEF Spec, OkIsTrue

-----------------------------------------------------------------------------

\* While no daemon crashes and every removal works, a lock file is that of a
\* daemon on its way from Start to the end of Close.
LockIsHeld == lock # None => pc[lock] \in Holding

HeldInv == FilesInv /\ LockIsHeld

\* Whoever leaves that way removes the file first.
LEMMA HeldStep ==
    ASSUME ~Faults, HeldInv, [Next]_vars
    PROVE  LockIsHeld'
<1> USE DEF HeldInv, FilesInv, TypeOK, LockIsOwn, LockIsHeld, Holding, Goto
<1>0. None \notin Daemons
  BY ConstantsAssumption
<1>1. ASSUME NEW d \in Daemons, Starting(d) PROVE LockIsHeld'
  BY <1>0, <1>1 DEF Starting, OpenLock, Refuse, RefusedExits, StartFails, RemoveOldSocket, Listen
<1>2. ASSUME NEW d \in Daemons, CloseListener(d) \/ RemoveSocket(d) \/ RemoveLock(d)
      PROVE  LockIsHeld'
  BY <1>0, <1>2 DEF CloseListener, RemoveSocket, RemoveLock
<1>3. ASSUME NEW d \in Daemons, Exit(d) PROVE LockIsHeld'
  BY <1>0, <1>3 DEF Exit, EndProcess
<1>4. ASSUME NEW d \in Daemons PROVE ~Crash(d)
  BY DEF Crash
<1>5. CASE UNCHANGED <<pc, lock>>
  BY <1>5
<1>6. ASSUME NEW r \in Requests, Connection(r) \/ Handler(r) \/ Client(r)
      PROVE  UNCHANGED <<pc, lock>>
  BY <1>6 DEF Connection, Accept, ReadRequest, RejectRequest, ReplyResult, ReplyTimeout,
              Handler, HandlerApplies, HandlerReturns,
              Client, Dial, DialFails, WriteRequest, ReadResponse, ClientTimeout, daemonVars
<1>7. ASSUME NEW d \in Daemons, Signal(d) PROVE UNCHANGED <<pc, lock>>
  BY <1>7 DEF Signal
<1>8. UNCHANGED vars => UNCHANGED <<pc, lock>>
  BY DEF vars, daemonVars
<1> QED
  BY <1>1, <1>2, <1>3, <1>4, <1>5, <1>6, <1>7, <1>8
     DEF Next, Closing, ContextDone, AcceptFails

\* A daemon that holds the lock is what a refused start meets.
LEMMA RefusalMeetsHolder ==
    ASSUME HeldInv, [Next]_vars,
           NEW d \in Daemons, pc[d] = "down", pc'[d] = "refused"
    PROVE  \E e \in Daemons : pc[e] \in Holding
<1> USE DEF HeldInv, FilesInv, TypeOK, LockIsHeld, Goto
<1>1. ASSUME NEW e \in Daemons, Refuse(e) PROVE \E f \in Daemons : pc[f] \in Holding
  BY <1>1 DEF Refuse
<1>2. ASSUME NEW e \in Daemons,
             \/ OpenLock(e) \/ RefusedExits(e) \/ StartFails(e) \/ RemoveOldSocket(e) \/ Listen(e)
             \/ CloseListener(e) \/ RemoveSocket(e) \/ RemoveLock(e) \/ EndProcess(e) \/ Signal(e)
      PROVE  FALSE
  BY <1>2 DEF OpenLock, RefusedExits, StartFails, RemoveOldSocket, Listen,
              CloseListener, RemoveSocket, RemoveLock, EndProcess, Signal
<1>3. ASSUME NEW r \in Requests, Connection(r) \/ Handler(r) \/ Client(r) PROVE FALSE
  BY <1>3 DEF Connection, Accept, ReadRequest, RejectRequest, ReplyResult, ReplyTimeout,
              Handler, HandlerApplies, HandlerReturns,
              Client, Dial, DialFails, WriteRequest, ReadResponse, ClientTimeout, daemonVars
<1>4. ~UNCHANGED vars
  BY DEF vars, daemonVars
<1> QED
  BY <1>1, <1>2, <1>3, <1>4
     DEF Next, Starting, Closing, ContextDone, AcceptFails, Exit, Crash

\* "omg daemon already running" is true as long as no daemon crashes and os.Remove
\* of the lock works (daemon.go:72-78, 130): a stale lock, which the run
\* DaemonStaleLock shows, needs one or the other, not just an unlucky
\* interleaving of starts, failed starts and stops.
THEOREM RefusalIsTrueWithoutFaults == Spec /\ ~Faults => RefusedOnlyIfRunning
<1> SUFFICES ASSUME ~Faults PROVE Spec => RefusedOnlyIfRunning
  OBVIOUS
<1>1. Init => HeldInv
  BY TypeInit DEF Init, HeldInv, FilesInv, LockIsOwn, ServingSocket, LockIsHeld, Holding
<1>2. HeldInv /\ [Next]_vars => HeldInv'
  BY TypeStep, FilesStep, HeldStep DEF HeldInv, FilesInv
<1>3. HeldInv /\ [Next]_vars =>
        [\A d \in Daemons : pc[d] = "down" /\ pc'[d] = "refused" =>
            \E e \in Daemons : pc[e] \in Holding]_vars
  BY RefusalMeetsHolder
<1> QED
  BY <1>1, <1>2, <1>3, PTL DEF Spec, RefusedOnlyIfRunning

=============================================================================
