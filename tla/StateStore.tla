------------------------------ MODULE StateStore ------------------------------
(***************************************************************************)
(* The file-backed session state store of internal/state/state.go.         *)
(*                                                                         *)
(* A call of Transition, WriteRoot or MarkStaleHeartbeats runs in a        *)
(* process (a handler goroutine of the daemon, or an inline command) of    *)
(* some host (an OS process).  The steps another process can get between   *)
(* are separate actions: the read of state.json, the MkdirAll of the       *)
(* session directory under the per-path mutex, and the rename that         *)
(* publishes the new record.  The mutex is a table in the memory of the    *)
(* host and is only held by atomicWrite: it covers neither the read of     *)
(* Transition nor the writers of another host.                             *)
(*                                                                         *)
(* Temporary files have unique names and are never read, so the write of   *)
(* the temporary file and the rename are one step (Rename), which may also *)
(* fail (WriteFails).  A record keeps the fields that decide a later step: *)
(* its lifecycle, its heartbeat time and its blocked reason.               *)
(***************************************************************************)
EXTENDS Integers, LifecycleTable

CONSTANTS
    Sessions,          \* session ids, in the order os.ReadDir lists them
    Root,              \* the path of the root record, .omg/state/state.json
    Hosts,             \* OS processes
    Procs,             \* goroutines that call the store
    HostOf,            \* the host a process lives in
    Access,            \* <<p, s>>: p is sent transitions for session s
    Sweepers,          \* processes that call MarkStaleHeartbeats
    NoFile,            \* what a path without a file holds
    Nobody,            \* the holder of a free mutex
    RootLifecycles,    \* the lifecycles callers write to the root record
    HeartbeatTimeout,  \* Options.HeartbeatTimeout, in ticks
    MaxClock           \* bound on the clock

ASSUME ConstantsAssumption ==
    /\ Sessions \subseteq Nat
    /\ Root \notin Sessions
    /\ HostOf \in [Procs -> Hosts]
    /\ Access \subseteq Procs \X Sessions
    /\ Sweepers \subseteq Procs
    /\ Nobody \notin Procs
    /\ RootLifecycles \subseteq Lifecycle
    /\ HeartbeatTimeout \in Nat
    /\ MaxClock \in Nat \ {0}

Paths == Sessions \cup {Root}

Times == 0 .. MaxClock              \* 0 is Go's zero time
Reasons == {"none", "stale_owner", "host"}
Record == [lifecycle : Lifecycle, heartbeat : Times, reason : Reasons]

\* The record Transition starts from when the session has no file.
NewRecord == [lifecycle |-> "inactive", heartbeat |-> 0, reason |-> "none"]

ASSUME NoFileAssumption == NoFile \notin Record

\* What callers pass as TransitionInput.  The orchestrator sends a blocked
\* reason only together with the blocked lifecycle (lifecycleForError and
\* blockedReason read the same payload field).
Inputs == [to : Lifecycle, reason : {"none"}] \cup [to : {"blocked"}, reason : {"host"}]

\* A call in progress; `now' is taken before the read, `todo' are the directory
\* entries a sweep has still to look at, `next' is the record to be written.
Calls == [pc : {"idle", "read", "sweep", "lock", "rename"}, path : Paths,
          to : Lifecycle, reason : Reasons, now : Times,
          todo : SUBSET Sessions, next : Record]

Idle == [pc |-> "idle", path |-> Root, to |-> "inactive", reason |-> "none",
         now |-> 0, todo |-> {}, next |-> NewRecord]

VARIABLES
    clock,   \* time, 1 .. MaxClock
    dirs,    \* sessions whose directory exists
    disk,    \* path -> record of its state.json, or NoFile
    lock,    \* <<host, path>> -> holder of that path's mutex
    call     \* process -> the call it is in

vars == <<clock, dirs, disk, lock, call>>

TypeOK ==
    /\ clock \in 1 .. MaxClock
    /\ dirs \subseteq Sessions
    /\ disk \in [Paths -> Record \cup {NoFile}]
    /\ lock \in [Hosts \X Paths -> Procs \cup {Nobody}]
    /\ call \in [Procs -> Calls]

Init ==
    /\ clock = 1
    /\ dirs = {}
    /\ disk = [x \in Paths |-> NoFile]
    /\ lock = [hx \in Hosts \X Paths |-> Nobody]
    /\ call = [p \in Procs |-> Idle]

Return(p) == call' = [call EXCEPT ![p] = Idle]
Unlock(p) == lock' = [lock EXCEPT ![<<HostOf[p], call[p].path>>] = Nobody]

-----------------------------------------------------------------------------
(* Transition *)

BeginTransition(p, s, in) ==
    /\ call[p] = Idle
    /\ <<p, s>> \in Access
    /\ call' = [call EXCEPT ![p] = [Idle EXCEPT !.pc = "read", !.path = s,
                                    !.to = in.to, !.reason = in.reason, !.now = clock]]
    /\ UNCHANGED <<clock, dirs, disk, lock>>

Current(x) == IF disk[x] = NoFile THEN NewRecord ELSE disk[x]

\* Mutant: a record that keeps the old blocked reason when the caller gives none.
NextRecordKeepsReason(current, c) ==
    [lifecycle |-> c.to,
     heartbeat |-> IF c.to = "running" THEN c.now ELSE current.heartbeat,
     reason    |-> IF c.reason = "none" THEN current.reason ELSE c.reason]

\* The record Transition builds: the blocked reason is always the caller's, the
\* heartbeat is renewed only on the way into running.
NextRecord(current, c) ==
    [lifecycle |-> c.to,
     heartbeat |-> IF c.to = "running" THEN c.now ELSE current.heartbeat,
     reason    |-> c.reason]

\* Mutant: a read without the validation.
ReadWithoutValidation(p) ==
    /\ call[p].pc = "read"
    /\ call' = [call EXCEPT ![p].pc = "lock",
                            ![p].next = NextRecord(Current(call[p].path), call[p])]
    /\ UNCHANGED <<clock, dirs, disk, lock>>

\* Read state.json, validate, build the next record; an illegal transition
\* returns an error with nothing written.
ReadCurrent(p) ==
    LET c == call[p]
        current == Current(c.path)
    IN  /\ c.pc = "read"
        /\ \/ /\ ValidTransition(current.lifecycle, c.to)
              /\ call' = [call EXCEPT ![p].pc = "lock", ![p].next = NextRecord(current, c)]
           \/ /\ ~ValidTransition(current.lifecycle, c.to)
              /\ Return(p)
        /\ UNCHANGED <<clock, dirs, disk, lock>>

\* state.json cannot be read: Transition and the sweep return the error.
ReadFails(p) ==
    /\ call[p].pc \in {"read", "sweep"}
    /\ Return(p)
    /\ UNCHANGED <<clock, dirs, disk, lock>>

\* WriteRoot validates nothing: the record goes straight to atomicWrite.
BeginWriteRoot(p, to) ==
    /\ call[p] = Idle
    /\ call' = [call EXCEPT ![p] = [Idle EXCEPT !.pc = "lock",
                                    !.next = [NewRecord EXCEPT !.lifecycle = to]]]
    /\ UNCHANGED <<clock, dirs, disk, lock>>

-----------------------------------------------------------------------------
(* atomicWrite *)

\* Take the mutex and create the directory of a session's record.
MkdirAll(p) ==
    LET c == call[p] IN
    /\ c.pc = "lock"
    /\ lock[<<HostOf[p], c.path>>] = Nobody
    /\ lock' = [lock EXCEPT ![<<HostOf[p], c.path>>] = p]
    /\ dirs' = dirs \cup ({c.path} \cap Sessions)
    /\ call' = [call EXCEPT ![p].pc = "rename"]
    /\ UNCHANGED <<clock, disk>>

\* MkdirAll fails: the mutex is taken and released, the error is returned.
MkdirFails(p) ==
    /\ call[p].pc = "lock"
    /\ lock[<<HostOf[p], call[p].path>>] = Nobody
    /\ Return(p)
    /\ UNCHANGED <<clock, dirs, disk, lock>>

\* The temporary file is written and renamed over state.json.
Rename(p) ==
    /\ call[p].pc = "rename"
    /\ disk' = [disk EXCEPT ![call[p].path] = call[p].next]
    /\ Unlock(p)
    /\ Return(p)
    /\ UNCHANGED <<clock, dirs>>

\* Mutant: an error return that forgets the mutex.
WriteFailsHoldingLock(p) ==
    /\ call[p].pc = "rename"
    /\ Return(p)
    /\ UNCHANGED <<clock, dirs, disk, lock>>

\* Writing the temporary file or renaming it fails: state.json keeps its old
\* contents, the directory stays.
WriteFails(p) ==
    /\ call[p].pc = "rename"
    /\ Unlock(p)
    /\ Return(p)
    /\ UNCHANGED <<clock, dirs, disk>>

-----------------------------------------------------------------------------
(* MarkStaleHeartbeats *)

\* ReadDir takes the list of session directories once.
BeginSweep(p) ==
    /\ p \in Sweepers
    /\ call[p] = Idle
    /\ dirs # {}
    /\ call' = [call EXCEPT ![p] = [Idle EXCEPT !.pc = "sweep", !.now = clock, !.todo = dirs]]
    /\ UNCHANGED <<clock, dirs, disk, lock>>

Stale(record, now) ==
    /\ record.lifecycle = "running"
    /\ record.heartbeat # 0
    /\ now - record.heartbeat > HeartbeatTimeout

\* Mutant: a reason the readers of the record do not know.
MarkedExpired(record) ==
    [record EXCEPT !.lifecycle = "blocked", !.reason = "heartbeat_expired"]

\* The record of a session whose owner is gone.
Marked(record) == [record EXCEPT !.lifecycle = "blocked", !.reason = "stale_owner"]

\* Mutant: a sweep that does not look at the lifecycle.
SweepEntryAnyLifecycle(p, s) ==
    LET c == call[p] IN
    /\ c.pc = "sweep"
    /\ s \in c.todo
    /\ \A t \in c.todo : s <= t
    /\ \/ /\ disk[s] = NoFile
          /\ Return(p)
       \/ /\ disk[s] # NoFile
          /\ call' = [call EXCEPT ![p].pc = "lock", ![p].path = s,
                                  ![p].todo = {}, ![p].next = Marked(disk[s])]
    /\ UNCHANGED <<clock, dirs, disk, lock>>

\* The next entry in directory order: a directory without a file ends the sweep
\* with an error, the first stale record is marked, the others are skipped.
SweepEntry(p, s) ==
    LET c == call[p] IN
    /\ c.pc = "sweep"
    /\ s \in c.todo
    /\ \A t \in c.todo : s <= t
    /\ \/ /\ disk[s] = NoFile
          /\ Return(p)
       \/ /\ disk[s] # NoFile /\ Stale(disk[s], c.now)
          /\ call' = [call EXCEPT ![p].pc = "lock", ![p].path = s,
                                  ![p].todo = {}, ![p].next = Marked(disk[s])]
       \/ /\ disk[s] # NoFile /\ ~Stale(disk[s], c.now)
          /\ call' = [call EXCEPT ![p].todo = @ \ {s}]
    /\ UNCHANGED <<clock, dirs, disk, lock>>

SweepEnds(p) ==
    /\ call[p].pc = "sweep"
    /\ call[p].todo = {}
    /\ Return(p)
    /\ UNCHANGED <<clock, dirs, disk, lock>>

-----------------------------------------------------------------------------
(* Environment *)

Tick ==
    /\ clock < MaxClock
    /\ clock' = clock + 1
    /\ UNCHANGED <<dirs, disk, lock, call>>

\* A host dies: its calls and its mutexes are gone, the files stay.
Crash(h) ==
    /\ call' = [p \in Procs |-> IF HostOf[p] = h THEN Idle ELSE call[p]]
    /\ lock' = [hx \in Hosts \X Paths |-> IF hx[1] = h THEN Nobody ELSE lock[hx]]
    /\ UNCHANGED <<clock, dirs, disk>>

-----------------------------------------------------------------------------

\* A step of p inside a call it has begun.
Step(p) ==
    \/ ReadCurrent(p) \/ ReadFails(p)
    \/ MkdirAll(p) \/ MkdirFails(p)
    \/ Rename(p) \/ WriteFails(p)
    \/ \E s \in Sessions : SweepEntry(p, s)
    \/ SweepEnds(p)

Begin(p) ==
    \/ \E s \in Sessions, in \in Inputs : BeginTransition(p, s, in)
    \/ \E to \in RootLifecycles : BeginWriteRoot(p, to)
    \/ BeginSweep(p)

Next ==
    \/ \E p \in Procs : Begin(p) \/ Step(p)
    \/ \E h \in Hosts : Crash(h)
    \/ Tick

Spec == Init /\ [][Next]_vars

\* A goroutine inside a call keeps running, and sync.Mutex does not starve a
\* waiter (its starvation mode hands the mutex over in arrival order).
Fairness ==
    \A p \in Procs : WF_vars(Step(p)) /\ SF_vars(MkdirAll(p) \/ MkdirFails(p))

FairSpec == Spec /\ Fairness

-----------------------------------------------------------------------------
(* Properties *)

LifecycleOf(x) == Current(x).lifecycle

WellFormed(record) ==
    /\ record.lifecycle # "inactive"
    /\ record.reason # "none" => record.lifecycle = "blocked"
    /\ record.lifecycle = "running" => record.heartbeat \in 1 .. clock

\* Every record on disk is one a single call built: a blocked reason is only
\* found on a blocked session, and a running session always has a heartbeat
\* that lies in the past, so that the sweep can judge it.  Holds under every
\* interleaving of Transition (state.go:118-122) and MarkStaleHeartbeats.
RecordsWellFormed ==
    \A s \in Sessions : disk[s] # NoFile => WellFormed(disk[s])

\* A session that is finished, failed or cancelled never changes again:
\* "terminal lifecycle %q cannot transition to %q" (state.go:245).
TerminalIsFinal ==
    [][\A s \in Sessions : LifecycleOf(s) \in Terminal =>
                               LifecycleOf(s)' = LifecycleOf(s)]_vars

\* Every call returns: no error path of atomicWrite leaves the path's mutex
\* locked, and no sweep goes round for ever (state.go:203-226, 165-187).
EveryCallReturns == \A p \in Procs : call[p].pc # "idle" ~> call[p].pc = "idle"

\* Session s is written by one process: the sweep writes any session.
Writers(s) == {p \in Procs : <<p, s>> \in Access} \cup Sweepers
SingleWriter == \A s \in Sessions : \A p, q \in Writers(s) : p = q

\* The inductive strengthening of RecordsWellFormed: what a call is about to
\* write is already well formed.
CallsWellFormed ==
    \A p \in Procs :
        /\ call[p].pc \in {"read", "sweep"} => call[p].now \in 1 .. clock
        /\ call[p].pc = "read" =>
               call[p].path \in Sessions /\ (call[p].reason # "none" => call[p].to = "blocked")
        /\ call[p].pc \in {"lock", "rename"} /\ call[p].path \in Sessions =>
               WellFormed(call[p].next)

\* The inductive strengthening of TerminalIsFinal, for a single writer: a call
\* on a session is made by a writer of it, and what it is about to write is
\* still a legal successor of what is on disk.
CallsCurrent ==
    \A p \in Procs :
        /\ call[p].pc = "sweep" => p \in Sweepers
        /\ call[p].pc \in {"read", "lock", "rename"} /\ call[p].path \in Sessions =>
               p \in Writers(call[p].path)
        /\ call[p].pc \in {"lock", "rename"} /\ call[p].path \in Sessions =>
               ValidTransition(LifecycleOf(call[p].path), call[p].next.lifecycle)

Abstract == INSTANCE SessionLifecycle
                WITH life <- [s \in Sessions |-> LifecycleOf(s)]

\* With one writer per session the store, crashes and failed writes included,
\* moves every session along the table of validateTransition (state.go:240-259).
RefinesLifecycle == Abstract!Spec

=============================================================================
