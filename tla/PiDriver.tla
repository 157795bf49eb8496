------------------------------- MODULE PiDriver -------------------------------
(***************************************************************************)
(* The pi worker driver of adapters/pi/pi.go and the loop of runWithWorker *)
(* that consumes it.                                                       *)
(*                                                                         *)
(* Actors: the subprocess, which writes its lines to a bounded pipe; the   *)
(* stdout scanner, the stderr drainer and the wait-reaper, the goroutines  *)
(* of Spawn; os/exec, which kills the subprocess when the context ends;    *)
(* and the consumer, which ranges over Events() and then calls Wait(ctx).  *)
(*                                                                         *)
(* A line is its number; what ParseLine makes of it is in `plan': "event", *)
(* "skip" (blank line or session header), "bad" (not JSON), or "long"      *)
(* (longer than the scanner's buffer of one MiB).                          *)
(***************************************************************************)
EXTENDS Integers, Sequences, SequencesExt

CONSTANTS
    MaxLines,    \* bound on the lines the subprocess writes
    Kinds,       \* what it may do next: kinds of lines, or "hang"
    PipeCap,     \* lines that fit into the stdout pipe
    ChanCap,     \* capacity of the events channel (64)
    MayFork      \* the subprocess may leave a child that holds its pipes

\* What ParseLine, and the scanner before it, can make of a line.
LineKinds == {"event", "skip", "bad", "long"}

ASSUME ConstantsAssumption ==
    /\ MaxLines \in Nat /\ PipeCap \in Nat \ {0} /\ ChanCap \in Nat \ {0}
    /\ Kinds \subseteq LineKinds \cup {"hang"}
    /\ MayFork \in BOOLEAN

VARIABLES
    plan,      \* the lines the subprocess is going to write; it never gets
               \* past a "hang", where it waits for something else
    written,   \* how many it has written
    pipe,      \* lines written and not yet scanned
    child,     \* "unborn", "running", "exited"
    exit,      \* "none", "zero", "nonzero", "killed"
    orphan,    \* a descendant of the subprocess holds the pipes open
    scanner,   \* "off", "scanning", "done": events and scanDone are closed
    events,    \* the events channel
    noted,     \* lines noted in stderrBuf: unparsable or dropped
    stderr,    \* "off", "open", "done": stderrDone is closed
    reaper,    \* "off", "scan", "stderr", "proc", "done": d.done is closed
    consumer,  \* "spawn", "drain", "wait", "returned"
    got,       \* events the consumer has received
    outcome,   \* what Spawn or Wait returned: "none", "error", "success", "failed"
    ctxDone    \* the context of Spawn and Wait is over

childVars == <<plan, written, child, exit, orphan>>
driverVars == <<scanner, events, noted, stderr, reaper>>
consumerVars == <<consumer, got, outcome>>
vars == <<childVars, pipe, driverVars, consumerVars, ctxDone>>

Lines == 1 .. MaxLines

TypeOK ==
    /\ plan \in Seq(Kinds) /\ Len(plan) <= MaxLines
    /\ written \in 0 .. Len(plan)
    /\ pipe \in Seq(Lines) /\ Len(pipe) <= PipeCap
    /\ child \in {"unborn", "running", "exited"}
    /\ exit \in {"none", "zero", "nonzero", "killed"}
    /\ orphan \in BOOLEAN
    /\ scanner \in {"off", "scanning", "done"}
    /\ events \in Seq(Lines) /\ Len(events) <= ChanCap
    /\ noted \subseteq Lines
    /\ stderr \in {"off", "open", "done"}
    /\ reaper \in {"off", "scan", "stderr", "proc", "done"}
    /\ consumer \in {"spawn", "drain", "wait", "returned"}
    /\ got \in Seq(Lines)
    /\ outcome \in {"none", "error", "success", "failed"}
    /\ ctxDone \in BOOLEAN

Init ==
    /\ plan \in BoundedSeq(Kinds, MaxLines)
    /\ written = 0
    /\ pipe = <<>>
    /\ child = "unborn"
    /\ exit = "none"
    /\ orphan = FALSE
    /\ scanner = "off"
    /\ events = <<>>
    /\ noted = {}
    /\ stderr = "off"
    /\ reaper = "off"
    /\ consumer = "spawn"
    /\ got = <<>>
    /\ outcome = "none"
    /\ ctxDone = FALSE

-----------------------------------------------------------------------------
(* Spawn *)

\* The subprocess and the three goroutines start.
Spawn ==
    /\ consumer = "spawn"
    /\ child' = "running"
    /\ scanner' = "scanning"
    /\ stderr' = "open"
    /\ reaper' = "scan"
    /\ consumer' = "drain"
    /\ UNCHANGED <<plan, written, pipe, exit, orphan, events, noted, got, outcome, ctxDone>>

\* A pipe cannot be made or the binary cannot be started.
SpawnFails ==
    /\ consumer = "spawn"
    /\ consumer' = "returned"
    /\ outcome' = "error"
    /\ UNCHANGED <<childVars, pipe, driverVars, got, ctxDone>>

-----------------------------------------------------------------------------
(* The subprocess (external) *)

WriteLine ==
    /\ child = "running"
    /\ written < Len(plan) /\ plan[written + 1] # "hang"
    /\ Len(pipe) < PipeCap
    /\ written' = written + 1
    /\ pipe' = Append(pipe, written + 1)
    /\ UNCHANGED <<plan, child, exit, orphan, driverVars, consumerVars, ctxDone>>

\* The subprocess ends by itself when it has written everything.
ChildExits ==
    /\ child = "running"
    /\ written = Len(plan)
    /\ child' = "exited"
    /\ exit' \in {"zero", "nonzero"}
    /\ UNCHANGED <<plan, written, orphan, pipe, driverVars, consumerVars, ctxDone>>

\* It starts a command that inherits its stdout and stderr.
Fork ==
    /\ MayFork
    /\ child = "running"
    /\ orphan' = TRUE
    /\ UNCHANGED <<plan, written, child, exit, pipe, driverVars, consumerVars, ctxDone>>

OrphanExits ==
    /\ orphan
    /\ orphan' = FALSE
    /\ UNCHANGED <<plan, written, child, exit, pipe, driverVars, consumerVars, ctxDone>>

Killed ==
    /\ child = "running"
    /\ child' = "exited"
    /\ exit' = "killed"
    /\ UNCHANGED <<plan, written, orphan, pipe, driverVars, consumerVars, ctxDone>>

\* Mutant: exec.Command, which knows no context.
NoKillOnCancel == ctxDone /\ Killed /\ FALSE

\* exec.CommandContext: the subprocess, and only it, is killed.
KillOnCancel == ctxDone /\ Killed

\* Abort sends SIGKILL at any time after Spawn.
Abort == Killed

Cancel ==
    /\ ~ctxDone
    /\ ctxDone' = TRUE
    /\ UNCHANGED <<childVars, pipe, driverVars, consumerVars>>

\* Both ends of the pipes are closed on the writing side.
WriteEndsClosed == child = "exited" /\ ~orphan

-----------------------------------------------------------------------------
(* The stdout scanner *)

\* Mutant: a full channel loses the event without a note.
PushUnnoted(i) ==
    IF Len(events) < ChanCap
    THEN events' = Append(events, i) /\ UNCHANGED noted
    ELSE UNCHANGED <<events, noted>>

\* The non-blocking send: an event that finds the channel full is dropped and
\* noted.
Push(i) ==
    IF Len(events) < ChanCap
    THEN events' = Append(events, i) /\ UNCHANGED noted
    ELSE noted' = noted \cup {i} /\ UNCHANGED events

\* One turn of the scanner's loop.
ScanLine ==
    LET i == Head(pipe) IN
    /\ scanner = "scanning"
    /\ pipe # <<>>
    /\ pipe' = Tail(pipe)
    /\ \/ plan[i] = "event" /\ Push(i) /\ UNCHANGED scanner
       \/ plan[i] = "skip" /\ UNCHANGED <<events, noted, scanner>>
       \/ plan[i] = "bad" /\ noted' = noted \cup {i} /\ UNCHANGED <<events, scanner>>
       \* Scan returns false with ErrTooLong, which nobody looks at.
       \/ plan[i] = "long" /\ scanner' = "done" /\ UNCHANGED <<events, noted>>
    /\ UNCHANGED <<childVars, stderr, reaper, consumerVars, ctxDone>>

ScanEOF ==
    /\ scanner = "scanning"
    /\ pipe = <<>>
    /\ WriteEndsClosed
    /\ scanner' = "done"
    /\ UNCHANGED <<childVars, pipe, events, noted, stderr, reaper, consumerVars, ctxDone>>

-----------------------------------------------------------------------------
(* The stderr drainer and the wait-reaper *)

\* Mutant: a drainer that does not close stderrDone.
StderrNeverDone == stderr = "open" /\ WriteEndsClosed /\ UNCHANGED vars

StderrEOF ==
    /\ stderr = "open"
    /\ WriteEndsClosed
    /\ stderr' = "done"
    /\ UNCHANGED <<childVars, pipe, scanner, events, noted, reaper, consumerVars, ctxDone>>

\* <-scanDone, <-stderrDone, then cmd.Wait; publishResult and close(d.done) are
\* one step, as the result is read only after done is closed.
Reap ==
    /\ \/ reaper = "scan" /\ scanner = "done" /\ reaper' = "stderr"
       \/ reaper = "stderr" /\ stderr = "done" /\ reaper' = "proc"
       \/ reaper = "proc" /\ child = "exited" /\ reaper' = "done"
    /\ UNCHANGED <<childVars, pipe, scanner, events, noted, stderr, consumerVars, ctxDone>>

-----------------------------------------------------------------------------
(* The consumer: runWithWorker's range over Events(), then Wait *)

Receive ==
    /\ consumer = "drain"
    /\ events # <<>>
    /\ got' = Append(got, Head(events))
    /\ events' = Tail(events)
    /\ UNCHANGED <<childVars, pipe, scanner, noted, stderr, reaper, consumer, outcome, ctxDone>>

RangeEnds ==
    /\ consumer = "drain"
    /\ events = <<>>
    /\ scanner = "done"
    /\ consumer' = "wait"
    /\ UNCHANGED <<childVars, pipe, driverVars, got, outcome, ctxDone>>

\* Mutant: every exit that can be encoded counts as a success.
PublishedLenient(e) == IF e = "killed" THEN "error" ELSE "success"

\* publishResult: a signalled process has no exit code and is a Wait error.
Published(e) ==
    CASE e = "zero" -> "success" [] e = "nonzero" -> "failed" [] OTHER -> "error"

\* The select of Wait: either case may be taken when both are ready.
WaitDone ==
    /\ consumer = "wait"
    /\ reaper = "done"
    /\ outcome' = Published(exit)
    /\ consumer' = "returned"
    /\ UNCHANGED <<childVars, pipe, driverVars, got, ctxDone>>

WaitCancelled ==
    /\ consumer = "wait"
    /\ ctxDone
    /\ outcome' = "error"
    /\ consumer' = "returned"
    /\ UNCHANGED <<childVars, pipe, driverVars, got, ctxDone>>

-----------------------------------------------------------------------------

Scanner == ScanLine \/ ScanEOF
Consumer == Receive \/ RangeEnds \/ WaitDone \/ WaitCancelled
Subprocess == WriteLine \/ ChildExits

\* Everything has ended.
Quiescent ==
    /\ consumer = "returned"
    /\ child # "running"
    /\ UNCHANGED vars

Next ==
    \/ Spawn \/ SpawnFails
    \/ Subprocess \/ Fork \/ OrphanExits
    \/ KillOnCancel \/ Abort \/ Cancel
    \/ Scanner \/ StderrEOF \/ Reap
    \/ Consumer
    \/ Quiescent

Spec == Init /\ [][Next]_vars

\* The goroutines run, the kernel delivers SIGKILL and EOF, and a subprocess
\* that can write or exit does so.  Nothing is promised for Fork, Cancel, Abort
\* or the life of a descendant.
FairSpec ==
    /\ Spec
    /\ WF_vars(Spawn \/ SpawnFails) /\ WF_vars(Subprocess) /\ WF_vars(KillOnCancel)
    /\ WF_vars(Scanner) /\ WF_vars(StderrEOF) /\ WF_vars(Reap) /\ WF_vars(Consumer)

-----------------------------------------------------------------------------
(* Properties *)

\* Every line fits into the scanner's buffer, and the subprocess does not hang.
WellBehaved == \A i \in 1 .. Len(plan) : plan[i] \notin {"long", "hang"}

\* No line of the subprocess gets lost without a trace: a line that was written
\* is still in the pipe, or was nothing, or was delivered, or is waiting in the
\* channel, or is noted in stderrBuf, or was one the scanner gives up on; and
\* events arrive in the order they were written (pi.go:203-234).
EventsAccounted ==
    /\ \A i \in 1 .. written :
          \/ plan[i] \in {"skip", "long"}
          \/ i \in ToSet(pipe) \cup ToSet(got) \cup ToSet(events) \cup noted
    /\ LET seen == got \o events \o pipe
       IN  \A i, j \in DOMAIN seen : i < j => seen[i] < seen[j]

\* Wait reports success only for a subprocess that exited with status zero after
\* its whole output was read and consumed, if its lines fit into the buffer
\* (pi.go:137-148, 166-190).
SuccessIsComplete ==
    outcome = "success" /\ WellBehaved =>
        exit = "zero" /\ written = Len(plan) /\ pipe = <<>> /\ events = <<>>

\* A descendant of the subprocess never lets go of the pipes.
HeldOpen == <>[]orphan

\* A run of a well-behaved subprocess returns, unless a descendant holds the
\* pipes open for ever (pi.go:137-141: the reaper's ordering "is non-blocking in
\* the steady state").
RunReturns == WellBehaved => <>(consumer = "returned") \/ HeldOpen

\* A cancelled run returns, even if the subprocess hangs or is stuck on a full
\* pipe nobody reads, unless a descendant, which is not killed, holds the pipes
\* open (pi.go:96, 243-255).
CancelReturns == HeldOpen \/ (ctxDone ~> consumer = "returned")

=============================================================================
