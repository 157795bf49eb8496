--------------------------- MODULE StateStoreProofs ---------------------------
(***************************************************************************)
(* Proofs about StateStore, for every number of sessions, processes and    *)
(* hosts and every bound.                                                  *)
(***************************************************************************)
EXTENDS StateStore, TLAPS

\* The shape of the states, named for the proofs of the step.
LEMMA IdleIsCall == Idle \in Calls
<1>1. 0 \in Times
  BY ConstantsAssumption DEF Times
<1>2. NewRecord \in Record
  BY <1>1 DEF NewRecord, Record, Lifecycle, Reasons
<1> QED
  BY <1>1, <1>2 DEF Idle, Calls, Paths, Lifecycle, Reasons

\* What Transition and the sweep write is a record.
LEMMA NextRecordType ==
    ASSUME NEW current \in Record, NEW c \in Calls
    PROVE  NextRecord(current, c) \in Record
BY DEF NextRecord, Record, Calls

LEMMA CurrentType ==
    ASSUME TypeOK, NEW x \in Paths
    PROVE  Current(x) \in Record
<1>1. NewRecord \in Record
  BY ConstantsAssumption DEF NewRecord, Record, Lifecycle, Reasons, Times
<1> QED
  BY <1>1 DEF Current, TypeOK

\* The type invariant is inductive.
LEMMA TypeStep == TypeOK /\ [Next]_vars => TypeOK'
<1> SUFFICES ASSUME TypeOK, [Next]_vars
             PROVE  TypeOK'
  OBVIOUS
<1> USE ConstantsAssumption
<1>1. ASSUME NEW p \in Procs, NEW s \in Sessions, NEW in \in Inputs, BeginTransition(p, s, in)
      PROVE  TypeOK'
  <2>1. [Idle EXCEPT !.pc = "read", !.path = s,
             !.to = in.to, !.reason = in.reason, !.now = clock] \in Calls
    <3>1. in.to \in Lifecycle /\ in.reason \in Reasons
      BY DEF Inputs, Reasons, Lifecycle
    <3>2. clock \in Times /\ s \in Paths
      BY DEF TypeOK, Times, Paths
    <3> QED BY <3>1, <3>2, IdleIsCall DEF Calls
  <2> QED BY <1>1, <2>1 DEF TypeOK, BeginTransition
<1>2. ASSUME NEW p \in Procs, NEW to \in RootLifecycles, BeginWriteRoot(p, to)
      PROVE  TypeOK'
  <2>1. [NewRecord EXCEPT !.lifecycle = to] \in Record
    BY DEF NewRecord, Record, Times, Reasons
  <2>2. [Idle EXCEPT !.pc = "lock", !.next = [NewRecord EXCEPT !.lifecycle = to]] \in Calls
    BY <2>1, IdleIsCall DEF Calls
  <2> QED BY <1>2, <2>2 DEF TypeOK, BeginWriteRoot
<1>3. ASSUME NEW p \in Procs, BeginSweep(p)
      PROVE  TypeOK'
  <2>1. [Idle EXCEPT !.pc = "sweep", !.now = clock, !.todo = dirs] \in Calls
    <3>1. clock \in Times /\ dirs \in SUBSET Sessions
      BY DEF TypeOK, Times
    <3> QED BY <3>1, IdleIsCall DEF Calls
  <2> QED BY <1>3, <2>1 DEF TypeOK, BeginSweep
<1>4. ASSUME NEW p \in Procs, ReadCurrent(p)
      PROVE  TypeOK'
  <2> DEFINE c == call[p]
             n == NextRecord(Current(c.path), c)
  <2>1. c \in Calls /\ c.path \in Paths
    BY DEF TypeOK, Calls
  <2>2. n \in Record
    BY <2>1, CurrentType, NextRecordType
  <2>3. [c EXCEPT !.pc = "lock", !.next = n] \in Calls
    BY <2>1, <2>2 DEF Calls
  <2>4. call' \in [Procs -> Calls]
    BY <1>4, <2>3, IdleIsCall DEF TypeOK, ReadCurrent, Return
  <2> QED BY <1>4, <2>4 DEF TypeOK, ReadCurrent
<1>5. ASSUME NEW p \in Procs, ReadFails(p) \/ SweepEnds(p) \/ MkdirFails(p)
      PROVE  TypeOK'
  BY <1>5, IdleIsCall DEF TypeOK, ReadFails, SweepEnds, MkdirFails, Return
<1>6. ASSUME NEW p \in Procs, MkdirAll(p)
      PROVE  TypeOK'
  <2>1. [call[p] EXCEPT !.pc = "rename"] \in Calls
    BY DEF TypeOK, Calls
  <2>2. call' \in [Procs -> Calls]
    BY <1>6, <2>1 DEF TypeOK, MkdirAll
  <2> QED BY <1>6, <2>2 DEF TypeOK, MkdirAll
<1>7. ASSUME NEW p \in Procs, Rename(p)
      PROVE  TypeOK'
  <2>1. call[p].next \in Record
    BY DEF TypeOK, Calls
  <2> QED BY <1>7, <2>1, IdleIsCall DEF TypeOK, Rename, Unlock, Return
<1>8. ASSUME NEW p \in Procs, WriteFails(p)
      PROVE  TypeOK'
  BY <1>8, IdleIsCall DEF TypeOK, WriteFails, Unlock, Return
<1>9. ASSUME NEW p \in Procs, NEW s \in Sessions, SweepEntry(p, s)
      PROVE  TypeOK'
  <2> DEFINE c == call[p]
  <2>1. c \in Calls
    BY DEF TypeOK
  <2>2. ASSUME disk[s] # NoFile
        PROVE  [c EXCEPT !.pc = "lock", !.path = s, !.todo = {}, !.next = Marked(disk[s])] \in Calls
    <3>1. disk[s] \in Record
      BY <2>2 DEF TypeOK, Paths
    <3>2. Marked(disk[s]) \in Record
      BY <3>1 DEF Marked, Record, Lifecycle, Reasons
    <3> QED BY <2>1, <3>2 DEF Calls, Paths
  <2>3. [c EXCEPT !.todo = @ \ {s}] \in Calls
    BY <2>1 DEF Calls
  <2>4. call' \in [Procs -> Calls]
    BY <1>9, <2>1, <2>2, <2>3, IdleIsCall DEF TypeOK, SweepEntry, Return
  <2> QED BY <1>9, <2>4 DEF TypeOK, SweepEntry
<1>10. ASSUME NEW h \in Hosts, Crash(h)
       PROVE  TypeOK'
  BY <1>10, IdleIsCall DEF TypeOK, Crash
<1>11. CASE Tick
  BY <1>11 DEF TypeOK, Tick
<1>12. CASE UNCHANGED vars
  BY <1>12 DEF TypeOK, vars
<1> QED
  BY <1>1, <1>2, <1>3, <1>4, <1>5, <1>6, <1>7, <1>8, <1>9, <1>10, <1>11, <1>12
  DEF Next, Begin, Step

\* The state of the store always has its type: records on disk, mutex holders
\* and the calls in progress (state.go:41-74).
THEOREM TypeCorrect == Spec => []TypeOK
<1>1. Init => TypeOK
  BY IdleIsCall, ConstantsAssumption DEF Init, TypeOK
<1> QED
  BY <1>1, TypeStep, PTL DEF Spec

-----------------------------------------------------------------------------
(* Records on disk are well formed, whatever the interleaving. *)

\* Time only moves forward, so that a well-formed record stays well formed.
LEMMA WellFormedStable ==
    ASSUME TypeOK, clock' \in Nat, clock <= clock', NEW r, r \in Record, WellFormed(r)
    PROVE  WellFormed(r)'
BY ConstantsAssumption DEF WellFormed, TypeOK, Record, Times

\* What Transition writes is well formed, whatever it read.
LEMMA NextRecordWellFormed ==
    ASSUME TypeOK, NEW c \in Calls, NEW current \in Record, c.now \in 1 .. clock,
           ValidTransition(current.lifecycle, c.to), c.reason # "none" => c.to = "blocked"
    PROVE  WellFormed(NextRecord(current, c))
<1>1. c.to # "inactive"
  BY DEF ValidTransition, Allowed, Terminal
<1> QED
  BY <1>1 DEF WellFormed, NextRecord

\* What the sweep writes is well formed.
LEMMA MarkedWellFormed ==
    ASSUME NEW r \in Record
    PROVE  WellFormed(Marked(r))
BY DEF WellFormed, Marked, Record

RecordInv == TypeOK /\ RecordsWellFormed /\ CallsWellFormed

\* One step keeps what is on disk, and what is about to be written, well formed.
LEMMA RecordStep == RecordInv /\ [Next]_vars => RecordInv'
<1> SUFFICES ASSUME RecordInv, [Next]_vars
             PROVE  RecordsWellFormed' /\ CallsWellFormed'
  BY TypeStep DEF RecordInv
<1>0. TypeOK /\ RecordsWellFormed /\ CallsWellFormed /\ TypeOK'
  BY TypeStep DEF RecordInv
<1> USE ConstantsAssumption
<1>a. Idle.pc = "idle"
  BY DEF Idle
<1>t. clock \in Nat /\ clock' \in Nat /\ clock \in 1 .. clock
  BY <1>0 DEF TypeOK
\* Steps that leave the clock and the disk alone and change the call of p only.
<1>b. ASSUME NEW p \in Procs, clock' = clock, disk' = disk,
             \A q \in Procs : q # p => call'[q] = call[q],
             \/ call'[p].pc = "idle"
             \/ /\ call'[p].pc \in {"read", "sweep"}
                /\ call'[p].now \in 1 .. clock
                /\ call'[p].pc = "read" =>
                     call'[p].path \in Sessions
                     /\ (call'[p].reason # "none" => call'[p].to = "blocked")
             \/ /\ call'[p].pc \in {"lock", "rename"}
                /\ call'[p].path \in Sessions => WellFormed(call'[p].next)
      PROVE  RecordsWellFormed' /\ CallsWellFormed'
  BY <1>0, <1>b DEF RecordsWellFormed, CallsWellFormed, WellFormed
<1>1. ASSUME NEW p \in Procs, NEW s \in Sessions, NEW in \in Inputs, BeginTransition(p, s, in)
      PROVE  RecordsWellFormed' /\ CallsWellFormed'
  <2>1. /\ call'[p].pc = "read" /\ call'[p].path = s /\ call'[p].now = clock
        /\ call'[p].reason = in.reason /\ call'[p].to = in.to
    BY <1>0, <1>1 DEF BeginTransition, TypeOK, Idle
  <2>2. in.reason # "none" => in.to = "blocked"
    BY DEF Inputs
  <2> QED BY <1>0, <1>1, <1>t, <1>b, <2>1, <2>2 DEF BeginTransition, TypeOK
<1>2. ASSUME NEW p \in Procs, NEW to \in RootLifecycles, BeginWriteRoot(p, to)
      PROVE  RecordsWellFormed' /\ CallsWellFormed'
  <2>1. call'[p].pc = "lock" /\ call'[p].path = Root
    BY <1>0, <1>2 DEF BeginWriteRoot, TypeOK, Idle
  <2> QED BY <1>0, <1>2, <1>b, <2>1 DEF BeginWriteRoot, TypeOK
<1>3. ASSUME NEW p \in Procs, BeginSweep(p)
      PROVE  RecordsWellFormed' /\ CallsWellFormed'
  <2>1. call'[p].pc = "sweep" /\ call'[p].now = clock
    BY <1>0, <1>3 DEF BeginSweep, TypeOK, Idle
  <2> QED BY <1>0, <1>3, <1>t, <1>b, <2>1 DEF BeginSweep, TypeOK
<1>4. ASSUME NEW p \in Procs, ReadCurrent(p)
      PROVE  RecordsWellFormed' /\ CallsWellFormed'
  <2> DEFINE c == call[p]
             current == Current(c.path)
  <2>1. c \in Calls /\ c.path \in Sessions /\ c.path \in Paths
    BY <1>0, <1>4 DEF TypeOK, Calls, ReadCurrent, CallsWellFormed
  <2>2. current \in Record
    BY <1>0, <2>1, CurrentType
  <2>3. CASE ValidTransition(current.lifecycle, c.to)
    <3>1. c.now \in 1 .. clock /\ (c.reason # "none" => c.to = "blocked")
      BY <1>0, <1>4 DEF ReadCurrent, CallsWellFormed
    <3>2. WellFormed(NextRecord(current, c))
      BY <1>0, <2>1, <2>2, <2>3, <3>1, NextRecordWellFormed
    <3>3. call'[p].pc = "lock" /\ call'[p].next = NextRecord(current, c)
      BY <1>0, <1>4, <2>1, <2>3 DEF ReadCurrent, TypeOK, Calls
    <3>4. clock' = clock /\ disk' = disk /\ \A q \in Procs : q # p => call'[q] = call[q]
      BY <1>0, <1>4, <2>3 DEF ReadCurrent, TypeOK
    <3> HIDE DEF c, current
    <3> QED BY <1>b, <3>2, <3>3, <3>4
  <2>4. CASE ~ValidTransition(current.lifecycle, c.to)
    BY <1>0, <1>4, <1>a, <1>b, <2>4 DEF ReadCurrent, Return, TypeOK
  <2> QED BY <2>3, <2>4
<1>5. ASSUME NEW p \in Procs, ReadFails(p) \/ SweepEnds(p) \/ MkdirFails(p) \/ WriteFails(p)
      PROVE  RecordsWellFormed' /\ CallsWellFormed'
  BY <1>0, <1>5, <1>a, <1>b DEF ReadFails, SweepEnds, MkdirFails, WriteFails, Return, TypeOK
<1>6. ASSUME NEW p \in Procs, MkdirAll(p)
      PROVE  RecordsWellFormed' /\ CallsWellFormed'
  <2>1. /\ call'[p].pc = "rename" /\ call'[p].path = call[p].path
        /\ call'[p].next = call[p].next
    BY <1>0, <1>6 DEF MkdirAll, TypeOK, Calls
  <2>2. call[p].path \in Sessions => WellFormed(call[p].next)
    BY <1>0, <1>6 DEF MkdirAll, CallsWellFormed
  <2> QED BY <1>0, <1>6, <1>b, <2>1, <2>2 DEF MkdirAll, TypeOK, WellFormed
<1>7. ASSUME NEW p \in Procs, Rename(p)
      PROVE  RecordsWellFormed' /\ CallsWellFormed'
  <2>1. call[p].path \in Sessions => WellFormed(call[p].next)
    BY <1>0, <1>7 DEF Rename, CallsWellFormed
  <2>2. RecordsWellFormed'
    BY <1>0, <1>7, <2>1 DEF Rename, RecordsWellFormed, WellFormed, TypeOK, Paths
  <2>3. CallsWellFormed'
    BY <1>0, <1>7, <1>a DEF Rename, Return, CallsWellFormed, WellFormed, TypeOK
  <2> QED BY <2>2, <2>3
<1>9. ASSUME NEW p \in Procs, NEW s \in Sessions, SweepEntry(p, s)
      PROVE  RecordsWellFormed' /\ CallsWellFormed'
  <2>0. clock' = clock /\ disk' = disk /\ \A q \in Procs : q # p => call'[q] = call[q]
    BY <1>0, <1>9 DEF SweepEntry, Return, TypeOK
  <2>1. CASE disk[s] = NoFile
    BY <1>0, <1>9, <1>a, <1>b, <2>1 DEF SweepEntry, Return, TypeOK
  <2>2. CASE disk[s] # NoFile /\ Stale(disk[s], call[p].now)
    <3>1. disk[s] \in Record
      BY <1>0, <2>2 DEF TypeOK, Paths
    <3>2. WellFormed(Marked(disk[s]))
      BY <3>1, MarkedWellFormed
    <3>3. call'[p].pc = "lock" /\ call'[p].next = Marked(disk[s])
      BY <1>0, <1>9, <2>2 DEF SweepEntry, TypeOK, Calls
    <3> QED BY <1>b, <2>0, <3>2, <3>3
  <2>3. CASE disk[s] # NoFile /\ ~Stale(disk[s], call[p].now)
    <3>1. call'[p].pc = "sweep" /\ call'[p].now = call[p].now
      BY <1>0, <1>9, <2>3 DEF SweepEntry, TypeOK, Calls
    <3>2. call[p].now \in 1 .. clock
      BY <1>0, <1>9 DEF SweepEntry, CallsWellFormed
    <3> QED BY <1>b, <2>0, <3>1, <3>2
  <2> QED BY <2>1, <2>2, <2>3
<1>10. ASSUME NEW h \in Hosts, Crash(h)
       PROVE  RecordsWellFormed' /\ CallsWellFormed'
  BY <1>0, <1>10, <1>a DEF Crash, RecordsWellFormed, CallsWellFormed, WellFormed, TypeOK
<1>11. CASE Tick
  <2>1. clock <= clock' /\ disk' = disk /\ call' = call
    BY <1>t, <1>11 DEF Tick
  <2>2. RecordsWellFormed'
    BY <1>0, <1>t, <2>1, WellFormedStable DEF RecordsWellFormed, TypeOK, Paths
  <2>3. CallsWellFormed'
    BY <1>0, <1>t, <2>1, WellFormedStable DEF CallsWellFormed, TypeOK, Calls, Times
  <2> QED BY <2>2, <2>3
<1>12. CASE UNCHANGED vars
  BY <1>0, <1>12 DEF vars, RecordsWellFormed, CallsWellFormed, WellFormed
<1> QED
  BY <1>1, <1>2, <1>3, <1>4, <1>5, <1>6, <1>7, <1>9, <1>10, <1>11, <1>12
  DEF Next, Begin, Step

\* Under every interleaving, crash and failed write, a record on disk was built
\* whole by one call: blocked reasons and heartbeats agree with the lifecycle.
THEOREM RecordsAlwaysWellFormed == Spec => []RecordsWellFormed
<1>1. Init => RecordInv
  <2>1. Init => TypeOK
    BY IdleIsCall, ConstantsAssumption DEF Init, TypeOK
  <2>2. Init => RecordsWellFormed /\ CallsWellFormed
    BY DEF Init, RecordsWellFormed, CallsWellFormed, Paths, Idle
  <2> QED BY <2>1, <2>2 DEF RecordInv
<1>2. RecordInv => RecordsWellFormed
  BY DEF RecordInv
<1> QED
  BY <1>1, <1>2, RecordStep, PTL DEF Spec

-----------------------------------------------------------------------------
(* One writer per session: terminal lifecycles are final. *)

SingleInv == TypeOK /\ CallsCurrent

\* What a writer read is still on disk when it writes, because nobody else
\* writes the session.
LEMMA CurrentStep ==
    ASSUME SingleWriter
    PROVE  SingleInv /\ [Next]_vars => SingleInv'
<1> SUFFICES ASSUME SingleInv, [Next]_vars
             PROVE  CallsCurrent'
  BY TypeStep DEF SingleInv
<1>0. TypeOK /\ CallsCurrent
  BY DEF SingleInv
<1> USE ConstantsAssumption
<1>a. Idle.pc = "idle"
  BY DEF Idle
\* Steps that leave the disk alone and change the call of p only.
<1>b. ASSUME NEW p \in Procs, disk' = disk, \A q \in Procs : q # p => call'[q] = call[q],
             \/ call'[p].pc = "idle"
             \/ /\ call'[p].pc = "sweep"
                /\ p \in Sweepers
             \/ /\ call'[p].pc = "read"
                /\ call'[p].path \in Sessions => p \in Writers(call'[p].path)
             \/ /\ call'[p].pc \in {"lock", "rename"}
                /\ call'[p].path \in Sessions =>
                     /\ p \in Writers(call'[p].path)
                     /\ ValidTransition(LifecycleOf(call'[p].path), call'[p].next.lifecycle)
      PROVE  CallsCurrent'
  BY <1>0, <1>b DEF CallsCurrent, LifecycleOf, Current
<1>1. ASSUME NEW p \in Procs, NEW s \in Sessions, NEW in \in Inputs, BeginTransition(p, s, in)
      PROVE  CallsCurrent'
  <2>1. call'[p].pc = "read" /\ call'[p].path = s
    BY <1>0, <1>1 DEF BeginTransition, TypeOK, Idle
  <2>2. p \in Writers(s)
    BY <1>1 DEF BeginTransition, Writers
  <2> QED BY <1>0, <1>1, <1>b, <2>1, <2>2 DEF BeginTransition, TypeOK
<1>2. ASSUME NEW p \in Procs, NEW to \in RootLifecycles, BeginWriteRoot(p, to)
      PROVE  CallsCurrent'
  <2>1. call'[p].pc = "lock" /\ call'[p].path = Root
    BY <1>0, <1>2 DEF BeginWriteRoot, TypeOK, Idle
  <2> QED BY <1>0, <1>2, <1>b, <2>1 DEF BeginWriteRoot, TypeOK
<1>3. ASSUME NEW p \in Procs, BeginSweep(p)
      PROVE  CallsCurrent'
  <2>1. call'[p].pc = "sweep" /\ p \in Sweepers
    BY <1>0, <1>3 DEF BeginSweep, TypeOK, Idle
  <2> QED BY <1>0, <1>3, <1>b, <2>1 DEF BeginSweep, TypeOK
<1>4. ASSUME NEW p \in Procs, ReadCurrent(p)
      PROVE  CallsCurrent'
  <2> DEFINE c == call[p]
             current == Current(c.path)
  <2>0. disk' = disk /\ \A q \in Procs : q # p => call'[q] = call[q]
    BY <1>0, <1>4 DEF ReadCurrent, Return, TypeOK
  <2>1. CASE ValidTransition(current.lifecycle, c.to)
    <3>1. /\ call'[p].pc = "lock" /\ call'[p].path = c.path
          /\ call'[p].next = NextRecord(current, c)
      BY <1>0, <1>4, <2>1 DEF ReadCurrent, TypeOK, Calls
    <3>2. NextRecord(current, c).lifecycle = c.to
      BY DEF NextRecord
    <3>3. c.path \in Sessions => p \in Writers(c.path)
      BY <1>0, <1>4 DEF ReadCurrent, CallsCurrent
    <3>4. ValidTransition(LifecycleOf(c.path), c.to)
      BY <2>1 DEF LifecycleOf
    <3> HIDE DEF c, current
    <3> QED BY <1>b, <2>0, <3>1, <3>2, <3>3, <3>4
  <2>2. CASE ~ValidTransition(current.lifecycle, c.to)
    BY <1>0, <1>4, <1>a, <1>b, <2>0, <2>2 DEF ReadCurrent, Return, TypeOK
  <2> QED BY <2>1, <2>2
<1>5. ASSUME NEW p \in Procs, ReadFails(p) \/ SweepEnds(p) \/ MkdirFails(p) \/ WriteFails(p)
      PROVE  CallsCurrent'
  BY <1>0, <1>5, <1>a, <1>b DEF ReadFails, SweepEnds, MkdirFails, WriteFails, Return, TypeOK
<1>6. ASSUME NEW p \in Procs, MkdirAll(p)
      PROVE  CallsCurrent'
  <2>1. /\ call'[p].pc = "rename" /\ call'[p].path = call[p].path
        /\ call'[p].next = call[p].next
    BY <1>0, <1>6 DEF MkdirAll, TypeOK, Calls
  <2>2. call[p].path \in Sessions =>
          /\ p \in Writers(call[p].path)
          /\ ValidTransition(LifecycleOf(call[p].path), call[p].next.lifecycle)
    BY <1>0, <1>6 DEF MkdirAll, CallsCurrent
  <2>3. disk' = disk /\ \A q \in Procs : q # p => call'[q] = call[q]
    BY <1>0, <1>6 DEF MkdirAll, TypeOK
  <2> QED BY <1>b, <2>1, <2>2, <2>3
<1>7. ASSUME NEW p \in Procs, Rename(p)
      PROVE  CallsCurrent'
  <2>1. call[p].path \in Sessions => p \in Writers(call[p].path)
    BY <1>0, <1>7 DEF Rename, CallsCurrent
  <2>2. call'[p].pc = "idle" /\ \A q \in Procs : q # p => call'[q] = call[q]
    BY <1>0, <1>7, <1>a DEF Rename, Return, TypeOK
  <2>3. \A x \in Paths : x # call[p].path => disk'[x] = disk[x]
    BY <1>0, <1>7 DEF Rename, TypeOK
  <2>4. ASSUME NEW q \in Procs, q # p, call[q].pc \in {"lock", "rename"},
               call[q].path \in Sessions
        PROVE  call[q].path # call[p].path
    BY <1>0, <2>1, <2>4 DEF CallsCurrent, SingleWriter
  <2>5. ASSUME NEW q \in Procs, q # p, call[q].pc \in {"lock", "rename"},
               call[q].path \in Sessions
        PROVE  LifecycleOf(call[q].path)' = LifecycleOf(call[q].path)
    BY <2>2, <2>3, <2>4, <2>5 DEF LifecycleOf, Current, Paths
  <2> QED BY <1>0, <2>2, <2>5 DEF CallsCurrent
<1>9. ASSUME NEW p \in Procs, NEW s \in Sessions, SweepEntry(p, s)
      PROVE  CallsCurrent'
  <2>0. disk' = disk /\ \A q \in Procs : q # p => call'[q] = call[q]
    BY <1>0, <1>9 DEF SweepEntry, Return, TypeOK
  <2>p. p \in Sweepers
    BY <1>0, <1>9 DEF SweepEntry, CallsCurrent
  <2>1. CASE disk[s] = NoFile
    BY <1>0, <1>9, <1>a, <1>b, <2>0, <2>1 DEF SweepEntry, Return, TypeOK
  <2>2. CASE disk[s] # NoFile /\ Stale(disk[s], call[p].now)
    <3>1. disk[s] \in Record
      BY <1>0, <2>2 DEF TypeOK, Paths
    <3>2. call'[p].pc = "lock" /\ call'[p].path = s /\ call'[p].next = Marked(disk[s])
      BY <1>0, <1>9, <2>2 DEF SweepEntry, TypeOK, Calls
    <3>3. Marked(disk[s]).lifecycle = "blocked"
      BY <3>1 DEF Marked, Record
    <3>4. LifecycleOf(s) = "running"
      BY <2>2 DEF LifecycleOf, Current, Stale
    <3>5. ValidTransition(LifecycleOf(s), "blocked")
      BY <3>4 DEF ValidTransition, Allowed, Terminal
    <3>6. p \in Writers(s)
      BY <2>p DEF Writers
    <3> QED BY <1>b, <2>0, <3>2, <3>3, <3>5, <3>6
  <2>3. CASE disk[s] # NoFile /\ ~Stale(disk[s], call[p].now)
    <3>1. call'[p].pc = "sweep"
      BY <1>0, <1>9, <2>3 DEF SweepEntry, TypeOK, Calls
    <3> QED BY <1>b, <2>0, <2>p, <3>1
  <2> QED BY <2>1, <2>2, <2>3
<1>10. ASSUME NEW h \in Hosts, Crash(h)
       PROVE  CallsCurrent'
  BY <1>0, <1>10, <1>a DEF Crash, CallsCurrent, LifecycleOf, Current, TypeOK
<1>11. CASE Tick
  BY <1>0, <1>11 DEF Tick, CallsCurrent, LifecycleOf, Current
<1>12. CASE UNCHANGED vars
  BY <1>0, <1>12 DEF vars, CallsCurrent, LifecycleOf, Current
<1> QED
  BY <1>1, <1>2, <1>3, <1>4, <1>5, <1>6, <1>7, <1>9, <1>10, <1>11, <1>12
  DEF Next, Begin, Step

LEMMA CurrentInit == Init => SingleInv
<1>1. Init => TypeOK
  BY IdleIsCall, ConstantsAssumption DEF Init, TypeOK
<1>2. Init => CallsCurrent
  BY DEF Init, CallsCurrent, Idle
<1> QED BY <1>1, <1>2 DEF SingleInv

\* Only Rename writes a file, and then the lifecycle of that session moves along
\* the table; every other step leaves all lifecycles alone.
LEMMA StepMovesOneSession ==
    ASSUME SingleInv, [Next]_vars
    PROVE  \/ \A s \in Sessions : LifecycleOf(s)' = LifecycleOf(s)
           \/ \E s \in Sessions, to \in Lifecycle :
                 /\ ValidTransition(LifecycleOf(s), to)
                 /\ LifecycleOf(s)' = to
                 /\ \A t \in Sessions \ {s} : LifecycleOf(t)' = LifecycleOf(t)
<1>0. TypeOK /\ CallsCurrent
  BY DEF SingleInv
<1>1. CASE \E p \in Procs : Rename(p)
  <2> PICK p \in Procs : Rename(p)
    BY <1>1
  <2> DEFINE x == call[p].path
             n == call[p].next
  <2>1. x \in Paths /\ n \in Record /\ n # NoFile
    BY <1>0, NoFileAssumption DEF TypeOK, Calls
  <2>2. disk'[x] = n /\ \A y \in Paths \ {x} : disk'[y] = disk[y]
    BY <1>0, <2>1 DEF Rename, TypeOK
  <2>3. \A t \in Sessions \ {x} : LifecycleOf(t)' = LifecycleOf(t)
    BY <2>2 DEF LifecycleOf, Current, Paths
  <2>4. CASE x \in Sessions
    <3> PICK s \in Sessions : s = x
      BY <2>4
    <3>1. ValidTransition(LifecycleOf(s), n.lifecycle)
      BY <1>0 DEF Rename, CallsCurrent
    <3>2. LifecycleOf(s)' = n.lifecycle
      BY <2>1, <2>2 DEF LifecycleOf, Current
    <3>3. n.lifecycle \in Lifecycle
      BY <2>1 DEF Record
    <3> QED BY <2>3, <3>1, <3>2, <3>3
  <2>5. CASE x \notin Sessions
    BY <2>3, <2>5
  <2> QED BY <2>4, <2>5
<1>2. CASE ~ \E p \in Procs : Rename(p)
  <2>1. disk' = disk
    BY <1>2 DEF Next, Begin, Step, vars, BeginTransition, BeginWriteRoot, BeginSweep, ReadCurrent,
                ReadFails, MkdirAll, MkdirFails, WriteFails, SweepEntry, SweepEnds, Crash, Tick
  <2> QED BY <2>1 DEF LifecycleOf, Current
<1> QED BY <1>1, <1>2

\* When every session has a single writer, a finished, failed or cancelled
\* session never changes again, whatever crashes or writes fail.
THEOREM SingleWriterTerminalIsFinal ==
    ASSUME SingleWriter
    PROVE  Spec => TerminalIsFinal
<1>1. SingleInv /\ [Next]_vars =>
          [\A s \in Sessions : LifecycleOf(s) \in Terminal => LifecycleOf(s)' = LifecycleOf(s)]_vars
  <2> SUFFICES ASSUME SingleInv, [Next]_vars, NEW s \in Sessions, LifecycleOf(s) \in Terminal
               PROVE  LifecycleOf(s)' = LifecycleOf(s)
    OBVIOUS
  <2>1. \A to \in Lifecycle : ~ValidTransition(LifecycleOf(s), to)
    BY DEF ValidTransition
  <2> QED BY <2>1, StepMovesOneSession
<1> QED
  BY <1>1, CurrentInit, CurrentStep, PTL DEF Spec, TerminalIsFinal

\* When every session has a single writer, the store implements the abstract
\* session lifecycle: every step moves one session along the table of
\* validateTransition or none.
THEOREM SingleWriterRefinesLifecycle ==
    ASSUME SingleWriter
    PROVE  Spec => RefinesLifecycle
<1> DEFINE life == [s \in Sessions |-> LifecycleOf(s)]
<1>1. Init => Abstract!Init
  BY DEF Init, Abstract!Init, LifecycleOf, Current, NewRecord, Paths
<1>2. SingleInv /\ [Next]_vars => [Abstract!Next]_life
  <2> SUFFICES ASSUME SingleInv, [Next]_vars
               PROVE  [Abstract!Next]_life
    OBVIOUS
  <2>1. CASE \A s \in Sessions : LifecycleOf(s)' = LifecycleOf(s)
    BY <2>1
  <2>2. ASSUME NEW s \in Sessions, NEW to \in Lifecycle,
               ValidTransition(LifecycleOf(s), to), LifecycleOf(s)' = to,
               \A t \in Sessions \ {s} : LifecycleOf(t)' = LifecycleOf(t)
        PROVE  Abstract!Next
    <3>1. Abstract!ValidTransition(life[s], to)
      BY <2>2 DEF Abstract!ValidTransition, Abstract!Terminal, Abstract!Allowed,
                  ValidTransition, Terminal, Allowed
    <3>2. life' = [life EXCEPT ![s] = to]
      BY <2>2
    <3>3. to \in Abstract!Lifecycle
      BY DEF Lifecycle, Abstract!Lifecycle
    <3> QED BY <3>1, <3>2, <3>3 DEF Abstract!Next, Abstract!Move
  <2> QED BY <2>1, <2>2, StepMovesOneSession
<1> QED
  BY <1>1, <1>2, CurrentInit, CurrentStep, PTL DEF Spec, RefinesLifecycle, Abstract!Spec

=============================================================================
