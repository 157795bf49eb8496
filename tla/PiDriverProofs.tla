---------------------------- MODULE PiDriverProofs ----------------------------
(***************************************************************************)
(* No line of a worker is lost without a trace, and a success is a whole   *)
(* run, for any number of lines, pipes and channels of any size, and       *)
(* whenever the worker is killed or leaves its pipes to a descendant.      *)
(***************************************************************************)
EXTENDS PiDriver, TLAPS

Rising(s) == \A m, n \in 1 .. Len(s) : m < n => s[m] < s[n]
Below(s, t) == \A m \in 1 .. Len(s), n \in 1 .. Len(t) : s[m] < t[n]
UpTo(s, k) == \A m \in 1 .. Len(s) : s[m] <= k

\* The lines move from the pipe to the channel to the consumer in their order.
Ordered ==
    /\ Rising(got) /\ Rising(events) /\ Rising(pipe)
    /\ Below(got, events) /\ Below(got, pipe) /\ Below(events, pipe)
    /\ UpTo(got, written) /\ UpTo(events, written) /\ UpTo(pipe, written)

Accounted ==
    \A k \in 1 .. written :
        \/ plan[k] \in {"skip", "long"}
        \/ k \in ToSet(pipe) \cup ToSet(got) \cup ToSet(events) \cup noted

\* A scanner that has not met a line too long for it ends with the last writer.
Drained ==
    /\ consumer = "spawn" => child = "unborn" /\ exit = "none" /\ outcome = "none"
    /\ exit = "zero" => child = "exited" /\ written = Len(plan)
    /\ scanner = "done" /\ WellBehaved => pipe = <<>> /\ WriteEndsClosed
    /\ consumer = "wait" => scanner = "done" /\ events = <<>>
    /\ outcome = "success" => exit = "zero" /\ scanner = "done" /\ events = <<>>

Inv == TypeOK /\ Ordered /\ Accounted /\ Drained

-----------------------------------------------------------------------------
(* Sequences *)

\* Taking the first element away keeps the order.
LEMMA TailOrder ==
  ASSUME NEW s \in Seq(Lines), s # <<>>
  PROVE  /\ Head(s) \in Lines /\ Tail(s) \in Seq(Lines) /\ Len(Tail(s)) = Len(s) - 1
         /\ Rising(s) => Rising(Tail(s))
         /\ \A t \in Seq(Lines) : (Below(t, s) => Below(t, Tail(s))) /\ (Below(s, t) => Below(Tail(s), t))
         /\ \A k \in Nat : UpTo(s, k) => UpTo(Tail(s), k)
<1>1. /\ Head(s) = s[1] /\ Head(s) \in Lines /\ Tail(s) \in Seq(Lines) /\ Len(Tail(s)) = Len(s) - 1
      /\ Len(s) \in Nat \ {0} /\ \A m \in 1 .. Len(Tail(s)) : Tail(s)[m] = s[m + 1]
  OBVIOUS
<1>2. Rising(s) => Rising(Tail(s))
  BY <1>1 DEF Rising
<1>3. \A t \in Seq(Lines) : (Below(t, s) => Below(t, Tail(s))) /\ (Below(s, t) => Below(Tail(s), t))
  BY <1>1 DEF Below
<1>4. \A k \in Nat : UpTo(s, k) => UpTo(Tail(s), k)
  BY <1>1 DEF UpTo
<1> QED BY <1>1, <1>2, <1>3, <1>4

\* So does adding an element above all others.
LEMMA AppendOrder ==
  ASSUME NEW s \in Seq(Lines), NEW x \in Lines, \A m \in 1 .. Len(s) : s[m] < x
  PROVE  /\ Append(s, x) \in Seq(Lines) /\ Len(Append(s, x)) = Len(s) + 1
         /\ Rising(s) => Rising(Append(s, x))
<1>1. /\ Append(s, x) \in Seq(Lines) /\ Len(Append(s, x)) = Len(s) + 1 /\ Len(s) \in Nat
      /\ \A m \in 1 .. Len(s) : Append(s, x)[m] = s[m] /\ s[m] \in Lines
      /\ Append(s, x)[Len(s) + 1] = x
  OBVIOUS
<1>2. x \in Int /\ \A m \in 1 .. Len(s) : s[m] \in Int
  BY <1>1 DEF Lines
<1> QED BY <1>1, <1>2 DEF Rising

\* An element that fits between two sequences may be added to the lower one, ...
LEMMA AppendBelow ==
  ASSUME NEW s \in Seq(Lines), NEW t \in Seq(Lines), NEW x \in Lines, Below(s, t),
         \A n \in 1 .. Len(t) : x < t[n]
  PROVE  Below(Append(s, x), t)
<1>1. /\ Len(Append(s, x)) = Len(s) + 1 /\ Len(s) \in Nat
      /\ \A m \in 1 .. Len(s) : Append(s, x)[m] = s[m]
      /\ Append(s, x)[Len(s) + 1] = x
  OBVIOUS
<1> QED BY <1>1 DEF Below

\* ... and one above the lower sequence to the upper one.
LEMMA BelowAppend ==
  ASSUME NEW s \in Seq(Lines), NEW t \in Seq(Lines), NEW x \in Lines, Below(s, t),
         \A m \in 1 .. Len(s) : s[m] < x
  PROVE  Below(s, Append(t, x))
<1>1. /\ Len(Append(t, x)) = Len(t) + 1 /\ Len(t) \in Nat
      /\ \A m \in 1 .. Len(t) : Append(t, x)[m] = t[m]
      /\ Append(t, x)[Len(t) + 1] = x
  OBVIOUS
<1> QED BY <1>1 DEF Below

\* The bound of an appended sequence.
LEMMA AppendUpTo ==
  ASSUME NEW s \in Seq(Lines), NEW x \in Lines, NEW k \in Nat, UpTo(s, k), x <= k
  PROVE  UpTo(Append(s, x), k)
<1>1. /\ Len(Append(s, x)) = Len(s) + 1 /\ Len(s) \in Nat
      /\ \A m \in 1 .. Len(s) : Append(s, x)[m] = s[m]
      /\ Append(s, x)[Len(s) + 1] = x
  OBVIOUS
<1> QED BY <1>1 DEF UpTo

\* What is in a sequence.
LEMMA Members ==
  ASSUME NEW s \in Seq(Lines)
  PROVE  /\ \A x \in Lines : ToSet(Append(s, x)) = ToSet(s) \cup {x}
         /\ s # <<>> => ToSet(s) = ToSet(Tail(s)) \cup {Head(s)}
<1>1. ASSUME NEW x \in Lines PROVE ToSet(Append(s, x)) = ToSet(s) \cup {x}
  <2>1. /\ DOMAIN Append(s, x) = 1 .. Len(s) + 1 /\ DOMAIN s = 1 .. Len(s) /\ Len(s) \in Nat
        /\ \A m \in 1 .. Len(s) : Append(s, x)[m] = s[m]
        /\ Append(s, x)[Len(s) + 1] = x
    OBVIOUS
  <2>2. 1 .. Len(s) + 1 = (1 .. Len(s)) \cup {Len(s) + 1}
    BY <2>1
  <2> QED BY <2>1, <2>2 DEF ToSet
<1>2. ASSUME s # <<>> PROVE ToSet(s) = ToSet(Tail(s)) \cup {Head(s)}
  <2>1. /\ DOMAIN Tail(s) = 1 .. Len(s) - 1 /\ DOMAIN s = 1 .. Len(s) /\ Len(s) \in Nat \ {0}
        /\ \A m \in 1 .. Len(s) - 1 : Tail(s)[m] = s[m + 1]
        /\ Head(s) = s[1]
    BY <1>2
  <2>2. \A m \in 1 .. Len(s) : m = 1 \/ m - 1 \in 1 .. Len(s) - 1
    BY <2>1
  <2>3. ASSUME NEW y \in ToSet(s) PROVE y \in ToSet(Tail(s)) \cup {Head(s)}
    <3>1. PICK m \in 1 .. Len(s) : y = s[m]
      BY <2>1, <2>3 DEF ToSet
    <3>2. CASE m # 1
      <4>1. m - 1 \in 1 .. Len(s) - 1 /\ Tail(s)[m - 1] = s[m]
        BY <2>1, <2>2, <3>2
      <4> QED BY <2>1, <3>1, <4>1 DEF ToSet
    <3> QED BY <2>1, <3>1, <3>2
  <2>4. ASSUME NEW y \in ToSet(Tail(s)) \cup {Head(s)} PROVE y \in ToSet(s)
    <3>1. CASE y = Head(s)
      BY <2>1, <3>1 DEF ToSet
    <3>2. ASSUME NEW m \in 1 .. Len(s) - 1, y = Tail(s)[m] PROVE y \in ToSet(s)
      <4>1. m + 1 \in 1 .. Len(s) /\ y = s[m + 1]
        BY <2>1, <3>2
      <4> QED BY <2>1, <4>1 DEF ToSet
    <3> QED BY <2>1, <2>4, <3>1, <3>2 DEF ToSet
  <2> QED BY <2>3, <2>4
<1> QED BY <1>1, <1>2

-----------------------------------------------------------------------------
(* The steps *)

\* The steps that move no line.
Still == UNCHANGED <<plan, written, pipe, events, got, noted>>

LEMMA StillSteps ==
  Next => Still \/ WriteLine \/ ScanLine \/ Receive
  BY DEF Next, Still, vars, childVars, driverVars, consumerVars, Subprocess, Scanner, Consumer, Spawn,
         SpawnFails, ChildExits, Fork, OrphanExits, KillOnCancel, Abort, Killed, Cancel, ScanEOF,
         StderrEOF, Reap, RangeEnds, WaitDone, WaitCancelled, Quiescent

\* The line at the head of the pipe.
LEMMA HeadLine ==
  ASSUME Inv, pipe # <<>>
  PROVE  /\ Head(pipe) \in Lines /\ Head(pipe) <= written /\ Head(pipe) \in 1 .. Len(plan)
         /\ \A m \in 1 .. Len(got) : got[m] < Head(pipe)
         /\ \A m \in 1 .. Len(events) : events[m] < Head(pipe)
         /\ \A n \in 1 .. Len(Tail(pipe)) : Head(pipe) < Tail(pipe)[n]
<1>1. /\ pipe \in Seq(Lines) /\ Len(plan) \in Nat /\ written \in 0 .. Len(plan)
  BY DEF Inv, TypeOK
<1>2. /\ Head(pipe) = pipe[1] /\ Head(pipe) \in Lines /\ 1 \in 1 .. Len(pipe) /\ Len(pipe) \in Nat
      /\ Len(Tail(pipe)) = Len(pipe) - 1
      /\ \A n \in 1 .. Len(Tail(pipe)) : Tail(pipe)[n] = pipe[n + 1]
  BY <1>1
<1>3. Head(pipe) <= written
  BY <1>2 DEF Inv, Ordered, UpTo
<1>4. Head(pipe) \in 1 .. Len(plan)
  BY <1>1, <1>2, <1>3 DEF Lines
<1>5. \A n \in 1 .. Len(Tail(pipe)) : Head(pipe) < Tail(pipe)[n]
  BY <1>2 DEF Inv, Ordered, Rising
<1> QED BY <1>2, <1>3, <1>4, <1>5 DEF Inv, Ordered, Below

LEMMA TypeKept == Inv /\ [Next]_vars => TypeOK'
<1> SUFFICES ASSUME Inv, [Next]_vars PROVE TypeOK' OBVIOUS
<1> USE DEF childVars, driverVars, consumerVars
<1>0. TypeOK
  BY DEF Inv
<1>1. CASE Spawn BY <1>0, <1>1 DEF Spawn, TypeOK
<1>2. CASE SpawnFails BY <1>0, <1>2 DEF SpawnFails, TypeOK
<1>3. CASE WriteLine
  <2>1. written + 1 \in Lines /\ written + 1 \in 0 .. Len(plan)
    BY <1>0, <1>3, ConstantsAssumption DEF WriteLine, TypeOK, Lines
  <2>2. pipe' \in Seq(Lines) /\ Len(pipe') <= PipeCap
    BY <1>0, <1>3, <2>1, ConstantsAssumption DEF WriteLine, TypeOK
  <2> QED BY <1>0, <1>3, <2>1, <2>2 DEF WriteLine, TypeOK
<1>4. CASE ChildExits BY <1>0, <1>4 DEF ChildExits, TypeOK
<1>5. CASE Fork BY <1>0, <1>5 DEF Fork, TypeOK
<1>6. CASE OrphanExits
  <2>1. orphan' \in BOOLEAN BY <1>6 DEF OrphanExits
  <2>2. /\ UNCHANGED <<plan, written, child, exit, pipe, scanner, events, noted, stderr, reaper>>
        /\ UNCHANGED <<consumer, got, outcome, ctxDone>>
    BY <1>6 DEF OrphanExits
  <2> QED BY <1>0, <2>1, <2>2 DEF TypeOK
<1>7. CASE KillOnCancel \/ Abort BY <1>0, <1>7 DEF KillOnCancel, Abort, Killed, TypeOK
<1>8. CASE Cancel BY <1>0, <1>8 DEF Cancel, TypeOK
<1>9. CASE ScanLine
  <2>1. Head(pipe) \in Lines /\ Tail(pipe) \in Seq(Lines) /\ Len(Tail(pipe)) = Len(pipe) - 1
        /\ Len(pipe) \in Nat
    BY <1>0, <1>9, TailOrder DEF ScanLine, TypeOK
  <2>2. pipe' \in Seq(Lines) /\ Len(pipe') <= PipeCap
    BY <1>0, <1>9, <2>1, ConstantsAssumption DEF ScanLine, TypeOK
  <2>3. events' \in Seq(Lines) /\ Len(events') <= ChanCap
    <3>1. events' = events \/ (Len(events) < ChanCap /\ events' = Append(events, Head(pipe)))
      BY <1>9 DEF ScanLine, Push
    <3>2. events \in Seq(Lines) /\ Len(events) <= ChanCap /\ ChanCap \in Nat
      BY <1>0, ConstantsAssumption DEF TypeOK
    <3> QED BY <2>1, <3>1, <3>2
  <2>4. noted' \subseteq Lines /\ scanner' \in {"off", "scanning", "done"}
    <3>1. /\ noted' = noted \/ noted' = noted \cup {Head(pipe)}
          /\ scanner' = scanner \/ scanner' = "done"
      BY <1>9 DEF ScanLine, Push
    <3> QED BY <1>0, <2>1, <3>1 DEF TypeOK
  <2> QED BY <1>0, <1>9, <2>2, <2>3, <2>4 DEF ScanLine, TypeOK
<1>10. CASE ScanEOF BY <1>0, <1>10 DEF ScanEOF, TypeOK
<1>11. CASE StderrEOF BY <1>0, <1>11 DEF StderrEOF, TypeOK
<1>12. CASE Reap BY <1>0, <1>12 DEF Reap, TypeOK
<1>13. CASE Receive
  <2>1. Head(events) \in Lines /\ Tail(events) \in Seq(Lines) /\ Len(Tail(events)) = Len(events) - 1
        /\ Len(events) \in Nat
    BY <1>0, <1>13, TailOrder DEF Receive, TypeOK
  <2>2. got' \in Seq(Lines) /\ events' \in Seq(Lines) /\ Len(events') <= ChanCap
    BY <1>0, <1>13, <2>1, ConstantsAssumption DEF Receive, TypeOK
  <2> QED BY <1>0, <1>13, <2>2 DEF Receive, TypeOK
<1>14. CASE RangeEnds BY <1>0, <1>14 DEF RangeEnds, TypeOK
<1>15. CASE WaitDone BY <1>0, <1>15 DEF WaitDone, Published, TypeOK
<1>16. CASE WaitCancelled BY <1>0, <1>16 DEF WaitCancelled, TypeOK
<1>17. CASE Quiescent \/ UNCHANGED vars BY <1>0, <1>17 DEF Quiescent, vars, TypeOK
<1> QED
  BY <1>1, <1>2, <1>3, <1>4, <1>5, <1>6, <1>7, <1>8, <1>9, <1>10, <1>11, <1>12, <1>13, <1>14, <1>15,
     <1>16, <1>17 DEF Next, Subprocess, Scanner, Consumer

\* The lines stay in order.
LEMMA OrderedKept == Inv /\ [Next]_vars => Ordered'
<1> SUFFICES ASSUME Inv, [Next]_vars PROVE Ordered' OBVIOUS
<1>0. /\ pipe \in Seq(Lines) /\ events \in Seq(Lines) /\ got \in Seq(Lines)
      /\ written \in 0 .. Len(plan) /\ Len(plan) \in 0 .. MaxLines /\ written \in Nat
      /\ \A k \in Lines : k \in Int
  BY ConstantsAssumption DEF Inv, TypeOK, Lines
<1>1. CASE Still \/ UNCHANGED vars
  BY <1>1 DEF Inv, Ordered, Still, vars, childVars, driverVars, consumerVars, Rising, Below, UpTo
<1>2. CASE WriteLine
  <2>1. /\ written' = written + 1 /\ pipe' = Append(pipe, written + 1)
        /\ UNCHANGED <<events, got>> /\ written + 1 \in Lines
    BY <1>0, <1>2, ConstantsAssumption DEF WriteLine, driverVars, consumerVars, Lines
  <2>2. /\ \A m \in 1 .. Len(pipe) : pipe[m] < written + 1 /\ pipe[m] \in Lines
        /\ \A m \in 1 .. Len(events) : events[m] < written + 1 /\ events[m] \in Lines
        /\ \A m \in 1 .. Len(got) : got[m] < written + 1 /\ got[m] \in Lines
    <3>1. /\ \A m \in 1 .. Len(pipe) : pipe[m] <= written /\ pipe[m] \in Lines
          /\ \A m \in 1 .. Len(events) : events[m] <= written /\ events[m] \in Lines
          /\ \A m \in 1 .. Len(got) : got[m] <= written /\ got[m] \in Lines
      BY <1>0 DEF Inv, Ordered, UpTo
    <3> QED BY <1>0, <3>1
  <2>3. Rising(pipe')
    BY <1>0, <2>1, <2>2, AppendOrder DEF Inv, Ordered
  <2>4. Below(got, pipe') /\ Below(events, pipe')
    BY <1>0, <2>1, <2>2, BelowAppend DEF Inv, Ordered
  <2>5. UpTo(got, written + 1) /\ UpTo(events, written + 1) /\ UpTo(pipe, written + 1)
    BY <1>0, <2>2 DEF UpTo
  <2>6. UpTo(pipe', written + 1)
    BY <1>0, <2>1, <2>5, AppendUpTo
  <2> QED BY <2>1, <2>3, <2>4, <2>5, <2>6 DEF Inv, Ordered, Rising, Below, UpTo
<1>3. CASE ScanLine
  <2> DEFINE x == Head(pipe)
  <2>1. /\ pipe # <<>> /\ pipe' = Tail(pipe) /\ written' = written /\ got' = got
        /\ events' = events \/ events' = Append(events, x)
    BY <1>3 DEF ScanLine, Push, childVars, consumerVars
  <2>2. /\ x \in Lines /\ x <= written
        /\ \A m \in 1 .. Len(got) : got[m] < x
        /\ \A m \in 1 .. Len(events) : events[m] < x
        /\ \A n \in 1 .. Len(Tail(pipe)) : x < Tail(pipe)[n]
    BY <2>1, HeadLine
  <2>3. /\ Tail(pipe) \in Seq(Lines) /\ Rising(Tail(pipe)) /\ Below(got, Tail(pipe))
        /\ Below(events, Tail(pipe)) /\ UpTo(Tail(pipe), written)
    BY <1>0, <2>1, TailOrder DEF Inv, Ordered
  <2>4. /\ Rising(Append(events, x)) /\ Below(got, Append(events, x))
        /\ Below(Append(events, x), Tail(pipe)) /\ UpTo(Append(events, x), written)
    BY <1>0, <2>2, <2>3, AppendOrder, BelowAppend, AppendBelow, AppendUpTo DEF Inv, Ordered
  <2> QED BY <2>1, <2>3, <2>4 DEF Inv, Ordered, Rising, Below, UpTo
<1>4. CASE Receive
  <2> DEFINE x == Head(events)
  <2>1. /\ events # <<>> /\ events' = Tail(events) /\ got' = Append(got, x)
        /\ written' = written /\ pipe' = pipe
    BY <1>4 DEF Receive, childVars
  <2>2. /\ x = events[1] /\ 1 \in 1 .. Len(events) /\ x \in Lines /\ Len(events) \in Nat
        /\ Len(Tail(events)) = Len(events) - 1
        /\ \A n \in 1 .. Len(Tail(events)) : Tail(events)[n] = events[n + 1]
    BY <1>0, <2>1
  <2>3. /\ x <= written
        /\ \A m \in 1 .. Len(got) : got[m] < x
        /\ \A n \in 1 .. Len(pipe) : x < pipe[n]
        /\ \A n \in 1 .. Len(Tail(events)) : x < Tail(events)[n]
    BY <2>2 DEF Inv, Ordered, UpTo, Below, Rising
  <2>4. /\ Tail(events) \in Seq(Lines) /\ Rising(Tail(events)) /\ Below(got, Tail(events))
        /\ Below(Tail(events), pipe) /\ UpTo(Tail(events), written)
    BY <1>0, <2>1, TailOrder DEF Inv, Ordered
  <2>5. /\ Rising(Append(got, x)) /\ Below(Append(got, x), Tail(events))
        /\ Below(Append(got, x), pipe) /\ UpTo(Append(got, x), written)
    BY <1>0, <2>2, <2>3, <2>4, AppendOrder, AppendBelow, AppendUpTo DEF Inv, Ordered
  <2> QED BY <2>1, <2>4, <2>5 DEF Inv, Ordered, Rising, Below, UpTo
<1> QED BY <1>1, <1>2, <1>3, <1>4, StillSteps

\* Every line stays accounted for.
LEMMA AccountedKept == Inv /\ [Next]_vars => Accounted'
<1> SUFFICES ASSUME Inv, [Next]_vars PROVE Accounted' OBVIOUS
<1>0. /\ pipe \in Seq(Lines) /\ events \in Seq(Lines) /\ got \in Seq(Lines)
      /\ written \in 0 .. Len(plan) /\ Len(plan) \in 0 .. MaxLines /\ written \in Nat
  BY ConstantsAssumption DEF Inv, TypeOK
<1> DEFINE Where == ToSet(pipe) \cup ToSet(got) \cup ToSet(events) \cup noted
<1>t. ToSet(pipe)' = ToSet(pipe') /\ ToSet(got)' = ToSet(got') /\ ToSet(events)' = ToSet(events')
  BY DEF ToSet
<1>1. \A k \in 1 .. written : plan[k] \in {"skip", "long"} \/ k \in Where
  BY DEF Inv, Accounted
<1>2. CASE Still \/ UNCHANGED vars
  BY <1>2 DEF Inv, Accounted, Still, vars, childVars, driverVars, consumerVars, ToSet
<1>3. CASE WriteLine
  <2>1. /\ written' = written + 1 /\ pipe' = Append(pipe, written + 1)
        /\ UNCHANGED <<plan, events, got, noted>> /\ written + 1 \in Lines
    BY <1>0, <1>3, ConstantsAssumption DEF WriteLine, driverVars, consumerVars, Lines
  <2>2. ToSet(pipe)' = ToSet(pipe) \cup {written + 1}
    BY <1>0, <2>1, <1>t, Members
  <2>3. ToSet(got)' = ToSet(got) /\ ToSet(events)' = ToSet(events)
    BY <2>1 DEF ToSet
  <2>4. \A k \in 1 .. written + 1 : k \in 1 .. written \/ k = written + 1
    BY <1>0
  <2> QED BY <1>1, <2>1, <2>2, <2>3, <2>4 DEF Accounted
<1>4. CASE ScanLine
  <2> DEFINE x == Head(pipe)
  <2>1. pipe # <<>> /\ pipe' = Tail(pipe) /\ UNCHANGED <<plan, written, got>>
    BY <1>4 DEF ScanLine, childVars, consumerVars
  <2>2. x \in Lines
    BY <1>0, <2>1
  <2>3. ToSet(pipe) = ToSet(pipe)' \cup {x} /\ ToSet(got)' = ToSet(got)
    BY <1>0, <2>1, <1>t, Members
  <2>4. ToSet(Append(events, x)) = ToSet(events) \cup {x}
    BY <1>0, <2>2, Members
  <2>5. \/ plan[x] \in {"skip", "long"} /\ UNCHANGED <<events, noted>>
        \/ events' = Append(events, x) /\ noted' = noted
        \/ events' = events /\ noted' = noted \cup {x}
    BY <1>4 DEF ScanLine, Push
  <2>6. /\ noted \subseteq noted' /\ ToSet(events) \subseteq ToSet(events)'
        /\ plan[x] \in {"skip", "long"} \/ x \in ToSet(events)' \cup noted'
    BY <2>4, <2>5 DEF ToSet
  <2> QED BY <1>1, <2>1, <2>3, <2>6 DEF Accounted
<1>5. CASE Receive
  <2> DEFINE x == Head(events)
  <2>1. /\ events # <<>> /\ events' = Tail(events) /\ got' = Append(got, x)
        /\ UNCHANGED <<plan, written, pipe, noted>>
    BY <1>5 DEF Receive, childVars
  <2>2. x \in Lines
    BY <1>0, <2>1
  <2>3. ToSet(events) = ToSet(events)' \cup {x} /\ ToSet(pipe)' = ToSet(pipe)
    BY <1>0, <2>1, <1>t, Members
  <2>4. ToSet(got)' = ToSet(got) \cup {x}
    BY <1>0, <2>1, <2>2, <1>t, Members
  <2> QED BY <1>1, <2>1, <2>3, <2>4 DEF Accounted
<1> QED BY <1>2, <1>3, <1>4, <1>5, StillSteps

\* The scanner ends after the last writer, the consumer after the scanner.
LEMMA DrainedKept == Inv /\ [Next]_vars => Drained'
<1> SUFFICES ASSUME Inv, [Next]_vars PROVE Drained' OBVIOUS
<1> USE DEF Drained, WriteEndsClosed, childVars, driverVars, consumerVars
<1>0. Drained
  BY DEF Inv
<1>a. plan' = plan => (WellBehaved' <=> WellBehaved)
  BY DEF WellBehaved
<1>1. CASE Spawn BY <1>0, <1>a, <1>1 DEF Spawn, Inv, TypeOK
<1>2. CASE SpawnFails BY <1>0, <1>a, <1>2 DEF SpawnFails
<1>3. CASE WriteLine BY <1>0, <1>a, <1>3 DEF WriteLine
<1>4. CASE ChildExits BY <1>0, <1>a, <1>4 DEF ChildExits
<1>5. CASE Fork BY <1>0, <1>a, <1>5 DEF Fork
<1>6. CASE OrphanExits BY <1>0, <1>a, <1>6 DEF OrphanExits
<1>7. CASE KillOnCancel \/ Abort BY <1>0, <1>a, <1>7 DEF KillOnCancel, Abort, Killed
<1>8. CASE Cancel BY <1>0, <1>a, <1>8 DEF Cancel
<1>9. CASE ScanLine
  <2>1. WellBehaved => plan[Head(pipe)] # "long"
    BY <1>9, HeadLine DEF ScanLine, WellBehaved
  <2> QED BY <1>0, <1>a, <1>9, <2>1 DEF ScanLine, Push
<1>10. CASE ScanEOF BY <1>0, <1>a, <1>10 DEF ScanEOF
<1>11. CASE StderrEOF BY <1>0, <1>a, <1>11 DEF StderrEOF
<1>12. CASE Reap BY <1>0, <1>a, <1>12 DEF Reap
<1>13. CASE Receive BY <1>0, <1>a, <1>13 DEF Receive
<1>14. CASE RangeEnds BY <1>0, <1>a, <1>14 DEF RangeEnds
<1>15. CASE WaitDone BY <1>0, <1>a, <1>15 DEF WaitDone, Published
<1>16. CASE WaitCancelled BY <1>0, <1>a, <1>16 DEF WaitCancelled
<1>17. CASE Quiescent \/ UNCHANGED vars BY <1>0, <1>a, <1>17 DEF Quiescent, vars
<1> QED
  BY <1>1, <1>2, <1>3, <1>4, <1>5, <1>6, <1>7, <1>8, <1>9, <1>10, <1>11, <1>12, <1>13, <1>14, <1>15,
     <1>16, <1>17 DEF Next, Subprocess, Scanner, Consumer

LEMMA InitInv == Init => Inv
<1> SUFFICES ASSUME Init PROVE Inv OBVIOUS
<1>1. plan \in Seq(Kinds) /\ Len(plan) <= MaxLines /\ Len(plan) \in Nat
  <2>1. PICK n \in 0 .. MaxLines : plan \in [1 .. n -> Kinds]
    BY DEF Init, BoundedSeq, SeqOf
  <2> QED BY <2>1, ConstantsAssumption
<1>2. TypeOK
  <2>1. pipe = <<>> /\ events = <<>> /\ got = <<>> /\ written = 0
    BY DEF Init
  <2>2. /\ pipe \in Seq(Lines) /\ events \in Seq(Lines) /\ got \in Seq(Lines)
        /\ Len(pipe) <= PipeCap /\ Len(events) <= ChanCap /\ written \in 0 .. Len(plan)
    BY <1>1, <2>1, ConstantsAssumption
  <2> QED BY <1>1, <2>2 DEF Init, TypeOK
<1>3. Ordered
  <2>1. Len(got) = 0 /\ Len(events) = 0 /\ Len(pipe) = 0
    BY DEF Init
  <2> QED BY <2>1 DEF Ordered, Rising, Below, UpTo
<1>4. Accounted /\ Drained
  BY DEF Init, Accounted, Drained
<1> QED BY <1>2, <1>3, <1>4 DEF Inv

\* The parts in order are in order together.
LEMMA Together ==
  ASSUME NEW s \in Seq(Lines), NEW t \in Seq(Lines), Rising(s), Rising(t), Below(s, t)
  PROVE  Rising(s \o t) /\ s \o t \in Seq(Lines)
<1>1. /\ s \o t \in Seq(Lines) /\ Len(s) \in Nat /\ Len(t) \in Nat /\ Len(s \o t) = Len(s) + Len(t)
      /\ \A m \in 1 .. Len(s) + Len(t) : (s \o t)[m] = IF m <= Len(s) THEN s[m] ELSE t[m - Len(s)]
  OBVIOUS
<1> SUFFICES ASSUME NEW m \in 1 .. Len(s) + Len(t), NEW n \in 1 .. Len(s) + Len(t), m < n
             PROVE  (s \o t)[m] < (s \o t)[n]
  BY <1>1 DEF Rising
<1>2. CASE n <= Len(s) BY <1>1, <1>2 DEF Rising
<1>3. CASE m > Len(s)
  <2>1. m - Len(s) \in 1 .. Len(t) /\ n - Len(s) \in 1 .. Len(t) /\ m - Len(s) < n - Len(s)
    BY <1>1, <1>3
  <2>2. (s \o t)[m] = t[m - Len(s)] /\ (s \o t)[n] = t[n - Len(s)]
    BY <1>1, <1>3
  <2> QED BY <2>1, <2>2 DEF Rising
<1>4. CASE m <= Len(s) /\ n > Len(s)
  <2>1. m \in 1 .. Len(s) /\ n - Len(s) \in 1 .. Len(t)
    BY <1>1, <1>4
  <2>2. (s \o t)[m] = s[m] /\ (s \o t)[n] = t[n - Len(s)]
    BY <1>1, <1>4
  <2> QED BY <2>1, <2>2 DEF Below
<1> QED BY <1>1, <1>2, <1>3, <1>4

\* Two sequences below a third are below it together.
LEMMA TogetherBelow ==
  ASSUME NEW s \in Seq(Lines), NEW t \in Seq(Lines), NEW u \in Seq(Lines), Below(s, u), Below(t, u)
  PROVE  Below(s \o t, u)
<1>1. /\ Len(s) \in Nat /\ Len(t) \in Nat /\ Len(s \o t) = Len(s) + Len(t)
      /\ \A m \in 1 .. Len(s) + Len(t) : (s \o t)[m] = IF m <= Len(s) THEN s[m] ELSE t[m - Len(s)]
  OBVIOUS
<1> SUFFICES ASSUME NEW m \in 1 .. Len(s) + Len(t), NEW n \in 1 .. Len(u)
             PROVE  (s \o t)[m] < u[n]
  BY <1>1 DEF Below
<1>2. CASE m <= Len(s) BY <1>1, <1>2 DEF Below
<1>3. CASE m > Len(s)
  <2>1. m - Len(s) \in 1 .. Len(t) /\ (s \o t)[m] = t[m - Len(s)]
    BY <1>1, <1>3
  <2> QED BY <2>1 DEF Below
<1> QED BY <1>1, <1>2, <1>3

-----------------------------------------------------------------------------
(* The theorems *)

THEOREM PiInvariant == Spec => []Inv
<1>1. Inv /\ [Next]_vars => Inv'
  BY TypeKept, OrderedKept, AccountedKept, DrainedKept DEF Inv
<1> QED BY InitInv, <1>1, PTL DEF Spec

\* The driver's state keeps to its types; neither the pipe nor the channel is
\* ever filled past its capacity.
THEOREM PiTypeCorrect == Spec => []TypeOK
<1>1. Inv => TypeOK BY DEF Inv
<1> QED BY PiInvariant, <1>1, PTL

\* No line is lost without a trace, and events arrive in order
\* (pi.go:203-234).
THEOREM EventsAlwaysAccounted == Spec => []EventsAccounted
<1>1. Inv => EventsAccounted
  <2> SUFFICES ASSUME Inv PROVE EventsAccounted OBVIOUS
  <2>1. /\ pipe \in Seq(Lines) /\ events \in Seq(Lines) /\ got \in Seq(Lines) /\ Ordered
    BY DEF Inv, TypeOK
  <2>2. Rising(got \o events) /\ got \o events \in Seq(Lines) /\ Below(got \o events, pipe)
    BY <2>1, Together, TogetherBelow DEF Ordered
  <2>3. Rising(got \o events \o pipe) /\ got \o events \o pipe \in Seq(Lines)
    BY <2>1, <2>2, Together DEF Ordered
  <2>4. DOMAIN (got \o events \o pipe) = 1 .. Len(got \o events \o pipe)
    BY <2>3
  <2> QED BY <2>3, <2>4 DEF EventsAccounted, Rising, Inv, Accounted
<1> QED BY PiInvariant, <1>1, PTL

\* A success is the exit of a subprocess all of whose output was consumed
\* (pi.go:137-148, 166-190).
THEOREM SuccessIsAlwaysComplete == Spec => []SuccessIsComplete
<1>1. Inv => SuccessIsComplete
  BY DEF Inv, Drained, SuccessIsComplete
<1> QED BY PiInvariant, <1>1, PTL

=============================================================================
