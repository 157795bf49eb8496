---------------------------- MODULE ObserverProofs ----------------------------
(***************************************************************************)
(* What the two report files say of the workspace, for any number of       *)
(* files, changes, overlapping refreshes and failures.                     *)
(***************************************************************************)
EXTENDS Observer, TLAPS

\* git status has been asked: the workspace was as the report says, unless a
\* warning says that it may not have been.
SawStatus(r, h) ==
    \E s \in 1 .. Len(h) :
        /\ r.dirty => Dirty(h[s]) \/ r.noise
        /\ r.warned \/ (Dirty(h[s]) => r.dirty)

\* The scan is over.
Truthful(r, h) ==
    r.kind = "full" => ShowsWhatWas(r, h) /\ (r.warned \/ SaysWhatWas(r, h))

Writing == {"open_json", "write_json", "open_page", "write_page"}

\* What a refresh has found out at a step.
FoundOut(step, r, h) ==
    /\ step = "status" => ~r.dirty /\ r.files = {}
    /\ step = "names" => SawStatus(r, h) /\ r.files = {}
    /\ step \in Writing => Truthful(r, h)

ScanInv == \A j \in Refreshers : FoundOut(job[j], scan[j], trees)

JsonInv(file, h) == file.state = "report" => Truthful(file.report, h)
PageInv(file, h) == file.state = "report" /\ file.report.kind = "full" => ShowsWhatWas(file.report, h)

Inv == TypeOK /\ ScanInv /\ JsonInv(json, trees) /\ PageInv(page, trees)

FileContents == {Empty, Broken} \cup {Holding(r) : r \in Report}

-----------------------------------------------------------------------------
(* History *)

\* What was said of the workspaces there were stays true when there is a new one.
LEMMA SayingsKept ==
  ASSUME NEW r, NEW h \in Seq(Trees), NEW t \in Trees
  PROVE  /\ SawStatus(r, h) => SawStatus(r, Append(h, t))
         /\ SaysWhatWas(r, h) => SaysWhatWas(r, Append(h, t))
         /\ ShowsWhatWas(r, h) => ShowsWhatWas(r, Append(h, t))
<1> DEFINE g == Append(h, t)
<1>1. Len(h) \in Nat /\ Len(g) = Len(h) + 1 /\ \A k \in 1 .. Len(h) : g[k] = h[k]
  OBVIOUS
<1> HIDE DEF g
<1>2. \A k \in 1 .. Len(h) : k \in 1 .. Len(g) /\ g[k] = h[k]
  BY <1>1
<1>3. SawStatus(r, h) => SawStatus(r, g)
  BY <1>2 DEF SawStatus
<1>4. SaysWhatWas(r, h) => SaysWhatWas(r, g)
  BY <1>2 DEF SaysWhatWas
<1>5. ShowsWhatWas(r, h) => ShowsWhatWas(r, g)
  BY <1>2 DEF ShowsWhatWas
<1> QED BY <1>3, <1>4, <1>5 DEF g

\* The list of files completes what git status has said, exactly or, with lines
\* of stderr in it or after a failure, with files missing.
LEMMA ListCompletes ==
  ASSUME NEW r \in Report, NEW d \in Report, NEW h \in Seq(Trees), Len(h) >= 1, SawStatus(r, h),
         d.dirty = r.dirty, d.kind = r.kind, r.noise => d.noise, r.warned => d.warned,
         d.files \subseteq h[Len(h)].changed,
         d.warned \/ d.noise \/ d.files = h[Len(h)].changed
  PROVE  Truthful(d, h)
<1>1. PICK s \in 1 .. Len(h) : /\ r.dirty => Dirty(h[s]) \/ r.noise
                               /\ r.warned \/ (Dirty(h[s]) => r.dirty)
  BY DEF SawStatus
<1>2. Len(h) \in 1 .. Len(h) /\ s <= Len(h)
  BY <1>1
<1>3. ShowsWhatWas(d, h)
  BY <1>1, <1>2 DEF ShowsWhatWas
<1>4. d.warned \/ SaysWhatWas(d, h)
  BY <1>1, <1>2 DEF SaysWhatWas
<1> QED BY <1>3, <1>4 DEF Truthful

-----------------------------------------------------------------------------
(* The steps of a refresh *)

\* A command that leaves the report as far as its next step needs it.
LEMMA FoundKeeps ==
  ASSUME Inv, NEW j \in Refreshers, NEW r \in Report, NEW step \in Steps, Found(j, r, step),
         FoundOut(step, r, trees), faults' \in 0 .. MaxFaults
  PROVE  Inv'
<1>1. /\ scan' = [scan EXCEPT ![j] = r] /\ job' = [job EXCEPT ![j] = step]
      /\ UNCHANGED <<server, trees, json, page>>
  BY DEF Found, Goto
<1>2. job \in [Refreshers -> Steps] /\ scan \in [Refreshers -> Report]
  BY DEF Inv, TypeOK
<1>3. TypeOK'
  BY <1>1, <1>2 DEF Inv, TypeOK, Now
<1>4. ScanInv'
  BY <1>1, <1>2 DEF Inv, ScanInv
<1> QED BY <1>1, <1>3, <1>4 DEF Inv

\* The end of a refresh, whatever it has left in a file.
LEMMA OverKeeps ==
  ASSUME Inv, NEW j \in Refreshers, NEW ok \in BOOLEAN, Over(j, ok),
         trees' = trees, faults' \in 0 .. MaxFaults,
         json' \in FileContents, JsonInv(json', trees),
         page' \in FileContents, PageInv(page', trees)
  PROVE  Inv'
<1>1. /\ scan' = [scan EXCEPT ![j] = NewReport]
      /\ \E step \in {"idle", "done"} : job' = [job EXCEPT ![j] = step]
      /\ server' \in {server, "serving", "ended"}
  BY DEF Over, Goto
<1>2. job \in [Refreshers -> Steps] /\ scan \in [Refreshers -> Report] /\ NewReport \in Report
  BY DEF Inv, TypeOK, NewReport, Report
<1>3. TypeOK'
  BY <1>1, <1>2 DEF Inv, TypeOK, Now, Steps, FileContents
<1>4. ScanInv'
  BY <1>1, <1>2 DEF Inv, ScanInv, FoundOut, Writing
<1> QED BY <1>3, <1>4 DEF Inv

\* A step of report.Write on one of the files.
LEMMA WriteKeeps ==
  ASSUME Inv, NEW j \in Refreshers, NEW step \in Writing, Goto(j, step), job[j] \in Writing,
         UNCHANGED <<server, trees, faults, scan>>,
         json' \in FileContents, JsonInv(json', trees),
         page' \in FileContents, PageInv(page', trees)
  PROVE  Inv'
<1>1. job' = [job EXCEPT ![j] = step] /\ step \in Steps
  BY DEF Goto, Writing, Steps
<1>2. job \in [Refreshers -> Steps]
  BY DEF Inv, TypeOK
<1>3. TypeOK'
  BY <1>1, <1>2 DEF Inv, TypeOK, Now, FileContents
<1>4. ScanInv'
  BY <1>1, <1>2 DEF Inv, ScanInv, FoundOut, Writing
<1> QED BY <1>3, <1>4 DEF Inv

\* What the files hold.
LEMMA FilesHold ==
  ASSUME Inv
  PROVE  /\ json \in FileContents /\ JsonInv(json, trees)
         /\ page \in FileContents /\ PageInv(page, trees)
         /\ \A f \in {Empty, Broken} : f \in FileContents /\ JsonInv(f, trees) /\ PageInv(f, trees)
  BY DEF Inv, TypeOK, FileContents, JsonInv, PageInv, Empty, Broken

\* What a refresh writes.
LEMMA ReportHolds ==
  ASSUME Inv, NEW j \in Refreshers, job[j] \in Writing
  PROVE  /\ Holding(scan[j]) \in FileContents /\ JsonInv(Holding(scan[j]), trees)
         /\ Holding(Shown(scan[j])) \in FileContents /\ PageInv(Holding(Shown(scan[j])), trees)
<1>1. scan[j] \in Report /\ Truthful(scan[j], trees)
  BY DEF Inv, TypeOK, ScanInv, FoundOut
<1>2. /\ Shown(scan[j]) \in Report
      /\ Shown(scan[j]).kind = scan[j].kind /\ Shown(scan[j]).dirty = scan[j].dirty
      /\ Shown(scan[j]).noise = scan[j].noise /\ Shown(scan[j]).files = scan[j].files
  BY <1>1 DEF Shown, Report
<1>3. ShowsWhatWas(scan[j], trees) => ShowsWhatWas(Shown(scan[j]), trees)
  BY <1>2 DEF ShowsWhatWas
<1> QED BY <1>1, <1>2, <1>3 DEF FileContents, JsonInv, PageInv, Truthful, Holding

\* A failure is counted.
LEMMA FaultType ==
  ASSUME TypeOK, Fault \/ UNCHANGED faults
  PROVE  faults' \in 0 .. MaxFaults
  BY ConstantsAssumption DEF TypeOK, Fault

\* The beginning of a scan.
LEMMA StatKeeps ==
  ASSUME Inv, NEW j \in Refreshers, Stat(j)
  PROVE  Inv'
<1>1. faults' \in 0 .. MaxFaults
  BY FaultType DEF Stat, Inv
<1>2. CASE Found(j, NewReport, "status")
  <2>1. NewReport \in Report /\ FoundOut("status", NewReport, trees)
    BY DEF NewReport, Report, FoundOut, Writing
  <2> QED BY <1>1, <1>2, <2>1, FoundKeeps DEF Steps
<1>3. CASE Found(j, [NewReport EXCEPT !.warned = TRUE], "status")
  <2>1. /\ [NewReport EXCEPT !.warned = TRUE] \in Report
        /\ FoundOut("status", [NewReport EXCEPT !.warned = TRUE], trees)
    BY DEF NewReport, Report, FoundOut, Writing
  <2> QED BY <1>1, <1>3, <2>1, FoundKeeps DEF Steps
<1>4. CASE Found(j, [NewReport EXCEPT !.kind = "degraded", !.warned = TRUE], "open_json")
  <2>1. /\ [NewReport EXCEPT !.kind = "degraded", !.warned = TRUE] \in Report
        /\ FoundOut("open_json", [NewReport EXCEPT !.kind = "degraded", !.warned = TRUE], trees)
    BY DEF NewReport, Report, FoundOut, Truthful
  <2> QED BY <1>1, <1>4, <2>1, FoundKeeps DEF Steps
<1>5. CASE Over(j, FALSE) /\ UNCHANGED <<trees, json, page>>
  BY <1>1, <1>5, OverKeeps, FilesHold
<1> QED BY <1>2, <1>3, <1>4, <1>5 DEF Stat

\* git status.
LEMMA StatusKeeps ==
  ASSUME Inv, NEW j \in Refreshers, Status(j)
  PROVE  Inv'
<1> DEFINE r == scan[j]
<1>1. faults' \in 0 .. MaxFaults
  BY FaultType DEF Status, Inv
<1>2. /\ r \in Report /\ ~r.dirty /\ r.files = {}
      /\ trees \in Seq(Trees) /\ Len(trees) \in 1 .. Len(trees) /\ Tree = trees[Len(trees)]
      /\ Dirty(Tree) \in BOOLEAN
  <2>1. r \in Report /\ FoundOut("status", r, trees)
    BY DEF Inv, TypeOK, ScanInv, Status
  <2>2. trees \in Seq(Trees) /\ Len(trees) \in 1 .. Len(trees) /\ Tree = trees[Len(trees)]
    BY DEF Inv, TypeOK, Now, Tree
  <2>3. Tree.other \in BOOLEAN
    BY <2>2, ConstantsAssumption
  <2> QED BY <2>1, <2>2, <2>3 DEF FoundOut, Dirty
<1>3. ASSUME NEW d \in Report, d.files = {}, d.dirty => Dirty(Tree) \/ d.noise,
             d.warned \/ (Dirty(Tree) => d.dirty), Found(j, d, "names")
      PROVE  Inv'
  <2>1. SawStatus(d, trees)
    BY <1>2, <1>3 DEF SawStatus
  <2>2. FoundOut("names", d, trees)
    BY <1>3, <2>1 DEF FoundOut, Writing
  <2> QED BY <1>1, <1>3, <2>2, FoundKeeps DEF Steps
<1>4. CASE Found(j, [r EXCEPT !.dirty = Dirty(Tree)], "names")
  <2> DEFINE d == [r EXCEPT !.dirty = Dirty(Tree)]
  <2>1. d \in Report /\ d.files = {} /\ d.dirty = Dirty(Tree)
    BY <1>2 DEF Report
  <2> QED BY <1>3, <1>4, <2>1
<1>5. ASSUME NEW w \in BOOLEAN,
             Found(j, [r EXCEPT !.dirty = TRUE, !.noise = TRUE, !.warned = @ \/ w], "names")
      PROVE  Inv'
  <2> DEFINE d == [r EXCEPT !.dirty = TRUE, !.noise = TRUE, !.warned = @ \/ w]
  <2>1. (r.warned \/ w) \in BOOLEAN
    BY <1>2 DEF Report
  <2>2. d \in Report /\ d.files = {} /\ d.dirty = TRUE /\ d.noise = TRUE
    BY <1>2, <2>1 DEF Report
  <2> QED BY <1>3, <1>5, <2>2
<1>6. CASE Found(j, [r EXCEPT !.warned = TRUE], "names")
  <2> DEFINE d == [r EXCEPT !.warned = TRUE]
  <2>1. d \in Report /\ d.files = {} /\ d.dirty = r.dirty /\ d.warned = TRUE
    BY <1>2 DEF Report
  <2> QED BY <1>2, <1>3, <1>6, <2>1
<1>7. CASE Found(j, [r EXCEPT !.dirty = Dirty(Tree), !.warned = TRUE], "names")
  <2> DEFINE d == [r EXCEPT !.dirty = Dirty(Tree), !.warned = TRUE]
  <2>1. d \in Report /\ d.files = {} /\ d.dirty = Dirty(Tree) /\ d.warned = TRUE
    BY <1>2 DEF Report
  <2> QED BY <1>3, <1>7, <2>1
<1> QED BY <1>4, <1>5, <1>6, <1>7 DEF Status

\* git diff --name-only.
LEMMA NameOnlyKeeps ==
  ASSUME Inv, NEW j \in Refreshers, NameOnly(j)
  PROVE  Inv'
<1> DEFINE r == scan[j]
           now == trees[Len(trees)].changed
<1>1. faults' \in 0 .. MaxFaults
  BY FaultType DEF NameOnly, Inv
<1>2. /\ r \in Report /\ SawStatus(r, trees) /\ r.files = {}
      /\ trees \in Seq(Trees) /\ Len(trees) >= 1 /\ Tree.changed = now /\ now \subseteq Files
  <2>1. r \in Report /\ FoundOut("names", r, trees)
    BY DEF Inv, TypeOK, ScanInv, NameOnly
  <2>2. trees \in Seq(Trees) /\ Len(trees) >= 1 /\ Tree.changed = now
    BY DEF Inv, TypeOK, Now, Tree
  <2>3. trees[Len(trees)] \in Trees
    BY <2>2
  <2> QED BY <2>1, <2>2, <2>3, ConstantsAssumption DEF FoundOut
<1> HIDE DEF now
<1>3. ASSUME NEW d \in Report, d.dirty = r.dirty, d.kind = r.kind, r.noise => d.noise,
             r.warned => d.warned, d.files \subseteq now, d.warned \/ d.noise \/ d.files = now,
             Found(j, d, "open_json")
      PROVE  Inv'
  <2>1. Truthful(d, trees)
    BY <1>2, <1>3, ListCompletes DEF now
  <2>2. FoundOut("open_json", d, trees)
    BY <2>1 DEF FoundOut
  <2> QED BY <1>1, <1>3, <2>2, FoundKeeps DEF Steps
<1>4. CASE Found(j, [r EXCEPT !.files = Tree.changed], "open_json")
  <2> DEFINE d == [r EXCEPT !.files = Tree.changed]
  <2>1. /\ d \in Report /\ d.dirty = r.dirty /\ d.kind = r.kind /\ d.noise = r.noise
        /\ d.warned = r.warned /\ d.files = now
    BY <1>2 DEF Report
  <2> QED BY <1>3, <1>4, <2>1
<1>5. ASSUME NEW names \in SUBSET Tree.changed,
             Found(j, [r EXCEPT !.files = names, !.noise = TRUE], "open_json")
      PROVE  Inv'
  <2> DEFINE d == [r EXCEPT !.files = names, !.noise = TRUE]
  <2>1. /\ d \in Report /\ d.dirty = r.dirty /\ d.kind = r.kind /\ d.noise = TRUE
        /\ d.warned = r.warned /\ d.files \subseteq now
    BY <1>2 DEF Report
  <2> QED BY <1>3, <1>5, <2>1
<1>6. CASE Found(j, [r EXCEPT !.warned = TRUE], "open_json")
  <2> DEFINE d == [r EXCEPT !.warned = TRUE]
  <2>1. /\ d \in Report /\ d.dirty = r.dirty /\ d.kind = r.kind /\ d.noise = r.noise
        /\ d.warned = TRUE /\ d.files = {}
    BY <1>2 DEF Report
  <2> QED BY <1>3, <1>6, <2>1
<1> QED BY <1>4, <1>5, <1>6 DEF NameOnly

\* The steps of report.Write.
LEMMA ReportKeeps ==
  ASSUME Inv, NEW j \in Refreshers,
         OpenFails(j) \/ OpenJson(j) \/ WriteJson(j) \/ OpenPage(j) \/ WritePage(j) \/ WriteFails(j)
  PROVE  Inv'
<1>1. /\ json \in FileContents /\ JsonInv(json, trees)
      /\ page \in FileContents /\ PageInv(page, trees)
      /\ \A f \in {Empty, Broken} : f \in FileContents /\ JsonInv(f, trees) /\ PageInv(f, trees)
  BY FilesHold
<1>2. CASE OpenFails(j)
  <2>1. faults' \in 0 .. MaxFaults
    BY <1>2, FaultType DEF OpenFails, Inv
  <2> QED BY <1>1, <1>2, <2>1, OverKeeps DEF OpenFails
<1>3. CASE OpenJson(j)
  BY <1>1, <1>3, WriteKeeps DEF OpenJson, Writing
<1>4. CASE WriteJson(j)
  <2>1. json' \in {Holding(scan[j]), Broken} /\ job[j] \in Writing
    BY <1>4 DEF WriteJson, Written, Writing
  <2>2. json' \in FileContents /\ JsonInv(json', trees)
    BY <1>1, <2>1, ReportHolds
  <2> QED BY <1>1, <1>4, <2>2, WriteKeeps DEF WriteJson, Writing
<1>5. CASE OpenPage(j)
  BY <1>1, <1>5, WriteKeeps DEF OpenPage, Writing
<1>6. CASE WritePage(j)
  <2>1. page' \in {Holding(Shown(scan[j])), Broken} /\ job[j] \in Writing
    BY <1>6 DEF WritePage, Written, Writing
  <2>2. page' \in FileContents /\ PageInv(page', trees)
    BY <1>1, <2>1, ReportHolds
  <2>3. faults' \in 0 .. MaxFaults
    BY <1>6, FaultType DEF WritePage, Inv
  <2> QED BY <1>1, <1>6, <2>2, <2>3, OverKeeps DEF WritePage
<1>7. CASE WriteFails(j)
  <2>1. faults' \in 0 .. MaxFaults
    BY <1>7, FaultType DEF WriteFails, Inv
  <2>2. json' \in {json, Broken} /\ page' \in {page, Broken} /\ trees' = trees
    BY <1>7 DEF WriteFails
  <2> QED BY <1>1, <1>7, <2>1, <2>2, OverKeeps DEF WriteFails
<1> QED BY <1>2, <1>3, <1>4, <1>5, <1>6, <1>7

-----------------------------------------------------------------------------
(* The server and the workspace *)

\* The server accepts a directory, and starts a refresh when its ticker fires or
\* a client asks for one; a refresh that begins has found nothing out yet.
LEMMA StartKeeps ==
  ASSUME Inv, Resolve \/ Tick \/ \E j \in Refreshers : Post(j)
  PROVE  Inv'
<1>1. /\ UNCHANGED <<trees, faults, scan, json, page>>
      /\ server' \in {"first", "serving", "ended"}
      /\ job' = job \/ \E j \in Refreshers : job' = [job EXCEPT ![j] = "stat"]
  BY ConstantsAssumption DEF Resolve, Tick, Post, Goto, Refreshers, Ticker
<1>2. job \in [Refreshers -> Steps]
  BY DEF Inv, TypeOK
<1>3. job' \in [Refreshers -> Steps] /\ \A j \in Refreshers : job'[j] \in {job[j], "stat"}
  BY <1>1, <1>2 DEF Steps
<1>4. TypeOK'
  BY <1>1, <1>3 DEF Inv, TypeOK, Now
<1>5. ScanInv'
  BY <1>1, <1>3 DEF Inv, ScanInv, FoundOut, Writing
<1> QED BY <1>1, <1>4, <1>5 DEF Inv

\* A change of the workspace, during a scan too, leaves what was said of it.
LEMMA EditKeeps ==
  ASSUME Inv, Edit
  PROVE  Inv'
<1>1. PICK t \in Trees : trees' = Append(trees, t)
  BY DEF Edit
<1>2. /\ UNCHANGED <<server, faults, job, scan, json, page>>
      /\ trees \in Seq(Trees) /\ Len(trees) <= MaxEdits
  BY DEF Edit, Inv, TypeOK, Now
<1>3. trees' \in Seq(Trees) /\ Len(trees') = Len(trees) + 1
  BY <1>1, <1>2
<1>4. Len(trees) \in 1 .. MaxEdits + 1 /\ Len(trees') \in 1 .. MaxEdits + 1
  BY <1>2, <1>3, ConstantsAssumption DEF Inv, TypeOK, Now
<1>5. TypeOK'
  BY <1>2, <1>3, <1>4 DEF Inv, TypeOK, Now
<1>6. \A r : /\ SawStatus(r, trees) => SawStatus(r, trees')
             /\ SaysWhatWas(r, trees) => SaysWhatWas(r, trees')
             /\ ShowsWhatWas(r, trees) => ShowsWhatWas(r, trees')
  BY <1>1, <1>2, SayingsKept
<1>7. ScanInv'
  BY <1>2, <1>6 DEF Inv, ScanInv, FoundOut, Truthful
<1>8. JsonInv(json, trees') /\ PageInv(page, trees')
  BY <1>6 DEF Inv, JsonInv, PageInv, Truthful
<1> QED BY <1>2, <1>5, <1>7, <1>8 DEF Inv

\* The end of the server is the end of its refreshes; the files stay.
LEMMA ShutdownKeeps ==
  ASSUME Inv, Shutdown
  PROVE  Inv'
<1>1. NewReport \in Report /\ "done" \in Steps
  BY DEF NewReport, Report, Steps
<1>2. TypeOK'
  BY <1>1 DEF Inv, TypeOK, Now, Shutdown
<1>3. ScanInv'
  BY <1>1 DEF ScanInv, Shutdown, FoundOut, Writing
<1> QED BY <1>2, <1>3 DEF Inv, Shutdown

-----------------------------------------------------------------------------
(* Theorems *)

\* The initial states satisfy the invariant.
LEMMA InitInv ==
  ASSUME Init
  PROVE  Inv
<1>1. PICK t \in Trees : trees = <<t>>
  BY DEF Init
<1>2. trees \in Seq(Trees) /\ Len(trees) = 1
  BY <1>1
<1>3. Now \in 1 .. MaxEdits + 1
  BY <1>2, ConstantsAssumption DEF Now
<1>4. NewReport \in Report
  BY DEF NewReport, Report
<1>5. TypeOK
  BY <1>2, <1>3, <1>4, ConstantsAssumption DEF Init, TypeOK, Steps
<1>6. ScanInv
  BY DEF Init, ScanInv, FoundOut, Writing
<1>7. JsonInv(json, trees) /\ PageInv(page, trees)
  BY DEF Init, JsonInv, PageInv, Empty
<1> QED BY <1>5, <1>6, <1>7 DEF Inv

\* Every step of the server, of its refreshes and of the workspace keeps Inv.
THEOREM ObserverInvariant == Spec => []Inv
<1>1. ASSUME Inv, [Next]_vars PROVE Inv'
  <2>1. CASE UNCHANGED vars
    BY <1>1, <2>1 DEF vars, Inv, TypeOK, Now, ScanInv
  <2>2. ASSUME NEW j \in Refreshers, Refresh(j) PROVE Inv'
    BY <1>1, <2>2, StatKeeps, StatusKeeps, NameOnlyKeeps, ReportKeeps DEF Refresh
  <2> QED BY <1>1, <2>1, <2>2, StartKeeps, EditKeeps, ShutdownKeeps DEF Next, Ended
<1> QED BY <1>1, InitInv, PTL DEF Spec

\* Every variable keeps its type.
THEOREM ObserverTypeCorrect == Spec => []TypeOK
<1>1. Inv => TypeOK
  BY DEF Inv
<1> QED BY <1>1, ObserverInvariant, PTL

\* state.json without a warning says what was so, or, with git's stderr in it, more
\* than that on "dirty" and less on the files; the page, which shows no warnings,
\* shows no change there was not.  However the workspace changes between two git
\* commands, however refreshes overlap and whatever fails (scanner.go:66-92,
\* report.go:12-36).
THEOREM ReportAlwaysTruthful == Spec => []ReportIsTruthful
<1>1. Inv => ReportIsTruthful
  BY DEF Inv, JsonInv, PageInv, Truthful, ReportIsTruthful
<1> QED BY <1>1, ObserverInvariant, PTL

=============================================================================
