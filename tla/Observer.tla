------------------------------- MODULE Observer -------------------------------
(***************************************************************************)
(* `remote observe --serve': runObserve of remote/cmd/remote/main.go, the  *)
(* scanner of remote/internal/observer, the two report files of            *)
(* remote/internal/report and the refreshes of remote/internal/            *)
(* reportserver, which a ticker and every POST /refresh start and which    *)
(* may overlap.  The workspace changes while it is scanned, one git        *)
(* command at a time.                                                      *)
(*                                                                         *)
(* A workspace is the set of its tracked files with unstaged changes and   *)
(* whether there are changes only `git status' shows (staged, untracked).  *)
(* A report holds what Scan found out; its branch and its diff stat are    *)
(* left out, the warnings for them are kept.                               *)
(***************************************************************************)
EXTENDS Naturals, Sequences

CONSTANTS
    Files,      \* tracked files of the project
    Trees,      \* the workspaces there may be
    MaxPosts,   \* bound on the requests POST /refresh
    MaxEdits,   \* bound on the changes of the workspace
    MaxFaults   \* bound on commands that fail or write to stderr, and on failed writes

ASSUME ConstantsAssumption ==
    /\ Trees \subseteq [changed : SUBSET Files, other : BOOLEAN]
    /\ MaxPosts \in Nat /\ MaxEdits \in Nat /\ MaxFaults \in Nat

Dirty(tree) == tree.changed # {} \/ tree.other

\* Where an output directory is, seen from the project: `lexical' by its name,
\* `real' where a write lands, `named' by its name in the project's real directory.
Places == [lexical : {"same", "inside", "outside"}, real : {"same", "inside", "outside"},
           named : {"inside", "outside"}, exists : BOOLEAN]

\* The refreshes of the ticker, one after the other, and those of POST /refresh,
\* numbered as they arrive, each in a goroutine of its own.
Ticker == 0
Refreshers == 0 .. MaxPosts

VARIABLES
    server,   \* "resolve", "first", "serving", "ended"
    trees,    \* the workspaces there were, the last one the present (history)
    faults,   \* failures so far (history)
    job,      \* refresher -> its step
    scan,     \* refresher -> the report it works on
    json,     \* state.json
    page      \* index.html

vars == <<server, trees, faults, job, scan, json, page>>

Now == Len(trees)
Tree == trees[Now]

\* The result of a scan: what it found, whether git's stderr is in it as lines of
\* the status or of the list of files, and whether it has warnings.
Report ==
    [kind : {"full", "degraded"}, dirty : BOOLEAN, files : SUBSET Files,
     noise : BOOLEAN, warned : BOOLEAN]

NewReport ==
    [kind |-> "full", dirty |-> FALSE, files |-> {}, noise |-> FALSE, warned |-> FALSE]

\* A file: empty or missing, a report, or neither: a part of one, or the remains
\* of two.
Empty == [state |-> "empty"]
Broken == [state |-> "broken"]
Holding(report) == [state |-> "report", report |-> report]

\* ResolveOutput accepts the directory.  The real directory of one that does not
\* exist yet is not known.
ResolveOutput(place) ==
    /\ place.lexical # "inside"
    /\ IF place.exists THEN place.real = "outside" ELSE place.named = "outside"

Init ==
    /\ server = "resolve"
    /\ trees \in {<<t>> : t \in Trees}
    /\ faults = 0
    /\ job = [j \in Refreshers |-> "idle"]
    /\ scan = [j \in Refreshers |-> NewReport]
    /\ json = Empty
    /\ page = Empty

Goto(j, step) == job' = [job EXCEPT ![j] = step]
Fault == faults < MaxFaults /\ faults' = faults + 1

\* runObserve: the output is resolved, a first report is written, and only then
\* is it served.
Resolve ==
    /\ server = "resolve"
    /\ \E place \in Places :
          \/ ResolveOutput(place) /\ server' = "first" /\ Goto(Ticker, "stat")
          \/ ~ResolveOutput(place) /\ server' = "ended" /\ UNCHANGED job
    /\ UNCHANGED <<trees, faults, scan, json, page>>

\* RefreshLoop: the ticker fires when its last refresh is over; ...
Tick ==
    /\ server = "serving" /\ job[Ticker] = "idle"
    /\ Goto(Ticker, "stat")
    /\ UNCHANGED <<server, trees, faults, scan, json, page>>

\* ... the handler of POST /refresh starts one whatever the others do.
Post(j) ==
    /\ server = "serving" /\ j # Ticker /\ job[j] = "idle"
    /\ \A i \in 1 .. j - 1 : job[i] # "idle"
    /\ Goto(j, "stat")
    /\ UNCHANGED <<server, trees, faults, scan, json, page>>

\* The refresh is over.  After the first one the report is served, unless it
\* failed, --serve was not given or the port is taken; the result of a later one
\* is ignored or told to the client.
Over(j, ok) ==
    /\ Goto(j, IF j = Ticker THEN "idle" ELSE "done")
    /\ scan' = [scan EXCEPT ![j] = NewReport]
    /\ server' \in IF server # "first" THEN {server} ELSE IF ok THEN {"serving", "ended"} ELSE {"ended"}

-----------------------------------------------------------------------------
(* Scan *)

\* The scan goes on with r at the given step.
Found(j, r, step) ==
    /\ scan' = [scan EXCEPT ![j] = r]
    /\ Goto(j, step)
    /\ UNCHANGED <<server, trees, json, page>>

\* A git command may succeed and have written to stderr, which CombinedOutput
\* mixes into its output, or it may fail or take longer than two seconds.  The
\* commands whose output is left out are no steps of their own.
\*
\* The project is there, or the refresh fails; then git rev-parse, and git branch.
\* No git, an error or a line more than "true" gives a report that says so; a
\* failure of git branch gives a warning.
Stat(j) ==
    /\ job[j] = "stat"
    /\ \/ Found(j, NewReport, "status") /\ UNCHANGED faults
       \/ Fault /\ Found(j, [NewReport EXCEPT !.warned = TRUE], "status")
       \/ Fault /\ Found(j, [NewReport EXCEPT !.kind = "degraded", !.warned = TRUE], "open_json")
       \/ Fault /\ Over(j, FALSE) /\ UNCHANGED <<trees, json, page>>

\* Mutant: a failure of git status is not mentioned.
StatusSilent(j) ==
    /\ job[j] = "status"
    /\ \/ Found(j, [scan[j] EXCEPT !.dirty = Dirty(Tree)], "names") /\ UNCHANGED faults
       \/ Fault /\ Found(j, scan[j], "names")

\* git status --porcelain: any output means dirty; a failure leaves the report
\* "clean", with a warning.  A failure of git diff --stat gives a warning only.
Status(j) ==
    /\ job[j] = "status"
    /\ \/ Found(j, [scan[j] EXCEPT !.dirty = Dirty(Tree)], "names") /\ UNCHANGED faults
       \/ Fault /\ \E w \in BOOLEAN :
             Found(j, [scan[j] EXCEPT !.dirty = TRUE, !.noise = TRUE, !.warned = @ \/ w], "names")
       \/ Fault /\ Found(j, [scan[j] EXCEPT !.warned = TRUE], "names")
       \/ Fault /\ Found(j, [scan[j] EXCEPT !.dirty = Dirty(Tree), !.warned = TRUE], "names")

\* git diff --name-only, then the cards.  Every line counts as a file; one of
\* stderr may also fall into the middle of a name.
NameOnly(j) ==
    /\ job[j] = "names"
    /\ \/ Found(j, [scan[j] EXCEPT !.files = Tree.changed], "open_json")
          /\ UNCHANGED faults
       \/ Fault /\ \E names \in SUBSET Tree.changed :
             Found(j, [scan[j] EXCEPT !.files = names, !.noise = TRUE], "open_json")
       \/ Fault /\ Found(j, [scan[j] EXCEPT !.warned = TRUE], "open_json")

-----------------------------------------------------------------------------
(* report.Write *)

\* Over a file that is not empty, a shorter report leaves the end of the other.
Written(report, file) ==
    IF file = Empty THEN {Holding(report)} ELSE {Holding(report), Broken}

\* MkdirAll, or the opening of a file, fails.
OpenFails(j) ==
    /\ job[j] \in {"open_json", "open_page"}
    /\ Fault /\ Over(j, FALSE)
    /\ UNCHANGED <<trees, json, page>>

\* Mutant: the file is opened without O_TRUNC.
OpenJsonKeeps(j) ==
    /\ job[j] = "open_json"
    /\ Goto(j, "write_json")
    /\ UNCHANGED <<server, trees, faults, scan, json, page>>

\* Opening a file empties it.
OpenJson(j) ==
    /\ job[j] = "open_json"
    /\ Goto(j, "write_json")
    /\ json' = Empty
    /\ UNCHANGED <<server, trees, faults, scan, page>>

WriteJson(j) ==
    /\ job[j] = "write_json"
    /\ Goto(j, "open_page")
    /\ json' \in Written(scan[j], json)
    /\ UNCHANGED <<server, trees, faults, scan, page>>

OpenPage(j) ==
    /\ job[j] = "open_page"
    /\ Goto(j, "write_page")
    /\ page' = Empty
    /\ UNCHANGED <<server, trees, faults, scan, json>>

\* The page has no place for warnings.
Shown(report) == [report EXCEPT !.warned = FALSE]

\* It is written in pieces, so two refreshes that write it at a time mix it too.
WritePage(j) ==
    /\ job[j] = "write_page"
    /\ Over(j, TRUE)
    /\ page' \in Written(Shown(scan[j]), page) \cup
                   {Broken : k \in {l \in Refreshers \ {j} : job[l] = "write_page"}}
    /\ UNCHANGED <<trees, faults, json>>

\* A write fails, with nothing or a part of the report in the emptied file; the
\* refresh is over.
WriteFails(j) ==
    /\ Fault /\ Over(j, FALSE)
    /\ \/ job[j] = "write_json" /\ json' \in {json, Broken} /\ UNCHANGED page
       \/ job[j] = "write_page" /\ page' \in {page, Broken} /\ UNCHANGED json
    /\ UNCHANGED trees

-----------------------------------------------------------------------------
(* Environment *)

Edit ==
    /\ Now <= MaxEdits /\ server # "ended"
    /\ \E t \in Trees \ {Tree} : trees' = Append(trees, t)
    /\ UNCHANGED <<server, faults, job, scan, json, page>>

\* A signal; the process ends with its refreshes.
Shutdown ==
    /\ server = "serving"
    /\ server' = "ended"
    /\ job' = [j \in Refreshers |-> "done"]
    /\ scan' = [j \in Refreshers |-> NewReport]
    /\ UNCHANGED <<trees, faults, json, page>>

Ended == server = "ended" /\ UNCHANGED vars

Refresh(j) ==
    \/ Stat(j) \/ Status(j) \/ NameOnly(j)
    \/ OpenFails(j) \/ OpenJson(j) \/ WriteJson(j) \/ OpenPage(j) \/ WritePage(j)
    \/ WriteFails(j)

Next ==
    \/ Resolve \/ Tick
    \/ \E j \in Refreshers : Post(j) \/ Refresh(j)
    \/ Edit \/ Shutdown \/ Ended

Spec == Init /\ [][Next]_vars

\* The ticker fires and a refresh goes on: every git command is killed after two
\* seconds, and none leaves a process behind that keeps its output open.
FairSpec ==
    /\ Spec
    /\ WF_vars(Resolve) /\ WF_vars(Tick)
    /\ \A j \in Refreshers : WF_vars(Refresh(j))

-----------------------------------------------------------------------------
(* Properties *)

Steps == {"idle", "stat", "status", "names", "open_json", "write_json", "open_page", "write_page", "done"}

TypeOK ==
    /\ server \in {"resolve", "first", "serving", "ended"}
    /\ trees \in Seq(Trees) /\ Now \in 1 .. MaxEdits + 1
    /\ faults \in 0 .. MaxFaults
    /\ job \in [Refreshers -> Steps]
    /\ scan \in [Refreshers -> Report]
    /\ {json, page} \subseteq {Empty, Broken} \cup {Holding(r) : r \in Report}

\* What a report says was so: the workspace was clean, or dirty, as it says, and
\* then or later had the changed files it lists.  That the two need not have been
\* so at once is lost.  With git's stderr in it, without any warning, it may say
\* "dirty" of a clean workspace and miss a file, never the other way round.
SaysWhatWas(r, h) ==
    \E s, n \in 1 .. Len(h) :
        /\ s <= n
        /\ Dirty(h[s]) => r.dirty
        /\ r.dirty => Dirty(h[s]) \/ r.noise
        /\ r.files \subseteq h[n].changed
        /\ r.noise \/ r.files = h[n].changed

\* What is left of that when a command has failed and nothing says so: a dirty
\* workspace was dirty, a listed file was changed, but "Clean" means nothing.
ShowsWhatWas(r, h) ==
    \E s, n \in 1 .. Len(h) :
        /\ s <= n
        /\ r.dirty => Dirty(h[s]) \/ r.noise
        /\ r.files \subseteq h[n].changed

\* However refreshes overlap and the workspace changes: state.json, if it is a
\* report without warnings, says what was so (scanner.go:66-92); index.html, which
\* leaves the warnings out, shows no change there was not (report.go:31-36).
ReportIsTruthful ==
    /\ json.state = "report" /\ json.report.kind = "full" /\ ~json.report.warned => SaysWhatWas(json.report, trees)
    /\ page.state = "report" /\ page.report.kind = "full" => ShowsWhatWas(page.report, trees)

\* The report catches up: once the workspace is left alone, no client posts any
\* more and no command or write fails any more, both files show the workspace for
\* good, apart from the moments in which they are rewritten, whatever overlapping
\* or failed refreshes have left in them (server.go:49-64, report.go:12-29).
Current(file) ==
    \/ file = Empty
    \/ /\ file.state = "report" /\ file.report.kind = "full"
       /\ ~file.report.warned /\ ~file.report.noise
       /\ file.report.dirty = Dirty(Tree) /\ file.report.files = Tree.changed

ReportCatchesUp == <>[](server = "ended" \/ (Current(json) /\ Current(page)))

=============================================================================
