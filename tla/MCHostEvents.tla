---------------------------- MODULE MCHostEvents ----------------------------
EXTENDS HostEvents, TLC

CONSTANTS r1, r2, r3

MCRequests == {r1, r2, r3}

\* A valid request; the scripts below vary it.
Plain(event) ==
    [event |-> event, version |-> 1, id |-> TRUE, provider |-> TRUE, absolute |-> TRUE,
     project |-> TRUE, session |-> TRUE, work |-> FALSE, decision |-> "allow", failed |-> FALSE, blocked |-> FALSE]

Before(decision) == [Plain("on-tool-before") EXCEPT !.decision = decision]
After(failed) == [Plain("on-tool-after") EXCEPT !.failed = failed]
Stop == Plain("on-stop")
StopDaemon == [Stop EXCEPT !.session = FALSE]
Error == Plain("on-error")
BlockedError == [Error EXCEPT !.blocked = TRUE]
Unknown == Plain("unsupported")

\* A tool call beside one other event, and the events that meet each other.
Triples ==
    {<<Before("allow"), After(FALSE), Stop>>,
     <<[Before("block") EXCEPT !.id = FALSE], After(FALSE), Unknown>>,
     <<Before("warn"), After(TRUE), StopDaemon>>,
     <<Before("block"), After(TRUE), Error>>,
     <<Stop, BlockedError, Plain("on-compact")>>,
     <<[Plain("on-submit") EXCEPT !.work = TRUE], Plain("on-run"), [Error EXCEPT !.project = FALSE]>>,
     <<[Plain("on-submit") EXCEPT !.failed = TRUE], [Before("allow") EXCEPT !.version = 2],
       [Stop EXCEPT !.absolute = FALSE]>>}

MCScripts == {(r1 :> t[1]) @@ (r2 :> t[2]) @@ (r3 :> t[3]) : t \in Triples}

=============================================================================
