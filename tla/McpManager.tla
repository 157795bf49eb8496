------------------------------ MODULE McpManager ------------------------------
(***************************************************************************)
(* The MCP process manager of internal/mcp/manager.go: one lazily started  *)
(* server process per session and server (a key), stopped when idle.       *)
(*                                                                         *)
(* Every method holds Manager.mu from its first to its last statement, so  *)
(* a call is one step.  The time a caller passes was read before the lock  *)
(* was taken and may lag behind; an error of the Starter changes nothing   *)
(* and is a stuttering step.                                               *)
(***************************************************************************)
EXTENDS Integers

CONSTANTS
    Keys,         \* clientKey(sessionID, serverName)
    Procs,        \* the processes a Starter can start
    None,         \* no process
    IdleTimeout,  \* Options.IdleTimeout, in ticks
    MaxLag,       \* how far the `now' of a caller may lag behind
    MaxClock,     \* bound on the clock
    StopMayFail   \* Process.Stop may return an error and leave the process

ASSUME ConstantsAssumption ==
    /\ None \notin Procs \cup Keys
    /\ IdleTimeout \in Nat /\ MaxLag \in Nat /\ MaxClock \in Nat \ {0}
    /\ StopMayFail \in BOOLEAN

VARIABLES
    clock,       \* real time
    clients,     \* key -> its managed process, or None
    lastUsedAt,  \* key -> managedProcess.lastUsedAt
    proc,        \* process -> "unstarted", "alive", "dead"
    startedFor,  \* process -> the key it was started for (history)
    usedAt       \* process -> the real time Use last returned it (history)

vars == <<clock, clients, lastUsedAt, proc, startedFor, usedAt>>

Times == 0 .. MaxClock

TypeOK ==
    /\ clock \in 1 .. MaxClock
    /\ clients \in [Keys -> Procs \cup {None}]
    /\ lastUsedAt \in [Keys -> Times]
    /\ proc \in [Procs -> {"unstarted", "alive", "dead"}]
    /\ startedFor \in [Procs -> Keys \cup {None}]
    /\ usedAt \in [Procs -> Times]

Init ==
    /\ clock = 1
    /\ clients = [k \in Keys |-> None]
    /\ lastUsedAt = [k \in Keys |-> 0]
    /\ proc = [p \in Procs |-> "unstarted"]
    /\ startedFor = [p \in Procs |-> None]
    /\ usedAt = [p \in Procs |-> 0]

\* The times a call that runs now may have been given.
Nows == {t \in 1 .. clock : clock - t <= MaxLag}

Alive(k) == clients[k] # None /\ proc[clients[k]] = "alive"

-----------------------------------------------------------------------------

\* Mutant: a reuse that does not renew lastUsedAt.
UseRunningUnnoted(k, now) ==
    /\ Alive(k)
    /\ usedAt' = [usedAt EXCEPT ![clients[k]] = clock]
    /\ UNCHANGED <<clock, clients, lastUsedAt, proc, startedFor>>

\* Use: the process of the key, if it is alive, ...
UseRunning(k, now) ==
    /\ Alive(k)
    /\ lastUsedAt' = [lastUsedAt EXCEPT ![k] = now]
    /\ usedAt' = [usedAt EXCEPT ![clients[k]] = clock]
    /\ UNCHANGED <<clock, clients, proc, startedFor>>

\* ... or a new one, in the place of a dead one or of none.
UseStarted(k, now, p) ==
    /\ ~Alive(k)
    /\ proc[p] = "unstarted"
    /\ proc' = [proc EXCEPT ![p] = "alive"]
    /\ clients' = [clients EXCEPT ![k] = p]
    /\ lastUsedAt' = [lastUsedAt EXCEPT ![k] = now]
    /\ startedFor' = [startedFor EXCEPT ![p] = k]
    /\ usedAt' = [usedAt EXCEPT ![p] = clock]
    /\ UNCHANGED clock

Idle(now) == {k \in Keys : clients[k] # None /\ now - lastUsedAt[k] > IdleTimeout}

\* Mutant: idle entries are forgotten, their processes not stopped.
CleanupIdleForgets(now, failed) ==
    /\ Idle(now) # {}
    /\ clients' = [k \in Keys |-> IF k \in Idle(now) THEN None ELSE clients[k]]
    /\ UNCHANGED <<clock, lastUsedAt, proc, startedFor, usedAt>>

\* Every idle entry is stopped and forgotten; an error of Stop is ignored.
CleanupIdle(now, failed) ==
    LET stopped == {clients[k] : k \in Idle(now) \ failed} IN
    /\ Idle(now) # {}
    /\ failed # {} => StopMayFail
    /\ proc' = [p \in Procs |-> IF p \in stopped THEN "dead" ELSE proc[p]]
    /\ clients' = [k \in Keys |-> IF k \in Idle(now) THEN None ELSE clients[k]]
    /\ UNCHANGED <<clock, lastUsedAt, startedFor, usedAt>>

Zombies == {k \in Keys : clients[k] # None /\ ~Alive(k)}

CleanupZombies ==
    /\ Zombies # {}
    /\ clients' = [k \in Keys |-> IF k \in Zombies THEN None ELSE clients[k]]
    /\ UNCHANGED <<clock, lastUsedAt, proc, startedFor, usedAt>>

\* A server process ends by itself.
Dies(p) ==
    /\ proc[p] = "alive"
    /\ proc' = [proc EXCEPT ![p] = "dead"]
    /\ UNCHANGED <<clock, clients, lastUsedAt, startedFor, usedAt>>

Tick ==
    /\ clock < MaxClock
    /\ clock' = clock + 1
    /\ UNCHANGED <<clients, lastUsedAt, proc, startedFor, usedAt>>

Next ==
    \/ \E k \in Keys, now \in Nows :
          UseRunning(k, now) \/ \E p \in Procs : UseStarted(k, now, p)
    \/ \E now \in Nows : \E failed \in SUBSET Idle(now) : CleanupIdle(now, failed)
    \/ CleanupZombies
    \/ \E p \in Procs : Dies(p)
    \/ Tick

Spec == Init /\ [][Next]_vars

-----------------------------------------------------------------------------
(* Properties *)

\* What the manager knows of a process: which key it belongs to and, up to the
\* lag, when it was last used.
EntriesCurrent ==
    \A k \in Keys : clients[k] # None =>
        /\ startedFor[clients[k]] = k
        /\ proc[clients[k]] # "unstarted"
        /\ usedAt[clients[k]] <= lastUsedAt[k] + MaxLag

\* No server process is left running that the manager does not know: a live
\* process is the one registered for the key it was started for, so a key never
\* has two (manager.go:58-110), as long as Stop works.
LiveIsManaged ==
    \A p \in Procs : proc[p] = "alive" => startedFor[p] # None /\ clients[startedFor[p]] = p

\* A process is only taken from its users as idle if Use has not returned it for
\* the idle timeout, less the lag of the callers' clocks (manager.go:65-67, 88).
IdleIsUnused ==
    [][\A k \in Keys : Alive(k) /\ clients'[k] = None =>
          clock - usedAt[clients[k]] > IdleTimeout - MaxLag]_vars

=============================================================================
