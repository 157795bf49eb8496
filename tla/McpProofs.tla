------------------------------ MODULE McpProofs ------------------------------
(***************************************************************************)
(* The two halves of internal/mcp.  The manager, for any number of keys    *)
(* and processes, any timeout and any lag: no process is leaked while Stop *)
(* works, and none that was handed out within the timeout is stopped as    *)
(* idle.  The router, for any sessions, servers and clients: a session's   *)
(* end closes only clients of sessions whose ids begin with its own.       *)
(***************************************************************************)
EXTENDS McpManager, TLAPS

Inv == TypeOK /\ EntriesCurrent

LEMMA InitInv == Init => Inv
BY ConstantsAssumption DEF Init, Inv, TypeOK, EntriesCurrent, Times

LEMMA NowType == TypeOK => \A now \in Nows : now \in Times /\ clock <= now + MaxLag
BY ConstantsAssumption DEF TypeOK, Nows, Times

LEMMA NextInv == Inv /\ [Next]_vars => Inv'
<1> SUFFICES ASSUME Inv, [Next]_vars PROVE Inv'
  OBVIOUS
<1> USE ConstantsAssumption DEF Inv
<1>1. ASSUME NEW k \in Keys, NEW now \in Nows, UseRunning(k, now)
      PROVE  Inv'
  <2>1. clients[k] \in Procs /\ now \in Times /\ clock <= now + MaxLag /\ clock \in Times
    BY <1>1, NowType DEF UseRunning, Alive, TypeOK, Times
  <2>2. TypeOK'
    BY <1>1, <2>1 DEF UseRunning, TypeOK
  <2>3. ASSUME NEW j \in Keys, clients'[j] # None
        PROVE  /\ startedFor'[clients'[j]] = j
               /\ proc'[clients'[j]] # "unstarted"
               /\ usedAt'[clients'[j]] <= lastUsedAt'[j] + MaxLag
    <3>1. clients[j] # None /\ clients[j] \in Procs
      BY <1>1, <2>3 DEF UseRunning, TypeOK
    <3>2. j # k => clients[j] # clients[k]
      BY <1>1, <3>1 DEF EntriesCurrent, UseRunning, Alive
    <3> QED BY <1>1, <2>1, <3>1, <3>2 DEF UseRunning, EntriesCurrent, TypeOK
  <2> QED BY <2>2, <2>3 DEF EntriesCurrent
<1>2. ASSUME NEW k \in Keys, NEW now \in Nows, NEW p \in Procs, UseStarted(k, now, p)
      PROVE  Inv'
  <2>1. now \in Times /\ clock <= now + MaxLag /\ clock \in Times
    BY NowType DEF TypeOK, Times
  <2>2. TypeOK'
    BY <1>2, <2>1 DEF UseStarted, TypeOK
  <2>3. ASSUME NEW j \in Keys, clients'[j] # None
        PROVE  /\ startedFor'[clients'[j]] = j
               /\ proc'[clients'[j]] # "unstarted"
               /\ usedAt'[clients'[j]] <= lastUsedAt'[j] + MaxLag
    <3>1. CASE j = k
      BY <1>2, <2>1, <3>1 DEF UseStarted, TypeOK
    <3>2. CASE j # k
      <4>1. clients'[j] = clients[j] /\ clients[j] \in Procs /\ clients[j] # p
        BY <1>2, <2>3, <3>2 DEF UseStarted, EntriesCurrent, TypeOK
      <4> QED BY <1>2, <2>3, <3>2, <4>1 DEF UseStarted, EntriesCurrent, TypeOK
    <3> QED BY <3>1, <3>2
  <2> QED BY <2>2, <2>3 DEF EntriesCurrent
<1>3. ASSUME NEW now \in Nows, NEW failed \in SUBSET Idle(now), CleanupIdle(now, failed)
      PROVE  Inv'
  BY <1>3 DEF CleanupIdle, TypeOK, EntriesCurrent
<1>4. CASE CleanupZombies
  BY <1>4 DEF CleanupZombies, TypeOK, EntriesCurrent
<1>5. ASSUME NEW p \in Procs, Dies(p) PROVE Inv'
  BY <1>5 DEF Dies, TypeOK, EntriesCurrent
<1>6. CASE Tick
  BY <1>6 DEF Tick, TypeOK, EntriesCurrent
<1>7. CASE UNCHANGED vars
  BY <1>7 DEF vars, TypeOK, EntriesCurrent
<1> QED BY <1>1, <1>2, <1>3, <1>4, <1>5, <1>6, <1>7 DEF Next

LEMMA InvHolds == Spec => []Inv
BY InitInv, NextInv, PTL DEF Spec

LEMMA LiveNext ==
    ASSUME ~StopMayFail, Inv, LiveIsManaged, [Next]_vars
    PROVE  LiveIsManaged'
<1> USE ConstantsAssumption DEF Inv
<1>1. ASSUME NEW k \in Keys, NEW now \in Nows, UseRunning(k, now)
      PROVE  LiveIsManaged'
  BY <1>1 DEF UseRunning, LiveIsManaged
<1>2. ASSUME NEW k \in Keys, NEW now \in Nows, NEW p \in Procs, UseStarted(k, now, p)
      PROVE  LiveIsManaged'
  <2>1. ASSUME NEW q \in Procs, proc'[q] = "alive"
        PROVE  startedFor'[q] # None /\ clients'[startedFor'[q]] = q
    <3>1. CASE q = p
      BY <1>2, <3>1 DEF UseStarted, TypeOK
    <3>2. CASE q # p
      <4>1. proc[q] = "alive" /\ startedFor'[q] = startedFor[q]
        BY <1>2, <2>1, <3>2 DEF UseStarted, TypeOK
      <4>2. startedFor[q] # None /\ clients[startedFor[q]] = q /\ startedFor[q] \in Keys
        BY <4>1 DEF LiveIsManaged, TypeOK
      <4>3. startedFor[q] # k
        BY <1>2, <4>1, <4>2 DEF UseStarted, Alive
      <4> QED BY <1>2, <4>1, <4>2, <4>3 DEF UseStarted, TypeOK
    <3> QED BY <3>1, <3>2
  <2> QED BY <2>1 DEF LiveIsManaged
<1>3. ASSUME NEW now \in Nows, NEW failed \in SUBSET Idle(now), CleanupIdle(now, failed)
      PROVE  LiveIsManaged'
  <2>1. failed = {}
    BY <1>3 DEF CleanupIdle
  <2>2. ASSUME NEW q \in Procs, proc'[q] = "alive"
        PROVE  startedFor'[q] # None /\ clients'[startedFor'[q]] = q
    <3>1. proc[q] = "alive" /\ q \notin {clients[k] : k \in Idle(now)}
      BY <1>3, <2>1, <2>2 DEF CleanupIdle
    <3>2. startedFor[q] # None /\ clients[startedFor[q]] = q /\ startedFor[q] \in Keys
      BY <3>1 DEF LiveIsManaged, TypeOK
    <3>3. startedFor[q] \notin Idle(now)
      BY <3>1, <3>2
    <3> QED BY <1>3, <3>2, <3>3 DEF CleanupIdle
  <2> QED BY <2>2 DEF LiveIsManaged
<1>4. CASE CleanupZombies
  <2>1. ASSUME NEW q \in Procs, proc[q] = "alive"
        PROVE  startedFor[q] \in Keys \ Zombies /\ clients[startedFor[q]] = q
    BY <2>1 DEF LiveIsManaged, TypeOK, Zombies, Alive
  <2> QED BY <1>4, <2>1 DEF CleanupZombies, LiveIsManaged
<1>5. ASSUME NEW p \in Procs, Dies(p) PROVE LiveIsManaged'
  BY <1>5 DEF Dies, TypeOK, LiveIsManaged
<1>6. CASE Tick
  BY <1>6 DEF Tick, LiveIsManaged
<1>7. CASE UNCHANGED vars
  BY <1>7 DEF vars, LiveIsManaged
<1> QED BY <1>1, <1>2, <1>3, <1>4, <1>5, <1>6, <1>7 DEF Next

\* While Stop works, a live server process is always the registered one of the
\* key it was started for (manager.go:58-110).
THEOREM NoProcessLeaks ==
    ASSUME ~StopMayFail
    PROVE  Spec => []LiveIsManaged
<1>1. Init => LiveIsManaged
  BY DEF Init, LiveIsManaged
<1>2. Inv /\ LiveIsManaged /\ [Next]_vars => LiveIsManaged'
  BY LiveNext
<1> QED BY <1>1, <1>2, InvHolds, PTL DEF Spec

\* CleanupIdle never takes a live process that Use returned within the idle
\* timeout, less the lag of the callers (manager.go:80-96).
THEOREM RecentlyUsedIsKept == Spec => IdleIsUnused
<1> DEFINE Kept == \A k \in Keys : Alive(k) /\ clients'[k] = None =>
                       clock - usedAt[clients[k]] > IdleTimeout - MaxLag
<1>1. Inv /\ [Next]_vars => [Kept]_vars
  <2> SUFFICES ASSUME Inv, Next, NEW k \in Keys, Alive(k), clients'[k] = None
               PROVE  clock - usedAt[clients[k]] > IdleTimeout - MaxLag
    OBVIOUS
  <2> USE ConstantsAssumption DEF Inv
  <2>1. PICK now \in Nows : k \in Idle(now)
    <3>1. ASSUME NEW j \in Keys, NEW now \in Nows, UseRunning(j, now) PROVE FALSE
      BY <3>1 DEF UseRunning, Alive
    <3>2. ASSUME NEW j \in Keys, NEW now \in Nows, NEW p \in Procs, UseStarted(j, now, p)
          PROVE  FALSE
      BY <3>2 DEF UseStarted, Alive, TypeOK
    <3>3. ASSUME NEW now \in Nows, NEW failed \in SUBSET Idle(now), CleanupIdle(now, failed)
          PROVE  k \in Idle(now)
      BY <3>3 DEF CleanupIdle, Alive
    <3>4. ~CleanupZombies
      BY DEF CleanupZombies, Zombies, Alive
    <3>5. ASSUME NEW p \in Procs, Dies(p) PROVE FALSE
      BY <3>5 DEF Dies, Alive
    <3>6. ~Tick
      BY DEF Tick, Alive
    <3> QED BY <3>1, <3>2, <3>3, <3>4, <3>5, <3>6 DEF Next
  <2>2. now <= clock /\ now \in Int /\ clock \in Int
    BY <2>1 DEF Nows, TypeOK
  <2>3. lastUsedAt[k] \in Int /\ usedAt[clients[k]] \in Int
    BY DEF Alive, TypeOK, Times
  <2>4. now - lastUsedAt[k] > IdleTimeout /\ usedAt[clients[k]] <= lastUsedAt[k] + MaxLag
    BY <2>1 DEF Idle, EntriesCurrent
  <2> QED BY <2>2, <2>3, <2>4
<1> QED BY <1>1, InvHolds, PTL DEF Spec, IdleIsUnused

-----------------------------------------------------------------------------
(* The router *)

CONSTANTS Sessions, Servers, Clients, StartsWith

VARIABLES routed, owner, closed, ended

Router == INSTANCE McpRouter WITH clients <- routed

\* An entry of the map belongs to the session in its key.
EntriesOwned ==
    \A k \in Sessions \X Servers : routed[k] # None => owner[routed[k]] = k[1]

\* What is closed was registered, and its session's id begins with that of a
\* session that ended.
ClosedByPrefix ==
    \A c \in closed : /\ owner[c] # None
                      /\ \E s \in ended : <<owner[c], s>> \in StartsWith

RouterInv ==
    /\ routed \in [Sessions \X Servers -> Clients \cup {None}]
    /\ owner \in [Clients -> Sessions \cup {None}]
    /\ closed \subseteq Clients
    /\ EntriesOwned
    /\ ClosedByPrefix

\* Register and Disconnect keep it (client.go:35-64).
LEMMA RouterStep ==
    ASSUME None \notin Sessions, RouterInv, [Router!Next]_(Router!vars)
    PROVE  RouterInv'
<1> USE DEF RouterInv, EntriesOwned, ClosedByPrefix, Router!Keys
<1>1. ASSUME NEW s \in Sessions, NEW v \in Servers, NEW c \in Clients, Router!Register(s, v, c)
      PROVE  RouterInv'
  <2>1. \A b \in Clients : owner[b] # None => owner'[b] = owner[b]
    BY <1>1 DEF Router!Register
  <2>2. EntriesOwned'
    BY <1>1, <2>1 DEF Router!Register
  <2>3. ClosedByPrefix'
    BY <1>1, <2>1 DEF Router!Register
  <2> QED
    BY <1>1, <2>2, <2>3 DEF Router!Register
<1>2. ASSUME NEW s \in Sessions, Router!Disconnect(s) PROVE RouterInv'
  <2>1. ASSUME NEW k \in Router!Matching(s)
        PROVE  routed[k] \in Clients /\ owner[routed[k]] = k[1] /\ <<k[1], s>> \in StartsWith
    BY <2>1 DEF Router!Matching
  <2>2. ClosedByPrefix'
    <3> SUFFICES ASSUME NEW c \in closed'
                 PROVE  owner[c] # None /\ \E t \in ended' : <<owner[c], t>> \in StartsWith
      BY <1>2 DEF Router!Disconnect
    <3>1. CASE c \in closed
      BY <1>2, <3>1 DEF Router!Disconnect
    <3>2. CASE c \notin closed
      <4>1. PICK k \in Router!Matching(s) : c = routed[k]
        BY <1>2, <3>2 DEF Router!Disconnect
      <4>2. k[1] \in Sessions
        BY DEF Router!Matching
      <4> QED
        BY <1>2, <2>1, <4>1, <4>2 DEF Router!Disconnect
    <3> QED
      BY <3>1, <3>2
  <2>3. EntriesOwned' /\ routed' \in [Sessions \X Servers -> Clients \cup {None}]
    BY <1>2 DEF Router!Disconnect
  <2>4. closed' \subseteq Clients /\ owner' = owner
    BY <1>2, <2>1 DEF Router!Disconnect
  <2> QED
    BY <2>2, <2>3, <2>4
<1>3. CASE UNCHANGED Router!vars
  BY <1>3 DEF Router!vars
<1> QED
  BY <1>1, <1>2, <1>3 DEF Router!Next

\* Sessions are isolated as long as no session id begins with another, as for
\* ids of one length: the comparison in Disconnect (client.go:59) is all
\* that separates the code from "Per-session tool router with isolation"
\* (CHANGELOG.md:23).
THEOREM PrefixFreeSessionsIsolated ==
    ASSUME None \notin Sessions,
           \A s, t : <<t, s>> \in StartsWith => t = s
    PROVE  Router!Spec => []Router!SessionsIsolated
<1>1. Router!Init => RouterInv
  BY DEF Router!Init, Router!Keys, RouterInv, EntriesOwned, ClosedByPrefix
<1>2. RouterInv => Router!SessionsIsolated
  BY DEF RouterInv, ClosedByPrefix, Router!SessionsIsolated
<1> QED
  BY <1>1, <1>2, RouterStep, PTL DEF Router!Spec

=============================================================================
