------------------------------ MODULE McpRouter ------------------------------
(***************************************************************************)
(* The tool router of internal/mcp/client.go: the clients of every session *)
(* in one map, keyed by the session id and the server name.                *)
(*                                                                         *)
(* A session id is a model value; StartsWith says which ids are prefixes   *)
(* of which, the one thing Disconnect looks at.  Ids contain no colon, so  *)
(* clientKey maps different pairs to different keys.  The router has no    *)
(* lock; its callers are taken to call it one at a time.                   *)
(***************************************************************************)
CONSTANTS
    Sessions,    \* session ids
    Servers,     \* MCP server names
    Clients,     \* clients, each registered once
    None,        \* no client
    StartsWith   \* <<t, s>>: the id t begins with the id s; reflexive

VARIABLES
    clients,   \* key -> its client, or None
    owner,     \* client -> the session it was registered for (history)
    closed,    \* the clients Close was called on
    ended      \* the sessions Disconnect was called for (history)

vars == <<clients, owner, closed, ended>>

\* clientKey
Keys == Sessions \X Servers

Init ==
    /\ clients = [k \in Keys |-> None]
    /\ owner = [c \in Clients |-> None]
    /\ closed = {}
    /\ ended = {}

\* An entry that exists is overwritten; its client is not closed.
Register(s, v, c) ==
    /\ owner[c] = None
    /\ clients' = [clients EXCEPT ![<<s, v>>] = c]
    /\ owner' = [owner EXCEPT ![c] = s]
    /\ UNCHANGED <<closed, ended>>

\* The keys that begin with the id s.
Matching(s) == {k \in Keys : clients[k] # None /\ <<k[1], s>> \in StartsWith}

\* Every key that begins with s is closed and deleted.
Disconnect(s) ==
    /\ closed' = closed \cup {clients[k] : k \in Matching(s)}
    /\ clients' = [k \in Keys |-> IF k \in Matching(s) THEN None ELSE clients[k]]
    /\ ended' = ended \cup {s}
    /\ UNCHANGED owner

Next ==
    \E s \in Sessions :
        \/ \E v \in Servers, c \in Clients : Register(s, v, c)
        \/ Disconnect(s)

Spec == Init /\ [][Next]_vars

-----------------------------------------------------------------------------
(* Properties *)

\* The end of one session does not touch another: a client is closed only after
\* Disconnect for the session it was registered for ("Per-session tool router
\* with isolation", CHANGELOG.md:23).
SessionsIsolated == \A c \in closed : owner[c] \in ended

=============================================================================
