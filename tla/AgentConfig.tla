----------------------------- MODULE AgentConfig -----------------------------
(***************************************************************************)
(* From configuration files to agents: Load of internal/config/config.go   *)
(* and Build of internal/registry/registry.go, as operators.               *)
(*                                                                         *)
(* An agent's name and an alias are natural numbers in the order           *)
(* sort.Strings gives them, 0 the empty string.  A layer is a function     *)
(* from agent names to the mappings in its file; a missing file is the     *)
(* empty function.  A slice or pointer of the code is a sequence of at     *)
(* most one element, so that nil (<<>>) and empty (<< <<>> >>) differ.     *)
(* Skills, workers and the database path are merged like the scalars here, *)
(* as are category, cost, mode, useWhen and avoidWhen.                     *)
(***************************************************************************)
EXTENDS Naturals, SequencesExt, Sorting

\* A YAML node below an agent: the key is absent, its value is null, it is the
\* word "all", or it is something of the right type.
Absent == [kind |-> "absent"]
Null == [kind |-> "null"]
All == [kind |-> "all"]
Value(v) == [kind |-> "value", value |-> v]

Scalars == {"description", "autonomy", "model", "disabled"}
Lists == {"aliases", "model_chain", "tools_append", "tools_except", "triggers", "unknown"}

Nil == <<>>
IsNil(option) == option = Nil
Get(option, default) == IF IsNil(option) THEN default ELSE option[1]

Zero(field) == IF field = "disabled" THEN FALSE ELSE ""

\* UnmarshalYAML.  A null scalar is decoded to the zero value and counts as set,
\* a null list stays nil; "tools" is noted as set whatever its value.
Unmarshal(mapping) ==
    [field \in Scalars \cup Lists \cup {"tools", "tools_set", "tools_all"} |->
        CASE field = "tools_set" -> mapping["tools"].kind # "absent"
          [] field = "tools_all" -> mapping["tools"].kind = "all"
          [] OTHER -> IF mapping[field].kind = "value" THEN <<mapping[field].value>>
                      ELSE IF mapping[field].kind = "null" /\ field \in Scalars THEN <<Zero(field)>>
                      ELSE Nil]

-----------------------------------------------------------------------------
(* Load *)

NoAgent ==
    [field \in Scalars \cup (Lists \ {"tools_append"}) \cup {"tools", "tools_all"} |->
        CASE field \in Scalars -> Zero(field)
          [] field = "tools_all" -> FALSE
          [] OTHER -> Nil]

\* append(agent.Tools, patch.ToolsAppend...); appending nothing to nil is nil.
Appended(tools, more) ==
    IF IsNil(more) \/ (IsNil(tools) /\ Get(more, <<>>) = <<>>) THEN tools
    ELSE << Get(tools, <<>>) \o Get(more, <<>>) >>

\* Mutant: a layer that sets the tools clears the exceptions too.
ToolsExceptCleared(agent, patch) ==
    IF patch["tools_set"] THEN patch["tools_except"]
    ELSE IF IsNil(patch["tools_except"]) THEN agent["tools_except"] ELSE patch["tools_except"]

\* The exceptions are kept until a layer names others.
ToolsExcept(agent, patch) ==
    IF IsNil(patch["tools_except"]) THEN agent["tools_except"] ELSE patch["tools_except"]

\* The tools are replaced, then appended to.
MergedTools(agent, patch) ==
    Appended(IF patch["tools_set"] THEN patch["tools"] ELSE agent["tools"], patch["tools_append"])

\* One agent of applyPatch.
ApplyAgent(agent, patch) ==
    [field \in DOMAIN agent |->
        CASE field \in Scalars -> Get(patch[field], agent[field])
          [] field = "tools" -> MergedTools(agent, patch)
          [] field = "tools_all" -> IF patch["tools_set"] THEN patch["tools_all"] ELSE agent["tools_all"]
          [] field = "tools_except" -> ToolsExcept(agent, patch)
          [] OTHER -> IF IsNil(patch[field]) THEN agent[field] ELSE patch[field]]

applyPatch(agents, layer) ==
    [name \in DOMAIN agents \cup DOMAIN layer |->
        IF name \notin DOMAIN layer THEN agents[name]
        ELSE ApplyAgent(IF name \in DOMAIN agents THEN agents[name] ELSE NoAgent,
                        Unmarshal(layer[name]))]

NoAgents == [name \in {} |-> NoAgent]

\* Built-in, user and project layer, in this order.  A file that cannot be read
\* or parsed ends Load with an error; that is left to the callers.
Load(layers) == FoldLeft(applyPatch, NoAgents, layers)

-----------------------------------------------------------------------------
(* Build *)

\* normalizeTools
ToolPolicy(mode, allow, except) == [mode |-> mode, allow |-> allow, except |-> except]
NoPolicy == ToolPolicy("", <<>>, <<>>)

normalizeTools(agent) ==
    CASE agent["tools_all"] -> ToolPolicy("all_except", <<>>, Get(agent["tools_except"], <<>>))
      [] ~agent["tools_all"] /\ Get(agent["tools_except"], <<>>) # <<>> -> NoPolicy
      [] OTHER -> IF IsNil(agent["tools"]) THEN ToolPolicy("default", <<>>, <<>>)
                  ELSE ToolPolicy("allowlist", Get(agent["tools"], <<>>), <<>>)

\* normalizeModels warns of a single model beside a chain; the chain wins.
Chain(agent) == Get(agent["model_chain"], <<>>)

Warns(agent) ==
    \/ Get(agent["unknown"], <<>>) # <<>>
    \/ Chain(agent) # <<>> /\ agent["model"] # ""

\* The loop over the definitions returns an error for this one.
Rejected(name, agent, strict) ==
    \/ name = 0
    \/ agent["description"] = ""
    \/ normalizeTools(agent) = NoPolicy
    \/ strict /\ Warns(agent)

Active(agents) == {name \in DOMAIN agents : ~agents[name]["disabled"]}

Aliases(agents, name) == Get(agents[name]["aliases"], <<>>)

\* The pairs of agent and alias in the order of the second loop.
AliasPlaces(agents) == UNION {{name} \X DOMAIN Aliases(agents, name) : name \in Active(agents)}

PairAt(agents, place) == <<place[1], Aliases(agents, place[1])[place[2]]>>

PairsInOrder(agents, order) == [k \in DOMAIN order |-> PairAt(agents, order[k])]

AliasPairs(agents) == PairsInOrder(agents, SortedBy(AliasPlaces(agents), Lexicographic))

\* Mutant: an alias that is an agent's name is accepted.
CollidesOnlyAlias(map, active, name, alias) == alias \in DOMAIN map /\ map[alias] # name

Collides(map, active, name, alias) ==
    \/ alias \in DOMAIN map /\ map[alias] # name
    \/ alias \in active /\ alias # name

\* The map of aliases; the first collision ends the loop.
AddAlias(agents, acc, pair) ==
    IF ~acc.ok \/ pair[2] = 0 THEN acc
    ELSE IF Collides(acc.map, Active(agents), pair[1], pair[2]) THEN [acc EXCEPT !.ok = FALSE]
    ELSE [acc EXCEPT !.map = [alias \in DOMAIN acc.map \cup {pair[2]} |->
                                IF alias = pair[2] THEN pair[1] ELSE acc.map[alias]]]

AliasMap(agents) ==
    LET Add(acc, pair) == AddAlias(agents, acc, pair)
    IN  FoldLeft(Add, [ok |-> TRUE, map |-> [alias \in {} |-> 0]], AliasPairs(agents))

\* The registry: whether Build succeeds, the agents and the aliases.
Build(agents, strict) ==
    [ok      |-> (\A name \in Active(agents) : ~Rejected(name, agents[name], strict)) /\ AliasMap(agents).ok,
     agents  |-> [name \in Active(agents) |-> agents[name]],
     aliases |-> AliasMap(agents).map]

ResolveAlias(registry, alias) == IF alias \in DOMAIN registry.aliases THEN registry.aliases[alias] ELSE 0

-----------------------------------------------------------------------------
(* What they should compute *)

\* The last layer that satisfies P for the agent, 0 if there is none.
LastLayer(layers, P(_)) ==
    Max({0} \cup {k \in DOMAIN layers : P(layers[k])})

\* The tool policy of an agent as its layers state it: the last layer that has a
\* "tools" key decides, later appends add to a list, and exceptions are those
\* of the last layer that lists any, and allowed only with "all".
PolicyAsStated(layers, name) ==
    LET Sets(layer) == name \in DOMAIN layer /\ layer[name]["tools"].kind # "absent"
        Excepts(layer) == name \in DOMAIN layer /\ layer[name]["tools_except"].kind = "value"
        from == LastLayer(layers, Sets)
        ex == LastLayer(layers, Excepts)
        except == IF ex = 0 THEN <<>> ELSE layers[ex][name]["tools_except"].value
        kind == IF from = 0 THEN "absent" ELSE layers[from][name]["tools"].kind
        base == IF kind = "value" THEN layers[from][name]["tools"].value ELSE <<>>
        Adds(k) == IF name \in DOMAIN layers[k] /\ layers[k][name]["tools_append"].kind = "value"
                   THEN layers[k][name]["tools_append"].value ELSE <<>>
        Join(list, more) == list \o more
        appended == FoldLeft(Join, <<>>, [k \in DOMAIN layers |-> IF k < from THEN <<>> ELSE Adds(k)])
    IN  CASE kind = "all" -> ToolPolicy("all_except", <<>>, except)
          [] kind # "all" /\ except # <<>> -> NoPolicy
          [] kind # "all" /\ except = <<>> /\ (kind = "value" \/ appended # <<>>) ->
                ToolPolicy("allowlist", base \o appended, <<>>)
          [] OTHER -> ToolPolicy("default", <<>>, <<>>)

\* No alias could mean two agents.
Unambiguous(agents) ==
    \A a, b \in Active(agents) :
        a # b => /\ b \notin ToSet(Aliases(agents, a))
                 /\ ToSet(Aliases(agents, a)) \cap ToSet(Aliases(agents, b)) \subseteq {0}

=============================================================================
