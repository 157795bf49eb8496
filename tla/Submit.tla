-------------------------------- MODULE Submit --------------------------------
(***************************************************************************)
(* on-submit from the files to the answer: handleSubmit of                 *)
(* internal/orchestrator/orchestrator.go.  It loads the configuration of   *)
(* the directory its process was started in.                               *)
(*                                                                         *)
(* site is what this process finds: whether the files can be read, and     *)
(* the layers.  payload maps the keys of the request's payload to their    *)
(* texts; a text is that of Route and may be empty.                        *)
(***************************************************************************)
EXTENDS AgentConfig, Route, Prompt

Keys == <<"input", "prompt", "text">>
EmptyText == [terms |-> {}, doubts |-> {}, words |-> {}, empty |-> TRUE]

\* The texts of the payload that are not empty; the first of them is the input.
FilledPlacesOf(payload) ==
    {k \in DOMAIN Keys : Keys[k] \in DOMAIN payload /\ ~payload[Keys[k]].empty}

payloadText(payload) ==
    LET places == FilledPlacesOf(payload)
    IN  IF places = {} THEN EmptyText ELSE payload[Keys[Min(places)]]

Registry(site) == Build(Load(site.layers), FALSE)

Routed(text, registry) ==
    RouteOf(text, [name \in DOMAIN registry.agents |-> Get(registry.agents[name]["triggers"], <<>>)],
            {name \in DOMAIN registry.agents : registry.agents[name]["autonomy"] = "cautious"})

NoRoute == RouteOf(EmptyText, [name \in {} |-> <<>>], {})

\* Mutant: the tool policy may be omitted.
ToolPolicyOptional == [name |-> "tool-policy", tokens |-> 2, required |-> FALSE, priority |-> 90]

ToolPolicySection == [name |-> "tool-policy", tokens |-> 2, required |-> TRUE, priority |-> 90]

\* defaultPromptSections.  Tokens are relative sizes; extras are the other sections
\* that have a text.  An input that is routed nowhere has no agent's sections.
When(condition, section) == IF condition THEN <<section>> ELSE <<>>

defaultPromptSections(name, extras) ==
    <<[name |-> "route/identity", tokens |-> 2, required |-> TRUE, priority |-> 100],
      [name |-> "guardrails", tokens |-> 2, required |-> TRUE, priority |-> 95],
      ToolPolicySection,
      [name |-> "autonomy", tokens |-> 1, required |-> TRUE, priority |-> 85]>>
    \o When(name # 0, [name |-> "agent-description", tokens |-> 2, required |-> FALSE, priority |-> 80])
    \o When(name # 0 /\ "role-fit" \in extras,
            [name |-> "role-fit", tokens |-> 1, required |-> FALSE, priority |-> 70])
    \o When("project-rules" \in extras,
            [name |-> "project-rules", tokens |-> 3, required |-> FALSE, priority |-> 60])

Failure == [ok |-> FALSE, route |-> NoRoute, policy |-> NoPolicy, prompt |-> <<>>]

\* The policy the section "tool-policy" states (toolPolicyText).
StatedPolicy(registry, name) ==
    IF name = 0 THEN ToolPolicy("default", <<>>, <<>>) ELSE normalizeTools(registry.agents[name])

\* handleSubmit, up to the storage event: the prompt for a route, ...
Submitted(registry, route, built) ==
    IF ~registry.ok \/ ~built.ok THEN Failure
    ELSE [ok |-> TRUE, route |-> route, prompt |-> built.prompt,
          policy |-> StatedPolicy(registry, route.agent)]

SubmitRouted(registry, route, extras, budget) ==
    Submitted(registry, route, BuildPrompt(defaultPromptSections(route.agent, extras), budget))

\* ... and before that the route.
SubmitIn(registry, payload, extras, budget) ==
    SubmitRouted(registry, Routed(payloadText(payload), registry), extras, budget)

HandleSubmit(site, payload, extras, budget) ==
    IF ~site.readable THEN Failure ELSE SubmitIn(Registry(site), payload, extras, budget)

=============================================================================
