------------------------------ MODULE Algorithms ------------------------------
(***************************************************************************)
(* What the pure parts of the program compute, against what they should:   *)
(* a state is one input of one of them, and the properties compare.        *)
(***************************************************************************)
EXTENDS Submit, Hooks

CONSTANTS
    LayerLists,   \* the layers of one agent, number 1, for its tool policy
    Rosters,      \* a layer with the agents of a registry
    RouteInputs,  \* records of text, triggers and cautious
    SectionLists, \* the sections of a prompt
    Budgets,      \* token budgets
    SubmitInputs, \* records of site, payload, extras and budget
    HookLists,    \* the hooks of a chain
    ScopeLists    \* the scopes skills are looked for in

-----------------------------------------------------------------------------
(* The inputs the program can be given *)

IsSequence(s) == s \in Seq(ToSet(s))

AreTriggers(list) ==
    /\ IsSequence(list)
    /\ \A k \in DOMAIN list : IsSequence(list[k].terms) /\ list[k].priority \in Int

\* A value below an agent's key has the type UnmarshalYAML decodes it to.
IsMapping(mapping) ==
    LET Typed(field, type) == mapping[field].kind = "value" => mapping[field].value \in type
    IN  /\ \A field \in {"tools", "tools_append", "tools_except"} : Typed(field, Seq(STRING))
        /\ Typed("aliases", Seq(Nat))
        /\ Typed("disabled", BOOLEAN)
        /\ mapping["triggers"].kind = "value" => AreTriggers(mapping["triggers"].value)

IsLayer(layer) ==
    /\ DOMAIN layer \subseteq Nat /\ IsFiniteSet(DOMAIN layer)
    /\ \A name \in DOMAIN layer : IsMapping(layer[name])

AreLayers(layers) == IsSequence(layers) /\ \A k \in DOMAIN layers : IsLayer(layers[k])

\* A text that has "maybe t" or "t?" in it has t in it.
IsRouteInput(input) ==
    /\ input.text.doubts \subseteq input.text.terms
    /\ DOMAIN input.triggers \subseteq Nat /\ IsFiniteSet(DOMAIN input.triggers)
    /\ \A name \in DOMAIN input.triggers : AreTriggers(input.triggers[name])

AreSections(sections) ==
    /\ IsSequence(sections)
    /\ \A k \in DOMAIN sections : /\ sections[k].tokens \in Nat
                                  /\ sections[k].required \in BOOLEAN
                                  /\ sections[k].priority \in Int

AreHooks(hooks) ==
    /\ IsSequence(hooks)
    /\ \A k \in DOMAIN hooks : hooks[k].priority \in Int /\ hooks[k].result \in {"error", "deny", "allow"}

\* No two scopes have one rank.
AreScopes(scopes) ==
    /\ IsSequence(scopes)
    /\ \A k \in DOMAIN scopes : /\ scopes[k].rank \in Nat
                                /\ scopes[k].dir \in {"absent", "broken", "readable"}
                                /\ IsSequence(scopes[k].skills)
    /\ \A j, k \in DOMAIN scopes : scopes[j].rank = scopes[k].rank => j = k

ASSUME InputsAssumption ==
    /\ \A layers \in LayerLists : AreLayers(layers)
    /\ \A layer \in Rosters : IsLayer(layer)
    /\ \A input \in RouteInputs : IsRouteInput(input)
    /\ \A sections \in SectionLists : AreSections(sections)
    /\ Budgets \subseteq Int
    /\ \A input \in SubmitInputs : AreLayers(input.site.layers) /\ input.budget \in Int
    /\ \A hooks \in HookLists : AreHooks(hooks)
    /\ \A scopes \in ScopeLists : AreScopes(scopes)

-----------------------------------------------------------------------------

VARIABLE sample

NoSample == [kind |-> "none"]

Sampled ==
    \/ \E l \in LayerLists : sample = [kind |-> "policy", layers |-> l]
    \/ \E r \in Rosters, b \in BOOLEAN : sample = [kind |-> "registry", layer |-> r, strict |-> b]
    \/ \E r \in RouteInputs : sample = [kind |-> "route", of |-> r]
    \/ \E s \in SectionLists, b \in Budgets : sample = [kind |-> "prompt", sections |-> s, budget |-> b]
    \/ \E s \in SubmitInputs : sample = [kind |-> "submit", of |-> s]
    \/ \E h \in HookLists, s \in {"input", "flow"} : sample = [kind |-> "hooks", hooks |-> h, slot |-> s]
    \/ \E s \in ScopeLists : sample = [kind |-> "skills", scopes |-> s]

-----------------------------------------------------------------------------

\* However an agent's tools are spread over the three layers, the registry has the
\* policy they state: a layer that narrows the tools is not undone by an
\* earlier one, and exceptions without "all" are refused
\* (config.go:206-215, registry.go:159-170).
PolicyIsAsStated ==
    sample.kind = "policy" =>
        \/ 1 \notin DOMAIN Load(sample.layers)
        \/ normalizeTools(Load(sample.layers)[1]) = PolicyAsStated(sample.layers, 1)

\* A registry is built exactly when every active agent is acceptable and no alias
\* could mean two of them, in whatever order they come; and then every alias
\* leads to the agent that has it, and none hides an agent
\* (registry.go:75-121).
AliasesAreUnambiguous ==
    sample.kind = "registry" =>
        LET agents == Load(<<sample.layer>>)
            registry == Build(agents, sample.strict)
        IN  /\ registry.ok <=> /\ \A name \in Active(agents) : ~Rejected(name, agents[name], sample.strict)
                               /\ Unambiguous(agents)
            /\ registry.ok => \A name \in Active(agents) :
                  \A alias \in ToSet(Aliases(agents, name)) \ {0} :
                      /\ ResolveAlias(registry, alias) = name
                      /\ alias \in Active(agents) => alias = name

\* The input goes to an agent with a trigger no other trigger beats, the first by
\* name and then by position; it is a low-confidence choice, which a cautious
\* agent asks the user about, exactly when the one term that hit is a doubt
\* (route.go:50-124).
RouteIsTheBest ==
    sample.kind = "route" =>
        LET r == RouteOf(sample.of.text, sample.of.triggers, sample.of.cautious)
            best == BestTriggers(sample.of.text, sample.of.triggers)
        IN  IF best = {} THEN r.agent = 0 /\ ~r.requiresUser
            ELSE \E p \in best :
                LET trigger == sample.of.triggers[p[1]][p[2]]
                    doubted == /\ Hits(sample.of.text, trigger) = 1
                               /\ ToSet(trigger.terms) \cap sample.of.text.doubts # {}
                IN  /\ \A q \in best \ {p} : Lexicographic(p, q)
                    /\ r.agent = p[1] /\ r.domain = trigger.domain
                    /\ r.confidence = "low" <=> doubted
                    /\ r.requiresUser <=> doubted /\ p[1] \in sample.of.cautious

\* Within a budget the prompt keeps all required sections and the most important
\* of the others, as many as fit; it is refused only if the
\* required ones alone do not fit (prompt.go:93-144).
PromptKeepsTheMostImportant ==
    sample.kind = "prompt" /\ sample.budget > 0 =>
        LET s == sample.sections
            chosen == selectSections(s, sample.budget)
            kept == KeptWithin(s, sample.budget)
        IN  /\ chosen.ok <=> Weight(s, Required(s)) <= sample.budget
            /\ chosen.ok => chosen.selected = kept /\ Weight(s, kept) <= sample.budget

TellsPolicy(of, reply) ==
    reply.ok => /\ "tool-policy" \in ToSet(reply.prompt)
                /\ reply.policy = IF reply.route.agent = 0 THEN ToolPolicy("default", <<>>, <<>>)
                                  ELSE PolicyAsStated(of.site.layers, reply.route.agent)

\* Whatever the layers, the input, the other sections and the budget, an answer
\* to on-submit tells the model the tool policy its agent's layers state, or the
\* host's if no agent is chosen
\* (orchestrator.go:64-100, 254-287).
PolicyReachesPrompt ==
    sample.kind = "submit" =>
        TellsPolicy(sample.of, HandleSubmit(sample.of.site, sample.of.payload, sample.of.extras, sample.of.budget))

\* A chain for a hard slot lets the operation go on only if every hook of the slot
\* allowed it, a soft one always; hooks after the one that stopped it do not
\* run, all before it do, and the last flow decision counts (chain.go:12-52).
HardSlotIsSafe ==
    sample.kind = "hooks" =>
        LET hooks == sample.hooks
            slot == sample.slot
            outcome == Apply(hooks, slot)
            mine == {k \in DOMAIN hooks : hooks[k].slot = slot}
            Ahead(j, k) == \/ hooks[j].priority < hooks[k].priority
                           \/ hooks[j].priority = hooks[k].priority /\ j < k
            stoppers == {k \in mine : slot \in HardSlots /\ hooks[k].result # "allow"}
            ran == {k \in mine : ~\E j \in stoppers : Ahead(j, k)}
            deciding == {k \in ran \ stoppers : hooks[k].result # "error" /\ hooks[k].flow # 0}
        IN  /\ Proceeds(outcome) <=> stoppers = {}
            /\ ToSet(outcome.ran) = ran
            /\ IF deciding = {} THEN outcome.flow = 0
               ELSE \E k \in deciding : /\ outcome.flow = hooks[k].flow
                                        /\ \A j \in deciding \ {k} : Ahead(j, k)

\* A skill comes from the first scope, by rank, that has a valid one of its name,
\* in whatever order the scopes are given: an invalid skill hides none
\* (skills/registry.go:41-69).
FirstValidSkillWins ==
    sample.kind = "skills" =>
        LET scopes == sample.scopes
            Has(k, name) == /\ scopes[k].dir = "readable"
                            /\ \E s \in ToSet(scopes[k].skills) : s.valid /\ s.name = name
            names == UNION {{s.name : s \in ToSet(scopes[k].skills)} : k \in DOMAIN scopes}
            loaded == LoadAll(scopes)
        IN  /\ loaded.ok <=> \A k \in DOMAIN scopes : scopes[k].dir # "broken"
            /\ loaded.ok =>
                  /\ DOMAIN loaded.found = {name \in names : \E k \in DOMAIN scopes : Has(k, name)}
                  /\ \A name \in DOMAIN loaded.found : \E k \in DOMAIN scopes :
                        /\ Has(k, name) /\ loaded.found[name] = scopes[k].rank
                        /\ \A l \in DOMAIN scopes : Has(l, name) => scopes[k].rank <= scopes[l].rank

=============================================================================
