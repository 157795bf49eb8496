----------------------------- MODULE MCDecisions -----------------------------
(* The guard with three rules, a destructive and a harmless tool and one     *)
(* suppression, and small inputs for the pure parts of the program.  A       *)
(* behaviour is either an evaluation by the guard or a single input.         *)
EXTENDS Guard, Algorithms

Answer(a, s) == [action |-> a, severity |-> s]

SomeAnswers ==
    {Err, Answer("", ""), Answer("other", "danger"),
     Answer("allow", "info"), Answer("allow", "danger"),
     Answer("warn", "info"), Answer("warn", "danger"),
     Answer("block", "warning"), Answer("block", "danger")}

OneSuppression ==
    [rule : {1, 3}, reason : BOOLEAN, scope : {"project", "global"},
     tools : {{}, {"bash"}}, paths : {{}, {{"a"}}}]

SomeSuppressionSets == {{}} \cup {{s} : s \in OneSuppression}

-----------------------------------------------------------------------------
(* Configuration *)

\* A mapping with some keys.
Mapping(keys) ==
    keys @@ [field \in Scalars \cup Lists \cup {"tools"} |-> Absent]

ToolMappings ==
    {Mapping(("tools" :> t) @@ ("tools_append" :> a) @@ ("tools_except" :> e)) :
        t \in {Absent, Null, All, Value(<<>>), Value(<<"r">>)},
        a \in {Absent, Value(<<"w">>)},
        e \in {Absent, Value(<<>>), Value(<<"x">>)}}

NoAgentsFile == [name \in {} |-> {}]

SomeLayerLists == [1 .. 3 -> {NoAgentsFile} \cup {1 :> m : m \in ToolMappings}]

AliasLists == UNION {[1 .. n -> 0 .. 3] : n \in 0 .. 2}

RosterMapping(aliases, description, disabled, unknown) ==
    Mapping(("aliases" :> Value(aliases)) @@ ("description" :> Value(description))
            @@ ("disabled" :> disabled) @@ ("unknown" :> unknown))

SomeRosters ==
    {(1 :> RosterMapping(a, "d", d, u)) @@ (2 :> RosterMapping(b, t, Absent, Absent)) :
        a, b \in AliasLists, d \in {Absent, Null, Value(TRUE)}, t \in {"", "d"},
        u \in {Absent, Value(<<"key">>)}}
    \cup
    {(1 :> RosterMapping(a, "d", Absent, Absent)) @@ (2 :> RosterMapping(b, "d", Absent, Absent))
        @@ (3 :> RosterMapping(c, "d", d, Absent)) :
        a, b, c \in {<<>>, <<1>>, <<2>>, <<3>>, <<4>>, <<4, 3>>}, d \in {Absent, Value(TRUE)}}
    \cup
    {(0 :> RosterMapping(<<>>, "d", d, Absent)) @@ (1 :> RosterMapping(<<2>>, "d", Absent, Absent)) :
        d \in {Absent, Value(TRUE)}}

-----------------------------------------------------------------------------
(* Routing, prompts and on-submit *)

Text(terms, doubts, words) == [terms |-> terms, doubts |-> doubts, words |-> words, empty |-> FALSE]

Trigger(terms, priority, domain) == [terms |-> terms, priority |-> priority, domain |-> domain]

TriggersOf(domains) ==
    {Trigger(t, p, d) : t \in {<<"a">>, <<"b">>, <<"a", "b">>, <<"b", "b">>}, p \in 0 .. 1, d \in domains}

SomeRouteInputs ==
    [text : UNION {{Text(t, d, {"plan", "review"}) : d \in SUBSET t} : t \in SUBSET {"a", "b"}},
     triggers : [{1, 2} -> {<<>>} \cup {<<t>> : t \in TriggersOf({"x"})}]
        \cup {(1 :> <<s, t>>) @@ (2 :> <<u>>) :
                s \in TriggersOf({"x"}), t \in TriggersOf({"y"}), u \in TriggersOf({"z"})},
     cautious : {{}, {1}}]

SomeSectionLists ==
    LET some(n) == [1 .. n -> [tokens : 0 .. 2, required : BOOLEAN, priority : 0 .. 1]]
    IN  {[k \in DOMAIN s |-> s[k] @@ ("name" :> k)] : s \in some(0) \cup some(1) \cup some(2) \cup some(3)}

AgentMapping(term, tools, append, except) ==
    Mapping(("description" :> Value("d")) @@ ("triggers" :> Value(<<Trigger(<<term>>, 0, term)>>))
            @@ ("tools" :> tools) @@ ("tools_append" :> append) @@ ("tools_except" :> except))

SomeSites ==
    {[readable |-> TRUE,
      layers |-> <<(1 :> AgentMapping("a", t, Absent, e)) @@ (2 :> AgentMapping("b", All, Absent, Absent)),
                   1 :> Mapping(("tools" :> u) @@ ("tools_append" :> w))>>] :
        t, u \in {Absent, All, Value(<<"r">>)}, e \in {Absent, Value(<<"x">>)},
        w \in {Absent, Value(<<"w">>)}}
    \cup {[readable |-> FALSE, layers |-> <<>>]}

Texts == {EmptyText} \cup {Text({t}, {}, {}) : t \in {"a", "b"}}

SomeSubmitInputs ==
    [site : SomeSites, payload : UNION {[keys -> Texts] : keys \in SUBSET {"input", "prompt"}},
     extras : SUBSET {"role-fit", "project-rules"}, budget : {0, 6, 7, 9, 11}]

-----------------------------------------------------------------------------
(* Hooks and skills *)

HookResults ==
    {[result |-> "error", flow |-> 0], [result |-> "deny", flow |-> 0], [result |-> "deny", flow |-> 1],
     [result |-> "allow", flow |-> 0], [result |-> "allow", flow |-> 1], [result |-> "allow", flow |-> 2]}

SomeHookLists ==
    LET hooks == {h @@ r : h \in [slot : {"input", "flow"}, priority : 0 .. 1], r \in HookResults}
    IN  UNION {[1 .. n -> hooks] : n \in 0 .. 3}

SkillOf(name, valid) == [name |-> name, valid |-> valid]

SkillLists ==
    {<<>>, <<SkillOf(1, TRUE)>>, <<SkillOf(1, FALSE)>>, <<SkillOf(2, TRUE)>>,
     <<SkillOf(1, TRUE), SkillOf(2, TRUE)>>, <<SkillOf(1, FALSE), SkillOf(1, TRUE)>>}

SomeScopeLists ==
    LET dirs == {[dir |-> "readable", skills |-> s] : s \in SkillLists}
                \cup [dir : {"absent", "broken"}, skills : {<<>>}]
        orders == {o \in [1 .. 3 -> 0 .. 2] : \A j, k \in 1 .. 3 : j # k => o[j] # o[k]}
    IN  {[k \in 1 .. 3 |-> ("rank" :> o[k]) @@ d[k]] : o \in orders, d \in [1 .. 3 -> dirs]}

-----------------------------------------------------------------------------

MCInit ==
    \/ sample = NoSample /\ Init
    \/ /\ tool = "read" /\ path = NoPath /\ suppressions = {}
       /\ answers = [r \in Rules |-> Answer("allow", "info")]
       /\ Init
       /\ Sampled

Sit == sample # NoSample /\ UNCHANGED <<vars, sample>>

MCNext == Sit \/ (sample = NoSample /\ Next /\ UNCHANGED sample)

MCSpec == MCInit /\ [][MCNext]_<<vars, sample>>
=============================================================================
