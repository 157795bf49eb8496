\* Every combination of nine answers of three rules, and all inputs of the pure
\* parts up to three layers, rules, sections, hooks and scopes.
CONSTANTS
    NumRules = 3
    Answers <- SomeAnswers
    Err = Err
    Tools = {"bash", "read"}
    Destructive = {"bash"}
    Files = {"a", "b"}
    NoPath = NoPath
    SuppressionSets <- SomeSuppressionSets
    LayerLists <- SomeLayerLists
    Rosters <- SomeRosters
    RouteInputs <- SomeRouteInputs
    SectionLists <- SomeSectionLists
    Budgets = {0, 1, 2, 3, 4, 5}
    SubmitInputs <- SomeSubmitInputs
    HookLists <- SomeHookLists
    ScopeLists <- SomeScopeLists
SPECIFICATION MCSpec
INVARIANTS DecisionIsStrictest FailsClosed
    PolicyIsAsStated AliasesAreUnambiguous RouteIsTheBest PromptKeepsTheMostImportant
    PolicyReachesPrompt HardSlotIsSafe FirstValidSkillWins
