CONSTANTS
    s1 = s1
    s10 = s10
    c1 = c1
    c2 = c2
    c3 = c3
    None = None
    Sessions = {s1, s10}
    Servers = {"a", "b"}
    Clients = {c1, c2, c3}
    StartsWith <- TenStartsWithOne
SYMMETRY ClientSymmetry
SPECIFICATION Spec
INVARIANT SessionsIsolated
