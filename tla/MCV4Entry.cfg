SPECIFICATION Spec
CONSTANTS
    Keys = {k1, k2, k3, k4}
    Posts = {p1, p2}
    Submits = {s1, s2}
    None = None
SYMMETRY Symmetry
INVARIANTS
    OneRequest
    GraceHonest
    ReauthAsked
