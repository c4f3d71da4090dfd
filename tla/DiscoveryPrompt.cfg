SPECIFICATION Spec
CONSTANTS
    s1 = s1
    s2 = s2
    s3 = s3
    here = here
    there = there
    Servers = {s1, s2, s3}
    Agents = {a1}
    Pids = {p1, p2, p3}
    Urls = {u1, u2, u3}
    Roots = {here, there}
    RootOf <- TwoRoots
    Around = {here}
    AnyRoot = AnyRoot
    PidsRecur = FALSE
    UrlsRecur = FALSE
    ProbesTimeOut = FALSE
INVARIANTS
    AnswerIsNoGuess
PROPERTIES
    ServingStaysListed
SYMMETRY Symmetry
