SPECIFICATION Spec
CONSTANTS
    s1 = s1
    s2 = s2
    s3 = s3
    here = here
    there = there
    Servers = {s1, s2}
    Agents = {a1}
    Pids = {p1, p2}
    Urls = {u1, u2}
    Roots = {here, there}
    RootOf <- OneEach
    Around = {here}
    AnyRoot = AnyRoot
    PidsRecur = TRUE
    UrlsRecur = TRUE
    ProbesTimeOut = TRUE
INVARIANTS
    TypeOK
    WithdrawnOnExit
    DiscoverHeals
PROPERTIES
    ShutdownEnds
