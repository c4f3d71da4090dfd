SPECIFICATION Spec
CONSTANTS
    Documents = {a, b}
    Paths = {a, b, image}
    Commits = {configured, listed}
    Listed = {listed}
    Configured = configured
    a = a
    b = b
    image = image
    configured = configured
    listed = listed
    Differs <- MCDiffers
    Watched = a
    PastScopes = {"none", "changed", "legacy"}
    MaxTurns = 1
    MaxTexts = 1
    MaxActs = 2
INVARIANTS
    TypeOK
    PageShowsOneBase
    SettledPanelMatches
    CountsCatchUp
PROPERTIES
    PanelSettles
CHECK_DEADLOCK FALSE
