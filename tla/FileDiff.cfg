SPECIFICATION Spec
CONSTANTS
    Lines <- MCLines
    Texts <- MCTexts
    NoText = ""
    RawOf <- MCRawOf
    Strip <- MCStrip
    Foreign <- MCForeign
    Marked <- MCMarked
    OversizedSources <- MCOversizedSources
    OversizedPatches <- MCOversizedPatches
    Contents <- MCContents
    GitDiff <- MCGitDiff
INVARIANTS
    TypeOK
    RowsAreTheDiff
    RightPatchAccepted
    RendererAgrees
    OverviewNavigates
CHECK_DEADLOCK FALSE
