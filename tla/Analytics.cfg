SPECIFICATION Spec

CONSTANTS
    Null = Null

    Sources <- MCSources
    SampleSize = 3

    Warehouses <- MCWarehouses

    Workspaces <- MCWorkspaces
    ClickedValues = {"east", "west"}
    MaxClicks = 2

    TileQueries <- MCTileQueries

    Datasets <- MCDatasets

    Lineages <- MCLineages

    Layouts <- MCLayouts
    Cells <- MCCells
    Samples = {60}
    RowIds = {1, 2}

    Gap = 5
    Schedule <- MCSchedule
    Horizon = 26

    Policies <- MCPolicies
    User = "ann"
    RecoveryCodes <- MCRecoveryCodes
    PastFailures = {0, 2, 11}
    Waits = {0, 1, 2}
    Drifts <- MCDrifts
    MaxAttempts = 4

    Form <- MCForm
    Submissions <- MCSubmissions
    NewIds = {"c1", "c2"}
    Names = {"n1", "n2"}

    Limits <- MCLimits
    MaxWindows = 1
    Requests <- MCRequests
    Pauses = {0, 1, 3}
    MaxRequests = 4

INVARIANTS
    TotalsSurviveJoins
    PersonalStaysHidden
    TotalsSurviveInference
    NothingLostInSilver
    GoldFollowsColumns
    GeneratedTilesCompile
    PartsSumToWhole
    CurrentIsLatest
    FreshnessFollowsSchedule
    LineageAgrees
    CodesWorkOnce
    CredentialsAreWhole
    BudgetKept

CHECK_DEADLOCK FALSE
