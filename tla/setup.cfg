SPECIFICATION FairSpec
CONSTANTS
    b1 = b1
    b2 = b2
    t1 = t1
    None = None
    Books = {b1, b2}
    Kinds = {"mapping", "rules", "filters", "options", "automation", "profile", "preferences", "security"}
    Tabs = {t1}
    EditTabs = {t1}
    PickTabs = {t1}
    PanelTabs = {t1}
    PopupTabs = {t1}
    MaxRuns = 2
    MaxAsks = 2
    MaxPending = 1
INVARIANTS OnlyWrittenIsConfirmed ShownIsPreviewed CleanMeansTold PickedTabExists ListIsLatest
PROPERTIES PanelRecovers ButtonComesBack
