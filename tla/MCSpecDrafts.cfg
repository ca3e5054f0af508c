CONSTANTS
    Tabs <- TwoTabs
    Texts <- TwoTexts
    Original = "orig"
    MaxActs = 5
    MaxLoss = 1
CHECK_DEADLOCK FALSE
SPECIFICATION Spec
INVARIANTS
    ClearedStaysCleared
    LatestTextIsSaved
