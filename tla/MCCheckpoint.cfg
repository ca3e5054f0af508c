CONSTANTS
    Files <- Paths
    Versions <- Present
    Absent = "none"
    None = None
    Threshold = 1
    MaxForeign = 3
    NoPrefixConfigs <- BothConfigs
SPECIFICATION Spec
INVARIANTS
    CheckpointIsReviewed
    StampCertifiesReview
    NoDriftAccumulates
PROPERTIES
    ForeignCommitsSurvive
