\* One run or a comparison of any two presets, two questions, three chunks.
SPECIFICATION Spec
CONSTANTS
    Chunks = {c1, c2, c3}
    RetrieveTopN = 2
    PrefetchLimit = 3
    K = 1
    RrfK = 60
    DenseWeight = 2
    SparseWeight = 1
    Questions = 2
    Configured <- StartSettings
    Scale = 1
    None = None
SYMMETRY Symmetry
INVARIANT ScoredUnderItsPreset
INVARIANT PresetsLeaveNoTrace
INVARIANT ExitTellsWhatIsPersisted
INVARIANT FusionRespectsDominance
\* The process exits.
CHECK_DEADLOCK FALSE
