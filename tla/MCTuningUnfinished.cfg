SPECIFICATION Spec
CONSTANTS
    RadioChannels <- Nodes
    Documents <- UnfinishedDocuments
    Tools = {t1, t2}
    Radios = {r1}
    NoRadio = NoRadio
    NoTool = NoTool
    TunerBudgets <- MCTunerBudgets
    GainAttempts = 2
    GainSettle = 1
    NoiseAttempts = 2
    NoiseSettle = 1
    Bursts = 2
CHECK_DEADLOCK FALSE
INVARIANTS
    PreservesUnrelated
