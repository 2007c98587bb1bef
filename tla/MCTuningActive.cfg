SPECIFICATION TunerSpec
CONSTANTS
    Tools = {t1}
    Radios = {r1, r2}
    NoRadio = NoRadio
    NoTool = NoTool
    TunerBudgets <- MCTunerBudgets
    GainAttempts = 2
    GainSettle = 1
    NoiseAttempts = 2
    NoiseSettle = 1
    Bursts = 2
CHECK_DEADLOCK FALSE
INVARIANT TransmitterReleased
