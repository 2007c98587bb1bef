SPECIFICATION Spec
CONSTANTS
    Channels = {c1}
    NoIntent = NoIntent
    MaxRequests = 1
    MaxIndications = 2
    MaxReloads = 1
    MaxCli = 0
INVARIANT UnkeySurvivesReload
