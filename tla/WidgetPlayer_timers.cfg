\* The feed's timer and the viewer's, under everything that comes over them.
SPECIFICATION Spec
CONSTANTS
    Media <- MCMedia
    Configs <- MCConfigs
    NoTile = NoTile
    MaxChanges = 4
    MaxShown = 4
INVARIANTS
    TimersArmed
    NoVideoSkipped
PROPERTIES
    RemovedStops
CHECK_DEADLOCK FALSE
