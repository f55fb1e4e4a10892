\* One block of one launch ends when its threads have.
SPECIFICATION Spec
CONSTANTS
    Launch <- MCLaunch
    MinBlockX <- MCMinBlockX
    WordRange <- MCWordRange
INVARIANTS
    RegionsTypeOK
    ReadsAsTheDSL
    EveryPixelOnce
CHECK_DEADLOCK FALSE
