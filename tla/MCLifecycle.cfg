SPECIFICATION LifeFairSpec
CONSTANTS
    Procs = {p1, p2}
    Slots = {h1, h2}
    Steps = 1
    MaxTrouble = 2
INVARIANTS
    CleanDrainCutsNone
PROPERTIES
    SignalEnds
    OneInstanceInTheEnd
