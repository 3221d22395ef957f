SPECIFICATION ResolveSpec
CONSTANTS
    Types <- FourTypes
    Tables <- DagsAndCycles
    Targets = {1}
    TargetQuantities = {5}
    BuildSets <- ComponentsOf1
    Efficiencies = {0, 10}
    Structures <- Places
    MaxDepth = 4
CHECK_DEADLOCK FALSE
INVARIANTS
    TypeOK
    NothingIsLost
    EnoughWithoutWaste
    BoughtOrBuilt
    ComponentsFirst
