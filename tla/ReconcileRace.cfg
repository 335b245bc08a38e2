SPECIFICATION Spec
CONSTANTS
    n1 = n1
    n2 = n2
    Names <- MCNames
    Obj <- MCObj
    FamilyOf <- MCFamilyOf
    RootAcl = {"a"}
    Sid <- MCSid
    Worlds <- RaceWorlds
    Documents <- RaceDocuments
    Edits <- RaceEdits
    Configs <- RaceConfigs
    Options <- RaceOptions
    Bulk = 50
    MaxEvents = 2
INVARIANTS UnmannedStaysInside RunsAreAccounted
CHECK_DEADLOCK FALSE
