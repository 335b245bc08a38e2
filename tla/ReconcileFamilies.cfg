SPECIFICATION FairSpec
CONSTANTS
    n1 = n1
    n2 = n2
    Names <- MCNames
    Obj <- MCObj
    FamilyOf <- MCFamilyOf
    RootAcl = {}
    Sid <- MCSid
    Worlds <- FamilyWorlds
    Documents <- NoDocuments
    Edits <- FamilyEdits
    Configs <- FamilyConfigs
    Options <- FamilyOptions
    Bulk = 50
    MaxEvents = 1
INVARIANTS ApplyDelivers
PROPERTIES DriftIsRemoved
CHECK_DEADLOCK FALSE
