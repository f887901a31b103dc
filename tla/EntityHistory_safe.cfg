SPECIFICATION Spec
CONSTANTS
    e1 = e1
    e2 = e2
    f1 = f1
    f2 = f2
    v1 = v1
    v2 = v2
    Nothing = Nothing
    Editors = {e1, e2}
    Fields = {f1, f2}
    Values = {v1, v2}
    MaxHistory = 2
    MaxChanges = 3
SYMMETRY Interchangeable
INVARIANTS
    TypeOK
    VersionNamesContent
PROPERTIES
    OverwritesSeen
    ReplacedIsRecorded
CHECK_DEADLOCK FALSE
