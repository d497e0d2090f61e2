CONSTANTS
    j1 = j1
    j2 = j2
    Users = {"u1"}
    Orders = {"o1"}
    Jobs = {j1, j2}
    Releases = {2, 4, 6}
    MaxStarts = 5
    MaxFaults = 1
SPECIFICATION FairSpec
INVARIANTS TypeOK SchemaFitsHistory RowsFitSchema
PROPERTIES RowsSurvive RefusedForRowsOnly JobsEnd
