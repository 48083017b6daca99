SPECIFICATION Spec
CONSTANTS
    Asset = {a1}
    Request = {r1, r2, r3}
    Name = {"old", "new"}
    Faults = {"disk", "database", "crash"}
    MaxFaults = 2
INVARIANTS RowsHaveTheirFile OrphansOnlyByFault
PROPERTIES EditsAreKept StoreSpec
