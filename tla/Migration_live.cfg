\* Two runs, two tables, an application that goes on writing.
SPECIFICATION Spec
CONSTANTS
    Runs = {m1, m2}
    NumTables = 2
    Refs <- Chain
    Ids = {i1, i2}
    Root = i1
    Vals = {v1}
    Origins <- FullOrNew
    Leftovers <- EmptyOrFull
    MaxWrites = 2
INVARIANTS TypeOK
PROPERTIES Refines
SYMMETRY Symmetry
\* Every run has ended and the application has used up its writes.
CHECK_DEADLOCK FALSE
