SPECIFICATION Spec
CONSTANTS
    Tables = {"requests", "executions", "snapshots", "evidence", "events", "transitions"}
    Ids = {i1, i2}
    Writers = {q1, q2}
    Bodies = {Null, b1}
    Null = Null
    NoRow = NoRow
    MaxWrites = 3
INVARIANT SameInvariants
CHECK_DEADLOCK FALSE
