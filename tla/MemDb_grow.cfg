\* Three keys, two of which collide, and a table that grows to a second unit.
CONSTANTS
    k1 = k1
    k2 = k2
    k3 = k3
    p1 = p1
    p2 = p2
    Key = {k1, k2, k3}
    Pail = {p1, p2}
    PailOf <- Colliding
    MaxDataNum = 3
    MaxUnits = 2
    NoRow = NoRow
    Fault = Fault
    Stray = Stray
    Abort = Abort
SPECIFICATION Spec
INVARIANTS TypeOK BusyIsList IdsEnumerate
PROPERTY IsKeyTable
CHECK_DEADLOCK FALSE
