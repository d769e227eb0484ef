SPECIFICATION Spec
CONSTANT MaxNodes = 5
INVARIANTS ZoneInRange ScansMatchCircuit
\* The scan ends at the end of the node list.
CHECK_DEADLOCK FALSE
