SPECIFICATION Spec
CONSTANTS
    Characters = {c1}
    PlanIds = {p1}
    MaxJobs = 3
    Slots = {s1, s2}
    Quantities = {q1}
    Materials = {}
    Sites = {st1}
    Rigs = {r1}
    Names = {}
    Ops = {"create", "add", "remove"}
SYMMETRY Symmetry
CHECK_DEADLOCK FALSE
PROPERTIES
    LastJobStays
