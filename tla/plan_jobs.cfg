SPECIFICATION Spec
CONSTANTS
    Characters = {c1, c2}
    PlanIds = {p1, p2}
    MaxJobs = 2
    Slots = {s1, s2}
    Quantities = {q1, q2}
    Materials = {m1}
    Sites = {st1}
    Rigs = {r1}
    Names = {n1}
    Ops = {"create", "import", "add", "quantity", "structure", "rename", "delete", "flag", "structure_all", "flag_all", "remove", "detect", "blueprints"}
SYMMETRY Symmetry
CHECK_DEADLOCK FALSE
INVARIANTS
    TypeOK
    JobIsInOnePlan
    OnlyOwnJobs
PROPERTIES
    JobsLeaveByRemoval
    RemovedStaysRemoved
    QuantitySurvives
    DeletedStaysDeleted
