\* Three requests at a time on one bucket, which begins with or without rules.
\* The system stops when each has been made.
CONSTANTS
    Star = Star
    None = None
    Buckets = {"b"}
    Requests = {r1, r2, r3}
    Inputs <- MCInputs
    Configs <- MCConfigs
SPECIFICATION Spec
SYMMETRY Symmetry
INVARIANTS
    TypeOK
    RulesNeedBucket
    PreflightHonoured
    HandledAndLogged
CHECK_DEADLOCK FALSE
