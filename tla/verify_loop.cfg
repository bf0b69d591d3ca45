CONSTANTS
    Numbers = {1, 2, 3}
    Hashes = {2, 3, 4, 5}
    MaxLen = 3
SPECIFICATION MCSpec
CHECK_DEADLOCK FALSE
INVARIANTS
    VerdictIsSound FirstFailure ReportCovers ResumeAgrees
