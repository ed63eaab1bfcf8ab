SPECIFICATION Spec
CONSTANTS
    LastTarget = 2
    LastSlot = 2
    PageSize = 1
    MaxPages = 3
    Values = {v1, v2}
    Found <- MCFound
    Errors <- MCErrors
    MaxRevisions = 1
INVARIANTS RouteTypeOK AnswersAreComplete OnlyGapsFallBack
PROPERTIES RequestEnds
CHECK_DEADLOCK FALSE
