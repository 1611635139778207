SPECIFICATION FairSpec
CONSTANTS
    c1 = c1
    c2 = c2
    Caller = {c1, c2}
    LocalPort = {81, 82}
    Plan <- PlanMixed
    MaxCalls = 3
    MaxReqs = 1
    NoCaller = NoCaller

INVARIANTS TypeOK InTimeMappingsRight QuietListsAgree RemovedIsGone
PROPERTIES CallsAnswered
CHECK_DEADLOCK FALSE
