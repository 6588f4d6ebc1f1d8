SPECIFICATION Spec
CONSTANTS
    NumThreads = 3
    Rounds = 2
    LoopForms = {TRUE, FALSE}
INVARIANTS JoinWaitsForThread NoStartWhileRunning ResultOfOwnThread LaterForksNeedOwnCalls
PROPERTY JoinsOfInstancesReturn
