SPECIFICATION FairSpec
CONSTANTS
    Agents = {a1, a2}
    Halters = {api}
    MaxAgentCrashes = 2
    Deployments = {"docker", "single"}
    Faults = {"latch_read", "listener"}
    a1 = a1
    a2 = a2
    api = api
INVARIANTS TypeOK HeardStaysHalted LatchInv
PROPERTIES HaltTakesHold
