SPECIFICATION Spec
CONSTANTS
    Null = Null
    Parts = {"lists", "types", "queue", "streams", "handshake", "watching", "refusals", "psync", "restarts", "file", "full sync", "proxy",
             "failover", "one failover", "resync", "resharding", "lossy", "election", "crash"}
CHECK_DEADLOCK FALSE
INVARIANTS ClientsAreServed    
PROPERTIES  NobodyWaitsForever
