SPECIFICATION Spec
CONSTANT
    Parts = {"keys", "databases", "strings", "lists", "sets", "hashes", "zsets", "entries", "streams", "groups"}
CHECK_DEADLOCK FALSE
INVARIANTS    PendingAgrees RangesAreRight OperationsAreExact
PROPERTY ChangesAreSignalled
