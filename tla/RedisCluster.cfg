SPECIFICATION Spec
CONSTANTS
    Null = Null
    Parts = {"epochs", "votes", "crashes", "return", "manual", "forced", "meet", "rename", "forget", "dead", "alarm", "migration", "admin"}
CHECK_DEADLOCK FALSE
INVARIANTS OneMasterPerEpoch FailHasMajority EntriesAreRight RestartKeeps RolesAgree
PROPERTIES  ClusterSettles
