SPECIFICATION Spec
CONSTANTS
    MaxLeaves = 9
    HashLists <- Batches
    Hash <- Pair
CHECK_DEADLOCK FALSE
INVARIANTS PathLeadsToRoot
