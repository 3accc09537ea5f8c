SPECIFICATION Spec
CONSTANT
    Plans <- PartitionedPlans
INVARIANT
    PartitionedDisksCanBeReady
