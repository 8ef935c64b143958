\* Seven items, every pattern of predicate verdicts.
SPECIFICATION Spec
CONSTANT N = 7
INVARIANTS
    SearchInv
    ResultOneMinimal
    OrderPreserved
    PartitionExact
    TestsBounded
PROPERTY ImplementsOneMinimalSearch
CHECK_DEADLOCK FALSE
