SPECIFICATION Spec
CONSTANT MaxItems = 4
INVARIANT TotalIsConsumed
