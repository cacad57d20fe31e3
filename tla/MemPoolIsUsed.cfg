\* The flag against what its comment says; two blocks are enough.
CONSTANT BlockNum = 4
SPECIFICATION Spec
INVARIANT IsUsedTellsUse
