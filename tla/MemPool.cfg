\* The process ends at a failing ASSERT: those states have no successor.
CHECK_DEADLOCK FALSE
SPECIFICATION Spec
CONSTANT NumElems = 6
INVARIANTS TypeOK NextFreeIsFree
PROPERTY FreedBlockNotNext
