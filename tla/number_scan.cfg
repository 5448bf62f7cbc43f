SPECIFICATION Spec
CONSTANT Numbers <- MCNumbers
CHECK_DEADLOCK FALSE
INVARIANTS PairsInOrder OddNumbersRight AbortsOnLength ParseAgrees
