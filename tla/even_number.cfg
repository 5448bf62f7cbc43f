SPECIFICATION Spec
CONSTANT Numbers <- MCNumbers
CHECK_DEADLOCK FALSE
INVARIANTS EncodingEts300356
