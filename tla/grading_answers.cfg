CONSTANT
    Works <- MCApart
SPECIFICATION Spec
INVARIANT NoFalseColumn
CHECK_DEADLOCK FALSE
