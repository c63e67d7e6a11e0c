CONSTANTS
    Cases <- GenCases
    Interpret <- GenInterpret
SPECIFICATION Spec
INVARIANT NoUndefinedBehaviour
CHECK_DEADLOCK FALSE
