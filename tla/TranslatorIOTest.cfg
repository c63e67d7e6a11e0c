CONSTANTS
    Cases <- SuiteCases
    Interpret <- SuiteInterpret
SPECIFICATION Spec
PROPERTY SuitePasses
CHECK_DEADLOCK FALSE
