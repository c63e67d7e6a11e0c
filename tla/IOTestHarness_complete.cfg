CONSTANTS
    Cases <- GenCases
    Interpret <- GenInterpret
SPECIFICATION Spec
PROPERTY WellFormedTestPasses
CHECK_DEADLOCK FALSE
