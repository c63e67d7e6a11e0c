CONSTANTS
    Cases <- GenCases
    Interpret <- GenInterpret
    InputValues <- StructInputs
SPECIFICATION Spec
INVARIANT ArgsCarryInputs
CHECK_DEADLOCK FALSE
