CONSTANTS
    Cases <- GenCases
    Interpret <- GenInterpret
SPECIFICATION Spec
INVARIANT HarnessSound
INVARIANT ArgsCarryInputs
CHECK_DEADLOCK FALSE
