SPECIFICATION Spec
CONSTANTS
    Callers = {c1, c2, c3}
    None = None
    Dead = Dead
INVARIANTS TypeOK OkIsEvidence LeftoversHarmless
PROPERTIES ImplementsRegister WitnessReturns
CHECK_DEADLOCK FALSE
