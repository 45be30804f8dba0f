CHECK_DEADLOCK FALSE
SPECIFICATION Spec
CONSTANTS
    Messages <- MCMessages
    Errors <- MCErrors
INVARIANTS TypeOK AgreesWithShiftRegister DamageDetected KnownAnswer
