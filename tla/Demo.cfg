CONSTANTS
    Program <- GetAndPost
SPECIFICATION Spec
CHECK_DEADLOCK FALSE
INVARIANTS
    ExitStatusIsHonest
PROPERTY ProgramEnds
