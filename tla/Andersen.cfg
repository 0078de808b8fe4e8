CONSTANT Programs <- AllPrograms
SPECIFICATION Spec
INVARIANT TypeOK
INVARIANT Sound
INVARIANT Precise
INVARIANT WorkIsQueued
INVARIANT NeverAborts
INVARIANT VisitsBounded
