CONSTANT Programs <- NestedProgram
SPECIFICATION Spec
INVARIANT SolvedAlways
