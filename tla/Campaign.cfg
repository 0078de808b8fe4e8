CONSTANT Locks = {1, 2}
CONSTANT MaxWeight = 1
CONSTANT MaxEdges = 2
CONSTANT RUNS = 3
SPECIFICATION FairSpec
INVARIANT TypeOK
INVARIANT SavedExactly
INVARIANT NothingForgotten
INVARIANT CrashVerdictTrue
PROPERTY IsStore
PROPERTY TroubleReported
