CONSTANT Locations = {1, 2, 3, 4}
CONSTANT Blank = {3}
CONSTANT LockPasses = {lock}
CONSTANT MemPasses = {mem}
CONSTANT lock = lock
CONSTANT mem = mem
CONSTANT Word <- FirstWord
SPECIFICATION Spec
CONSTRAINT Bounded
INVARIANT TypeOK
INVARIANT FileDense
INVARIANT IndicesUnique
INVARIANT NamesRight
