SPECIFICATION Spec
CONSTANT Inputs <- MissingFiles
INVARIANTS ListsComplete
