SPECIFICATION Spec
CONSTANT Inputs <- CompleteFiles
INVARIANTS PointsToNext ListsComplete DeclaredIsDefined
