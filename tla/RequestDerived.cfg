SPECIFICATION Spec
CONSTANTS
  Queries <- SmallQueries
  MaxQueries = 2
INVARIANTS
  LayoutIndependent
  SelectColumnFromTable
CHECK_DEADLOCK FALSE
