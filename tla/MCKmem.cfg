SPECIFICATION Spec
CONSTANTS
  Tables <- MCTables
  KM_LOW_CUTOFF = 4
  KM_HIGH_CUTOFF = 32
  Counts = {1, 2, 3}
  MaxSlicePages = 1
INVARIANTS PagesAccounted SlicesAccounted
PROPERTY ImplementsPageSpec
