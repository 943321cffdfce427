SPECIFICATION FairSpec
CONSTANTS
  InventoryEvery = 3
  MaxChanges = 2
  MaxPending = 2
  Nothing = Nothing
INVARIANTS TypeOK AtLeastEvery
PROPERTIES FreshAfterTask RowCatchesUp
