\* Reads and their refills race patches, updates and deletion of one product.
SPECIFICATION Spec
CONSTRAINT OneScenario
CONSTANTS
  r1 = r1  r2 = r2
  put = put  hide = hide  rename = rename  reprice = reprice  remove = remove  addSKU = addSKU  saveSKU = saveSKU
  Readers = {r1, r2}
  Writers = {put, hide, rename, reprice, remove, addSKU, saveSKU}
  Operation <- OperationOf
  Supplied <- SuppliedBy
  NewStatus <- StatusFrom
  Columns = {"name", "price"}
  TTL = 1
  Jitter = 0
  RequestTimeout = 1
  First = First  Unchanged = Unchanged  NoEntry = NoEntry  NoOne = NoOne
SYMMETRY ReaderSymmetry
INVARIANTS StalenessIsBounded OutdatedHasReason HiddenIsNotShown PatchesMerge
\* Every request may be done.
CHECK_DEADLOCK FALSE
