SPECIFICATION Spec
CONSTANTS
  c1 = c1
  c2 = c2
  run1 = run1
  run2 = run2
  pip = pip
  lb = lb
  nic = nic
  storage = storage
  ai = ai
  None = None
  Commits <- MCCommits
  Resources <- MCResources
  Accounts = {ai}
  Pip = pip
  Holders = {lb, nic}
  Tags <- MCTags
  InitialEstates <- MCInitialEstates
  MaxChanges = 2
  Environments <- MCEnvironments
  Collections = {run1, run2}
  Candidates = {pip, lb, storage}
  Historical = {lb}
  Reviewed = {c1}
  RowLimit = 4
  Nothing = None
INVARIANTS
  PartsWereTrueInOrder
  PackageWhole
  ClearedWasFree
SYMMETRY MCSymmetry
CHECK_DEADLOCK FALSE
