CONSTANTS
  Locks = {a, b}
  Entries = {1, 2}
  Flows = {1, 2}
  None = None
  MaxSubmits = 1

SPECIFICATION Spec
SYMMETRY LockSymmetry
INVARIANTS OneHolder  OneWritePerForm
PROPERTIES EntryKept
