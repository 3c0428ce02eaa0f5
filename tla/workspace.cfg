CONSTANTS
  MaxPanes = 3
  Widths = {23}
  Heights = {10}
  Account <- MCAccount
  NoAccount = NoAccount
SPECIFICATION Spec
INVARIANTS WorkspaceTypeOK Tiled DirectionsReachAll
PROPERTIES LoadRestores
