SPECIFICATION LayerSpec
CONSTANTS
  Trees <- AllTrees
  MaxKills = 1
INVARIANTS Landed Resumable CheckAgrees
