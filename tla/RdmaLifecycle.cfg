SPECIFICATION Spec
CONSTANTS
  Procs <- ThreeAndStale
  Ranks <- Three
  Nobody = Nobody
INVARIANTS OneGroup ReadyMeansConnected NothingLeaked
PROPERTIES AllReady
CHECK_DEADLOCK FALSE
