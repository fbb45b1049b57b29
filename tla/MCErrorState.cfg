SPECIFICATION Spec
INVARIANTS
  PrintedAsChosen
  RefusedForAFile
  OpenFailureThrown
