CONSTANTS
  Table <- AllCalls
  Mortal <- Perishable
SPECIFICATION Spec
INVARIANTS TypeOK AliveAtUse CleanThrow  StopsAfterThrow FailureReported 
