\* Every driver, redraws, pushes and readings, with waits that give up anywhere.
SPECIFICATION FairSpec
INVARIANTS
  TypeOK
  PromiseKept
  DetectsFamily
  RefreshPrepared
PROPERTY
  UpdateEnds
