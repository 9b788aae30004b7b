\* Scripts, servers and the state CLI; deaths, recycled pids, both ways to run.
CONSTANTS
  p1 = p1
  p2 = p2
  Proc = {p1, p2}
  Cli = Cli
  Nobody = Nobody
  Schema <- MCSchema
  Txn = {1}
  Keep = 1
  MaxEvents = 3
SPECIFICATION Spec
CHECK_DEADLOCK FALSE
INVARIANTS
    
    AckedSurvive
    ServesItsSchema
