SPECIFICATION Spec
CONSTANTS
  HashKeys = {"blob"}
  NamedKeys = {"name"}
  Size <- MCSize
  MaxSeq = 2
  NumShards = 2
  Owner <- MCOwner
  Clients = {"c"}
  Asked <- MCAsked
  Replicas <- MCReplicas
  LateAnswers <- MCLateAnswers
  DrainBatch = 1
  MayFail = {1}
  MaxCalls = 2
INVARIANTS TypeOK 
PROPERTIES Implements  ShutdownReturns InjectionArrives
CHECK_DEADLOCK FALSE
