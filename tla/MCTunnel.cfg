SPECIFICATION Spec
CONSTANTS
  Nodes = {"a", "b"}
  Seeds <- MCSeeds
  Requests = {"r1", "r2"}
  Asker <- MCAsker
  Answerer <- MCAnswerer
  WithKey = {"r2"}
INVARIANTS TypeOK NothingForgotten WaitingIsWatched
 
