SPECIFICATION FairSpec
CONSTANTS
  Nodes = {1, 2, 3}
  Faults = {"bind", "accept", "die", "early"}
INVARIANTS TypeOK PairedQPs AnsweredMeansMet
PROPERTIES ReadFailsOnlyEarly AllServed
CHECK_DEADLOCK FALSE
