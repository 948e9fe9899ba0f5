SPECIFICATION MCSpec
CONSTANTS
  Programs <- Samples
  CfDup = {TRUE, FALSE}
  Graphs <- MCGraphs
  Data = 2
  Kinds <- MCKinds
INVARIANTS TypeOK PartitionsAreAcyclic BlocksConnect FollowsTrace EndsMatch TagsAgree ProgramOrder
CHECK_DEADLOCK FALSE
