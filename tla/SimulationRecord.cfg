SPECIFICATION Spec
CONSTANTS
  walker = walker  farmer = farmer  a = a  b = b  c = c  grass = grass
  NumTasks = 2
  NumSteps = 3
  Types = {walker, farmer}
  Ids = {a, b, c}
  Attributes = {"x", "y", "wealth"}
  Rasters = {grass}
  Simulations <- MCSimulations
  Resolutions = {1, 2, 3}
  MaxLoads = 2
INVARIANTS
  RecordIsHistory
  RastersAreHistory
  PercentageIsProgress
  AgentAtPosition
