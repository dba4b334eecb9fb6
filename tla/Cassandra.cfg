SPECIFICATION FairSpec
CONSTANTS
  walker = walker  farmer = farmer  soils = soils  terrain = terrain  NoFile = NoFile
  Types = {walker, farmer}
  Rasters = {soils, terrain}
  Simulations <- MCAll
  Files <- MCAllOrNone
  Projects <- MCProjects
  Resolutions = {1, 2, 3}
  MaxLoads = 2
  MaxClicks = 5
INVARIANTS
  ViewedStepExists
  OnlyProgressFails
PROPERTIES
  LoadingEnds
  PlayReachesEnd
  PlayStops
