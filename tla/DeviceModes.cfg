SPECIFICATION Spec
CONSTANTS
  Resources = {graph}
  MaxLinks = 2
  Scenes <- MCScenes
INVARIANTS
  UnlinkForgets
  StatesHonest
  SetupConfined
  StopUnderWay
  ModesExclusive
  CardExclusive
PROPERTIES
  BackHeard
