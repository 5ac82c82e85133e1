\* Up to two values files and two layers of variables with objects that overlap and
\* keys that differ in case; packages of up to three files from every kind of source,
\* replaced up to twice, of which the first and the third version are signed.
SPECIFICATION Spec
CONSTANTS
  Upper <- MC_Upper
  Maps <- MC_Maps
  Depth <- MC_Depth
  Layers <- MC_Layers
  MaxFiles = 2
  Title <- MC_Titles
  Mutable = "images/index.json"
  Signed = {1, 3}
  Inputs <- MC_Inputs
INVARIANTS
  StagedWhileUsed
  IngestedAsVerified
  LayersResolved
  SetVariablesFaithful
