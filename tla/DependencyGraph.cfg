\* Every graph over four packages (the diamond of the code's comment is the
\* smallest with a wave of two between two others) with every selection, lists
\* that repeat a name, and a name that is no package.
CONSTANTS
  Packages = {a, b, c, d}
  Ghost = ghost
  Name <- Names
  MaxRepeat = 2
  Input <- Bundles
SPECIFICATION GraphSpec
SYMMETRY Symmetry
INVARIANTS
  CycleVerdict
  LevelsAreWaves
  DirectChecksSuffice
  LocalsResolve
