\* Every plan of three packages (25 acyclic bundles, every selection), the diamond
\* and four independent packages, two deploys at a time: the scheduler blocks in
\* g.Go while siblings fail.
CONSTANTS
  Package <- Packages
  Concurrency = 2
  Plans <- AllPlans
SPECIFICATION Spec
INVARIANTS
  LevelBarrier
  NoStragglers
  AllFailuresReported
PROPERTIES
  NoLateDeploy
  RefinesContract
  Terminates
