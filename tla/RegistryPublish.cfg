\* Commands that overlap, and commands that run one after the other and again.
SPECIFICATION Spec
CONSTANTS
  Job <- Jobs
  Arch <- Archs
  Child <- Children
  Request <- Commands
  InitialRoots <- Roots
  Setting <- Settings
INVARIANTS
  RootComplete
  SignedWhenVisible
  VerifiedArchive
  RetryNotRefused
PROPERTIES
  SingletonWhenSerial
\* Every command ends.
CHECK_DEADLOCK FALSE
