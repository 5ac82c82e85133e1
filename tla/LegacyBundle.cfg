\* Three commands, each of which may fail or be killed, and one change by others.
SPECIFICATION Spec
CONSTANTS
  Name <- Names
  Namespace <- Namespaces
  Var <- Vars
  Bundles <- EveryBundle
  Commands <- EveryCommand
  MaxCommands = 3
  Shared = TRUE
INVARIANTS
  WholeCommandsKeepPrefix
  SuccessIsSeen
  ImportsFollowExports
\* The last command ends.
CHECK_DEADLOCK FALSE
