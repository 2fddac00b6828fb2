SPECIFICATION MCSpec
CONSTANTS
  Claude = claude
  Codex = codex
  NoHost = none
  Edits = {e1}
  MaxFaults = 1
  MaxKills = 1
  Machines <- MCMachines
  MaxLogLines = 7
CHECK_DEADLOCK FALSE
INVARIANTS
  TypeOK
  FailedInstallIsUndone
  RegistrationIsRecoverable
  FinishedIsWhole
  DoctorIsRight
  
PROPERTIES
  EditsSurvive
  EventuallyDone
