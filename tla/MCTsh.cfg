CONSTANTS
  MAXJOBS = 2
  Pids = {p1, p2}
  NoPid = NoPid
  MaxLines = 3
  ShellSignals = {"INT", "TSTP", "QUIT"}
  OutsideCont = TRUE
  ChildrenReadStdin = TRUE
SPECIFICATION Spec
SYMMETRY PidSymmetry
INVARIANTS
  InputFollowsForeground
  OnePrompt
  JobsAreChildren
  NoLostChild
  StopsAreSeen
  EveryChildHasJob
PROPERTIES
  ImplementsJobControl
  FreshJid
  KeyboardSignalsForeground
  QuitTellsEveryChild
CHECK_DEADLOCK FALSE
