CONSTANTS
  MAXJOBS = 2
  Pids = {p1, p2}
  NoPid = NoPid
  MaxLines = 2
  ShellSignals = {"INT"}
  OutsideCont = FALSE
  ChildrenReadStdin = FALSE
SPECIFICATION FairSpec
PROPERTIES
  
  ZombiesAreReaped
  ForegroundGivesWay
  InputIsConsumed
CHECK_DEADLOCK FALSE
