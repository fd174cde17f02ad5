SPECIFICATION ShellSpec
CONSTANTS
  MAX_ARGS = 3
  CommandLines <- MCCommandLines
  Pids = {1, 2}
  NO_WORD = NO_WORD
  STALE = STALE
PROPERTY BlocksUntilFinished
CHECK_DEADLOCK FALSE
