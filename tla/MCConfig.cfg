SPECIFICATION ConfigSpec
CONSTANTS
  MAX_ENTRIES = 2
  MAX_KEY_LEN = 3
  MAX_VAL_LEN = 3
  JUNK <- MCJunk
  Lines <- MCLines
  NO_VALUE = NO_VALUE
PROPERTY IgnoredLinesAreIgnored
