SPECIFICATION Spec
CONSTANTS
  Data = {x, y}
  NULL = NULL
  NodeAddrs = {a1, a2, a3, a4}
  WIDTH = 5
  Bytes = {0, 1, 2, 3, 4, 5, 6, 7}
  START_BYTE = 5
  MAX_PAYLOAD = 2
  ByteXor <- MCXor
  BUFFER_SIZE = 3
  MAX_BLOCKS = 8
  INTERRUPTS = 1
  UINT32_VALUES = 4
  PRESS_DELAY_MS = 2
  CLOCK = 8
  DEBOUNCE_DELAY_MS = 2
  MS_VALUES = 4
  MAX_ENTRIES = 2
  MAX_KEY_LEN = 3
  MAX_VAL_LEN = 3
  JUNK <- MCJunk
  Lines <- MCLines
  NO_VALUE = NO_VALUE
  MAX_ARGS = 3
  CommandLines <- MCCommandLines
  Pids = {1, 2}
  NO_WORD = NO_WORD
  STALE = STALE
  RLE_BYTES = 8
  Symbols = {0, 1}
  MAX_INPUT = 9
  MAX_ROOM = 8
  Messages <- MCMessages
  POLYNOMIAL <- MCPolynomial
INVARIANTS
  WalkInList Untorn VerdictIsTrue FirstDefinitionWins ArgsAreTheLine Reaped
  RleRoundTrip CrcDetectsBursts
PROPERTIES
  ListSpec FrameSpec NeverWedged NewerEachTime ConfirmedOnlyWhenInterrupted
  DebouncedIsSteady Settles
CHECK_DEADLOCK FALSE
