SPECIFICATION Spec
CONSTANTS
  STACK_SIZE = 2
  OUTPUT_SIZE = 2
  HALF = 128
  Programs <- MCPrograms
PROPERTIES MachineSpec FatalIsFinal Terminates
