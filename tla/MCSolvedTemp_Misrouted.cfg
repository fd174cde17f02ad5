SPECIFICATION Spec
CONSTANTS
  HALF = 8
  LIMIT = 1
  Words = {3, 7, 15, 4}
  IdWords = {11, 4}
PROPERTY OnlyTheIdReplyIsTakenForTheId
