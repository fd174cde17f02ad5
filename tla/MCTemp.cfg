SPECIFICATION FairSpec
CONSTANTS
  HALF = 8
  LIMIT = 1
  Words = {3, 7, 15, 4}
  IdWords = {11, 4}
INVARIANT RoutedById
INVARIANT SilenceIsReported
INVARIANT IdBeforeReadings
INVARIANT ReadingMatchesWord
PROPERTY RxErrorSettles
