SPECIFICATION LiveSpec
CONSTANTS
  win = win
  odd = odd
  ISOs <- MCISOs
  NoISO = NoISO
  Nothing = Nothing
  Kind <- MCKind
  Count <- MCCount
  Corrections = {0, 1}
  MaxChoices = 3
INVARIANTS
  TypeOK
  JobsCounted
  EditionsOwn
  GuessAwaited
  SummaryIsWritten
  CheckedIsWritten
PROPERTIES
  NextComes
