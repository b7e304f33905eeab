SPECIFICATION KeySpec
CONSTANTS
  BlockLength = 64
  Inputs <- KeyInputs
  MaxInt = 32767
  PadsBefore = {0, 1, 2}
  Messages <- KeyMessages
  ClientKeys <- AllLengths
INVARIANTS RoundTrip EncodesAsRfc4648 LengthsForetold BlocksHoldMessage PaddedAsFips180
INVARIANTS RoundsAsFips180 AnswersAsRfc6455
CHECK_DEADLOCK FALSE
