SPECIFICATION MCSpec
CONSTANTS
  NoAnswer = NoAnswer
  MaxQuestions = 2
  PlainQuestions = 3
  Asks = {"trust", "withdrawable"}
  PlainAsks = {"trust", "credentials"}
  Clients = {p1, p2}
  MaxChanges = 2
  NoPin = NoPin
  ChecksFlag = TRUE
INVARIANTS
  IInv
  DisconnectIsSilent
  AnswerIsFresh
  WithdrawalIsNotMissed
  PlainIsInStep
  PinsStand
PROPERTIES
  EndsWhenTold
