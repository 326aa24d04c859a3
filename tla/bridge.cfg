\* A memory of two words and a log of two entries.
SPECIFICATION SniffedSpec
CONSTANTS
  Words <- MCWords
  NextWord <- MCNextWord
  Word0 = 0
  Value = {0, 1}
  Zero = 0
  Requests <- MCRequests
  Depth = 2
INVARIANTS BridgeInv SniffsAll
PROPERTIES ImplementsPort AnswerNears Answered
