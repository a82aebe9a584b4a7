SPECIFICATION FairSpec
CONSTANTS
  RequestParts = 4
  ReplyPieces = 3
  MaxSteps = 2
  MaxQuestions = 2
  MaxRefused = 1
  Replies <- MCReplies
INVARIANTS WellFormed RecordedWasGiven RunOnce
PROPERTIES TurnEnds
