CONSTANTS
  Program <- LongerProgram
  MaxErrorSize = 4
  FrameFaults = 5
  ByteFaults = 0
  FrameBytes = 3
  SimDeaths = 1
SPECIFICATION Spec
INVARIANTS
  ExecutedOnceInOrder
  AnswersMatch
  RetransmitsWhatWasLost
PROPERTIES
  RefinesRemoteRun
  ClientTerminates
\* The program ends.
CHECK_DEADLOCK FALSE
