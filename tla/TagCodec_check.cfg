SPECIFICATION CodecSpec
CONSTANTS
  Commands <- MCCommands
  Messages <- MCMessages
  Sizes <- MCSizes
INVARIANTS
  SurvivesIffPlain
  AcksComeHome
CHECK_DEADLOCK FALSE
