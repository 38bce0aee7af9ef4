\* Sequence numbers start so that both directions wrap; the
\* four frame ids, kept two half seconds, come round in the camera's scripts.
CONSTANTS
  Wrap = 16
  Seed = 13
  VideoSeed = 14
  MaxLag = 1
  MaxSilence = 6
  Challenges <- MCChallenges
  MaxSends = 5
  MaxVideo = 2
  KeyLimit = 1
  Scripts <- MCScripts
  IdMod = 4
  FullCount = 2
  Keep = 2
  MaxDelay = 1
  MaxTime = 5
  Bytes = {0, 1, 2, 4, 5}
  Lengths = {4, 5}
  MaxPiece = 2
  MaxStream = 7
SPECIFICATION LinkSpec
INVARIANTS
  TypeOK
  BooksKeepUp
  EnabledOnceWelcome
  AnswersAreCounted
  WholeUnits
  RefusesOnlyCopies
  StartsWithKey
  PiecesDoNotMatter
PROPERTIES
  CountsUp
  DeliversOnce
