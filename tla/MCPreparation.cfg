\* The sequence numbers wrap in the third request; the camera and the owner may
\* misbehave twice in all, in one session or in two.
CONSTANTS
  MaxFaults = 2
  SeqWrap = 16
  SeqFirst = 14
  MaxBeats = 3
  MaxSecret = 2
SPECIFICATION PreparationSpec
INVARIANTS
  TypeOK
  LedgerTellsTheWire
  OkMeansDone
  PhaseIsBacked
  AnswersItsOwn
  MonitorTellsTheLink
PROPERTIES
  OneByOne
  SecretsStayTogether
