SPECIFICATION FairSpec
CONSTANTS
  Reviews = {"r1"}
  Questions = {"q1"}
  Local = {}
  Texts = {"old", "new"}
  NoText = "none"
  Nothing = "nothing"
  AnswerStates = {"published", "moderation"}
  Admins = {"a1"}
  Sweeps = {"s1"}
  NoItem = "noitem"
  MaxEdits = 2
  MaxToggles = 1
  MaxFaults = 1
INVARIANTS TypeOK AnswerStateTruthful
PROPERTIES QueueDrains
