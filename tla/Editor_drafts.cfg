SPECIFICATION Spec
CONSTANTS
  Junk = Junk
  TextSix = TextSix
  FlagOn = FlagOn
  Numeric <- MCNumeric
  None = None
  Stored <- MCStored
  Edits <- MCEdits
  Edited <- MCEdited
  HistoryLimit = 2
  MayFail = TRUE
  MaxChanges = 3
CHECK_DEADLOCK FALSE
INVARIANTS TypeOK NeverCrossed DraftIsKept PreviewIsSite NothingHangs
