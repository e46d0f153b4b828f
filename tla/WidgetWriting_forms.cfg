\* The review form in the page and in its modal, and the question form.
SPECIFICATION Spec
CONSTANTS
    Texts = {t1, t2}
    Empty = Empty
    Nothing = Nothing
    Configs <- MCConfigs
    MaxFiles = 2
    MaxChanges = 2
INVARIANTS
    WritingInv
    DraftKept
CHECK_DEADLOCK FALSE
