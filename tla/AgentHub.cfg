SPECIFICATION FairSpec
CONSTANTS
    Agents = {a1, a2}
    Cards = {a1}
    Texts = {t1, t2}
    LongTexts = {t2}
    NoAgent = NoAgent
    NoText = NoText
    MaxSaves = 2
INVARIANTS
    EditsKeepTheirAgent
    SparklinesPending
PROPERTIES
    NicknamesHeal
CHECK_DEADLOCK FALSE
