CONSTANTS
    EXTRA_LEN = 2
    MaxShard = 4
    MaxLen = 7
    Texts <- AllTexts
SPECIFICATION Spec
INVARIANTS
    EveryByteOnce
    WordsOnce
