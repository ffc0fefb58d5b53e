SPECIFICATION Spec
CONSTANTS
    FieldLength = 4
    ImageLength = 4
    MaxBytes = {8, 9, 10}
    MaxIdentity = 2
    Instants <- MCInstants
    NamedInstants <- MCNamedInstants
    WrapDepth = 2
INVARIANTS
    CharsetDecidedByGrammar
    ImageDecidedByBeginning
    NameTellsItsParts
    ValueSurvivesTheLine
CHECK_DEADLOCK FALSE
