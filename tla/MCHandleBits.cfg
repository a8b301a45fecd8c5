CONSTANTS
    Targets <- AllTargets
    Chars <- SomeChars
    Edited <- EditedChars
    Pointers <- SomePointers
    Lengths <- SomeLengths
SPECIFICATION Spec
ACTION_CONSTRAINT OneCut
INVARIANTS TypeOK Decodes NicheUnused
