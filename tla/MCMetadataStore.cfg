CONSTANTS
    Videos = {v1}
    Callers = {c1, c2}
    ExtraChoices <- MCExtraChoices
SPECIFICATION Spec
INVARIANTS TypeOK AnswersJustified
PROPERTIES OnlyLegalChanges RegisterSpec
SYMMETRY CallerSymmetry
