CONSTANTS
    Videos = {v1}
    Callers = {c1, c2}
    ExtraChoices <- MCExtraChoices
SPECIFICATION Spec
INVARIANT ReassertionSucceeds
SYMMETRY CallerSymmetry
