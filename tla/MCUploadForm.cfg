CONSTANT Forms <- MCForms
SPECIFICATION Spec
INVARIANTS TypeOK AcceptsWellFormed KeyIsOneSegment NameSurvives
CHECK_DEADLOCK FALSE
