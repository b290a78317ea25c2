SPECIFICATION Spec
INVARIANTS
  TypeOK
  OldOrNew
  AnswersAreTrue
PROPERTIES
  OldLostOnlyWhenReplaced
  ForeignSurvives
\* A transaction ends.
CHECK_DEADLOCK FALSE
