\* Three requests on a template of two versions, one of them there already.
CONSTANTS
  r1 = r1  r2 = r2  r3 = r3  m1 = m1
  Calls = {r1, r2, r3}
  Versions = {1, 2}
  Lessons = {1, 2, 3, 4}
  Materials = {m1}
  Outline <- OneLesson
  HandWritten <- OwnLesson
SPECIFICATION Spec
INVARIANT LinkedIsLive
INVARIANT AppliedTemplateLives
PROPERTY ReleasedIsFrozen
PROPERTY ScoresSurvive
PROPERTY OverwritesOnlyConfirmed
SYMMETRY SymCalls
CHECK_DEADLOCK FALSE
