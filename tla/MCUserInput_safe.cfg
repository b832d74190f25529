SPECIFICATION Spec
CONSTANTS
  r1 = r1
  r2 = r2
  q1 = q1
  q2 = q2
  q3 = q3
  Requests = {r1, r2}
  Questions <- QuestionsOf
  Secret = {q2}
  Turn = {t1, t2}
  None = None
  MaxInbox = 1
INVARIANTS AnsweredCompletely AwaitingIsAnswerable  ResolvedUnlisted EndedTurnUnmarked
SYMMETRY Symmetry
