SPECIFICATION Spec
CONSTANTS
  w1 = w1  w2 = w2  w3 = w3
  u1 = u1  u2 = u2
  t1 = t1  t2 = t2  t3 = t3
  Workers = {w1, w2}
  Users = {u1}
  Tokens = {t1, t2, t3}
  NumLineages = 1
  Owner <- OneUser
  NoWorker = NoWorker
  NoUser = NoUser
  NoToken = NoToken
  Cap = 1
SYMMETRY Symmetry
INVARIANTS DecisionStillHolds IInv
PROPERTIES SpentStaysSpent AlarmSurvives
