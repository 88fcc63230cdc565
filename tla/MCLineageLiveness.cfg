SPECIFICATION FairQuietSpec
CONSTANTS
  w1 = w1  w2 = w2  w3 = w3
  u1 = u1  u2 = u2
  t1 = t1  t2 = t2  t3 = t3
  Workers = {w1, w2}
  Users = {u1, u2}
  Tokens = {t1, t2}
  NumLineages = 2
  Owner <- TwoUsers
  NoWorker = NoWorker
  NoUser = NoUser
  NoToken = NoToken
  Cap = 1
PROPERTIES OnlyOwnersEnd EveryRequestEnds
