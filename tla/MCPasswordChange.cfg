SPECIFICATION ChangesSpec
CONSTANTS
  Workers = {w1, w2}
  NoWorker = NoWorker
  Tokens = {t1, t2}
  NoToken = NoToken
  MaxVersion = 1
  NoEntry = NoEntry
SYMMETRY Symmetry
PROPERTIES DeviceStaysSignedIn
CHECK_DEADLOCK FALSE
