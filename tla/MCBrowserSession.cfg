SPECIFICATION Spec
CONSTANTS
  Tabs = {t1, t2}
  NoTab = NoTab
  MaxTokens = 4
  MaxLost = 1
INVARIANTS BInv AlarmsHaveCause LiveSessionsAreHeld
PROPERTIES TabsSettle 
CHECK_DEADLOCK FALSE
