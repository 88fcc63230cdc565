SPECIFICATION Spec
CONSTANTS
  acme = acme  public = public
  dean = dean
  Schemas = {acme, public}
  Public = public
  Home <- MCHome
  NoSession = NoSession
  Sessions = {s1, s2}
  Workers = {w1}
  Roles = {dean}
  RoleScopes <- MCRoleScopes
  BaseScopes <- MCBaseScopes
  Views <- MCViews
  AccessLifetime = 1
  RefreshLifetime = 2
  AbsoluteLifetime = 2
  Leeway = 1
  Skew = 1
  RequestTime = 1
  MaxTime = 6
  MaxEdits = 1
  MaxPairs = 2
SYMMETRY Symmetry
INVARIANTS CInv  AuthorityFades SessionsStop   MisuseIsNamed
CHECK_DEADLOCK FALSE
