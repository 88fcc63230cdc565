SPECIFICATION Spec
CONSTANTS
  Schemas = {s1}
  Hosts = {h1, h2}
  Pks = {p1, p2}
  Operators = {o1, o2}
  Requests = {r1}
  NoTenant = NoTenant
  NoDomain = NoDomain
  NoPk = NoPk
  NoHost = NoHost
  NoSchema = NoSchema
  NoToken = NoToken
SYMMETRY Symmetry
INVARIANTS CInv SchemasMatchRows TokensDieWithTenant 
PROPERTIES DropsItsOwnSchema
