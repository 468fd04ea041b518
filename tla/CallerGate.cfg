SPECIFICATION Spec
CONSTANTS
  broker = broker
  other = other
  a = a
  Domain = {broker, other}
  Stranger = {skill}
  Sub = {a}
  None = None
  Rejected = Rejected
  Proc = {p1}
  File <- MCFile
  Scope <- MCScope
INVARIANTS OnOwnGrant ChangesOwned SurfacesServed ConfinedToCli
