SPECIFICATION Spec
CONSTANTS
  Peer = {p1, p2}
  Text = {t1, t2}
  MaxDuplicates = 1
INVARIANTS
  TypeOK
  Authentic
  OncePerCopy
