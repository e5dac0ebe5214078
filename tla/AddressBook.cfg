SPECIFICATION FairSpec
CONSTANTS
  Worker = {w1, w2}
  l1 = l1
  l2 = l2
  k1 = k1
  Login = {l1, l2}
  Key = {k1}
  Contact <- OneContact
  Address = {a1}
  None = None
  MyLogin = l1
  MaxReady = 2
INVARIANTS
  TypeOK
  NoNullKey
  AlwaysResolved
  PrefersLearnedAddress
  AnnouncedIsHeld
  OneReceiveChain
PROPERTY
  ListensAgain
