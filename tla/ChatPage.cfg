SPECIFICATION Spec
CONSTANTS
  Worker = {w1, w2}
  me = me
  c1 = c1
  c2 = c2
  mine = mine
  theirs = theirs
  Contact = {me, c1}
  Key = {mine, theirs}
  KeyOf <- MCKeyOf
  Me = me
  Text = {t1, t2}
  None = None
  MaxLogouts = 1
INVARIANTS
  TypeOK
  NothingOverlooked
  ShownChatComplete
  NoForeignMessage
  SignalledInOrder
  NeverWithoutMessenger
SYMMETRY Symmetry
CHECK_DEADLOCK FALSE
