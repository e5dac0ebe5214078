SPECIFICATION FairSpec
CONSTANTS
  Worker = {w1, w2}
  me = me
  c1 = c1
  c2 = c2
  mine = mine
  theirs = theirs
  Contact = {me, c1, c2}
  Key = {mine, theirs}
  KeyOf <- MCKeyOf
  Me = me
  Text = {t1}
  None = None
  MaxLogouts = 1
INVARIANTS
  ShownChatComplete
  
PROPERTIES
  ReceivedIsNoticed
  LogoutEnds
CHECK_DEADLOCK FALSE
