---------------------------- MODULE DeliveryProofs ----------------------------
(***************************************************************************)
(* For any number of peers and texts: histories hold only letters written  *)
(* between the two, and each at most once per copy that was under way.     *)
(***************************************************************************)
EXTENDS Delivery, TLAPS

(* A text names its letter, only posted letters travel, and a copy still   *)
(* under way has not been recorded yet.                                    *)
TextNamesLetter == \A l, m \in posted : l.text = m.text => l = m

PendingIsPosted ==
  \A c \in pending : [from |-> c.from, to |-> c.to, text |-> c.text] \in posted

NotYetRecorded ==
  \A c \in pending : \A i \in DOMAIN log[c.to][c.from] :
    ~(/\ log[c.to][c.from][i].text = c.text /\ log[c.to][c.from][i].via = c.way
      /\ log[c.to][c.from][i].nth = c.nth)

(* The next duplicate gets a number that nothing has.                      *)
NumbersAreUsed ==
  /\ \A c \in pending : c.nth <= duplicates
  /\ \A p, q \in Peer : \A i \in DOMAIN log[p][q] : log[p][q][i].nth <= duplicates

Inv ==
  /\ TypeOK /\ TextNamesLetter /\ PendingIsPosted /\ NotYetRecorded /\ NumbersAreUsed
  /\ Authentic /\ OncePerCopy

(* Recording adds one entry at the end of one chat and touches no other.   *)
LEMMA RecordAppends ==
  ASSUME TypeOK, NEW p \in Peer, NEW q \in Peer, NEW author \in Peer, NEW text \in Text,
         NEW via \in Way \cup {"own"}, NEW nth \in 0..MaxDuplicates,
         Record(p, q, author, text, via, nth)
  PROVE  /\ log' \in [Peer -> [Peer -> Seq(Entry)]]
         /\ \A x, y \in Peer : \A i \in DOMAIN log'[x][y] :
              \/ i \in DOMAIN log[x][y] /\ log'[x][y][i] = log[x][y][i]
              \/ /\ x = p /\ y = q /\ i = Len(log[p][q]) + 1
                 /\ log'[x][y][i] = [author |-> author, text |-> text, via |-> via, nth |-> nth]
<1> DEFINE e == [author |-> author, text |-> text, via |-> via, nth |-> nth]
<1>1. e \in Entry
  BY DEF Entry
<1>2. log[p][q] \in Seq(Entry)
  BY DEF TypeOK
<1>3. Append(log[p][q], e) \in Seq(Entry)
  BY <1>1, <1>2
<1>4. log' = [log EXCEPT ![p][q] = Append(log[p][q], e)]
  BY DEF Record
<1>5. log' \in [Peer -> [Peer -> Seq(Entry)]]
  BY <1>3, <1>4 DEF TypeOK
<1>6. ASSUME NEW x \in Peer, NEW y \in Peer
      PROVE  log'[x][y] = IF x = p /\ y = q THEN Append(log[p][q], e) ELSE log[x][y]
  BY <1>4 DEF TypeOK
<1>7. ASSUME NEW i \in DOMAIN Append(log[p][q], e)
      PROVE  \/ i \in DOMAIN log[p][q] /\ Append(log[p][q], e)[i] = log[p][q][i]
             \/ i = Len(log[p][q]) + 1 /\ Append(log[p][q], e)[i] = e
  BY <1>1, <1>2
<1> QED BY <1>5, <1>6, <1>7, ZenonT(30)

LEMMA InitInv == Init => Inv
<1> SUFFICES ASSUME Init PROVE Inv
    OBVIOUS
<1>1. pending = {} /\ posted = {} /\ duplicates = 0
  BY DEF Init
<1>2. \A x, y \in Peer : log[x][y] = <<>>
  BY DEF Init, EmptyLog
<1>3. TypeOK
  BY <1>1, MaxDuplicatesAssumption DEF Init, TypeOK, EmptyLog
<1>4. TextNamesLetter /\ PendingIsPosted /\ NotYetRecorded
  BY <1>1 DEF TextNamesLetter, PendingIsPosted, NotYetRecorded
<1>5. NumbersAreUsed
  BY <1>1, <1>2 DEF NumbersAreUsed
<1>6. Authentic /\ OncePerCopy
  BY <1>2 DEF Authentic, OncePerCopy
<1> QED BY <1>3, <1>4, <1>5, <1>6 DEF Inv

LEMMA PostInv ==
  ASSUME Inv, NEW p \in Peer, NEW q \in Peer, NEW t \in Text, NEW ways \in SUBSET Way,
         Post(p, q, t, ways)
  PROVE  Inv'
<1> DEFINE letter == [from |-> p, to |-> q, text |-> t]
<1>1. /\ letter \in Letter /\ letter \notin posted
      /\ posted' = posted \cup {letter}
      /\ \A l \in posted : l.text # t
  BY DEF Post, Letter
<1>2. /\ TextNamesLetter'
      /\ posted' \subseteq Letter
  BY <1>1 DEF Inv, TextNamesLetter, TypeOK
<1>3. /\ pending' \subseteq Copy
      /\ \A c \in pending' :
           c \in pending \/ (c.from = p /\ c.to = q /\ c.text = t /\ c.nth = 0)
  <2>1. \A c \in pending' : \/ c \in pending
                             \/ \E w \in Way : c = [from |-> p, to |-> q, text |-> t, way |-> w, nth |-> 0]
    BY DEF Post
  <2>2. \A w \in Way : [from |-> p, to |-> q, text |-> t, way |-> w, nth |-> 0] \in Copy
    BY MaxDuplicatesAssumption DEF Copy
  <2>3. pending \subseteq Copy
    BY DEF Inv, TypeOK
  <2> SUFFICES ASSUME NEW c \in pending'
               PROVE  /\ c \in Copy
                      /\ c \in pending \/ (c.from = p /\ c.to = q /\ c.text = t /\ c.nth = 0)
      OBVIOUS
  <2>4. CASE c \in pending
    BY <2>3, <2>4
  <2>5. ASSUME NEW w \in Way, c = [from |-> p, to |-> q, text |-> t, way |-> w, nth |-> 0]
        PROVE  c \in Copy /\ c.from = p /\ c.to = q /\ c.text = t /\ c.nth = 0
    BY <2>2, <2>5
  <2> QED BY <2>1, <2>4, <2>5
<1>4. PendingIsPosted'
  BY <1>1, <1>3 DEF Inv, PendingIsPosted
(* A new entry, if there is one, is the writer's own, with a new text.     *)
<1>5. /\ log' \in [Peer -> [Peer -> Seq(Entry)]]
      /\ \A x, y \in Peer : \A i \in DOMAIN log'[x][y] :
           \/ i \in DOMAIN log[x][y] /\ log'[x][y][i] = log[x][y][i]
           \/ /\ x = p /\ y = q /\ i = Len(log[p][q]) + 1
              /\ log'[x][y][i] = [author |-> p, text |-> t, via |-> "own", nth |-> 0]
  <2>1. CASE Record(p, q, p, t, "own", 0)
    BY <2>1, RecordAppends, MaxDuplicatesAssumption DEF Inv
  <2>2. CASE UNCHANGED log
    BY <2>2 DEF Inv, TypeOK
  <2> QED BY <2>1, <2>2 DEF Post
(* No old entry has it.                                                    *)
<1>6. \A x, y \in Peer : \A i \in DOMAIN log[x][y] : log[x][y][i].text # t
  <2> SUFFICES ASSUME NEW x \in Peer, NEW y \in Peer, NEW i \in DOMAIN log[x][y]
               PROVE  log[x][y][i].text # t
      OBVIOUS
  <2>1. Genuine(x, y, log[x][y][i])
    BY DEF Inv, Authentic
  <2>2. \E l \in posted : l.text = log[x][y][i].text
    BY <2>1 DEF Genuine
  <2> QED BY <1>1, <2>2
<1>7. Authentic'
  <2> SUFFICES ASSUME NEW x \in Peer, NEW y \in Peer, NEW i \in DOMAIN log'[x][y]
               PROVE  Genuine(x, y, log[x][y][i])'
      BY DEF Authentic
  <2>1. CASE i \in DOMAIN log[x][y] /\ log'[x][y][i] = log[x][y][i]
    <3>1. Genuine(x, y, log[x][y][i])
      BY <2>1 DEF Inv, Authentic
    <3> QED BY <1>1, <2>1, <3>1 DEF Genuine
  <2>2. CASE x = p /\ y = q /\ log'[x][y][i] = [author |-> p, text |-> t, via |-> "own", nth |-> 0]
    BY <1>1, <2>2 DEF Genuine
  <2> QED BY <1>5, <2>1, <2>2
<1>8. OncePerCopy'
  <2> SUFFICES ASSUME NEW x \in Peer, NEW y \in Peer,
                      NEW i \in DOMAIN log'[x][y], NEW j \in DOMAIN log'[x][y],
                      log'[x][y][i].text = log'[x][y][j].text,
                      log'[x][y][i].via = log'[x][y][j].via,
                      log'[x][y][i].nth = log'[x][y][j].nth
               PROVE  i = j
      BY DEF OncePerCopy
  <2> DEFINE Old(k) == k \in DOMAIN log[x][y] /\ log'[x][y][k] = log[x][y][k]
             New(k) == k = Len(log[p][q]) + 1 /\ log'[x][y][k].text = t
  <2>1. (Old(i) \/ New(i)) /\ (Old(j) \/ New(j))
    BY <1>5, SMTT(30)
  <2>2. CASE Old(i) /\ Old(j)
    BY <2>2 DEF Inv, OncePerCopy
  <2>3. CASE New(i) /\ New(j)
    BY <2>3
  <2>4. CASE (Old(i) /\ New(j)) \/ (New(i) /\ Old(j))
    BY <1>6, <2>4
  <2> HIDE DEF Old, New
  <2> QED BY <2>1, <2>2, <2>3, <2>4
<1>9. NotYetRecorded'
  <2> SUFFICES ASSUME NEW c \in pending', NEW i \in DOMAIN log'[c.to][c.from]
               PROVE  ~(/\ log'[c.to][c.from][i].text = c.text
                        /\ log'[c.to][c.from][i].via = c.way
                        /\ log'[c.to][c.from][i].nth = c.nth)
      BY DEF NotYetRecorded
  <2>1. c.from \in Peer /\ c.to \in Peer /\ c.text \in Text /\ c.way \in Way
    BY <1>3 DEF Copy
  <2>2. CASE i \in DOMAIN log[c.to][c.from] /\ log'[c.to][c.from][i] = log[c.to][c.from][i]
    BY <1>3, <1>6, <2>1, <2>2 DEF Inv, NotYetRecorded
  <2>3. CASE log'[c.to][c.from][i] = [author |-> p, text |-> t, via |-> "own", nth |-> 0]
    BY <2>1, <2>3 DEF Way
  <2>4. \/ i \in DOMAIN log[c.to][c.from] /\ log'[c.to][c.from][i] = log[c.to][c.from][i]
        \/ log'[c.to][c.from][i] = [author |-> p, text |-> t, via |-> "own", nth |-> 0]
    BY <1>5, <2>1
  <2> QED BY <2>2, <2>3, <2>4
<1>10. NumbersAreUsed'
  <2>1. duplicates' = duplicates /\ 0 <= duplicates
    BY DEF Post, Inv, TypeOK
  <2>2. \A c \in pending' : c.nth <= duplicates'
    BY <1>3, <2>1 DEF Inv, NumbersAreUsed
  <2>3. ASSUME NEW x \in Peer, NEW y \in Peer, NEW i \in DOMAIN log'[x][y]
        PROVE  log'[x][y][i].nth <= duplicates'
    <3>1. CASE i \in DOMAIN log[x][y] /\ log'[x][y][i] = log[x][y][i]
      BY <2>1, <3>1 DEF Inv, NumbersAreUsed
    <3>2. CASE log'[x][y][i] = [author |-> p, text |-> t, via |-> "own", nth |-> 0]
      BY <2>1, <3>2
    <3> QED BY <1>5, <3>1, <3>2
  <2> QED BY <2>2, <2>3 DEF NumbersAreUsed
<1>11. duplicates' \in 0..MaxDuplicates
  BY DEF Post, Inv, TypeOK
<1> QED BY <1>2, <1>3, <1>4, <1>5, <1>7, <1>8, <1>9, <1>10, <1>11 DEF Inv, TypeOK

LEMMA DeliverInv ==
  ASSUME Inv, NEW c \in Copy, Deliver(c)
  PROVE  Inv'
<1>1. /\ c.from \in Peer /\ c.to \in Peer /\ c.text \in Text /\ c.way \in Way
      /\ c.nth \in 0..MaxDuplicates /\ c \in pending
  BY DEF Copy, Deliver
<1>2. pending' = pending \ {c} /\ posted' = posted /\ duplicates' = duplicates
  BY DEF Deliver
<1>3. /\ log' \in [Peer -> [Peer -> Seq(Entry)]]
      /\ \A x, y \in Peer : \A i \in DOMAIN log'[x][y] :
           \/ i \in DOMAIN log[x][y] /\ log'[x][y][i] = log[x][y][i]
           \/ /\ x = c.to /\ y = c.from /\ i = Len(log[c.to][c.from]) + 1
              /\ log'[x][y][i] = [author |-> c.from, text |-> c.text, via |-> c.way, nth |-> c.nth]
  <2>1. Record(c.to, c.from, c.from, c.text, c.way, c.nth) /\ TypeOK
    BY DEF Inv, Deliver
  <2> QED BY <1>1, <2>1, RecordAppends, SMTT(30)
<1>4. TypeOK' /\ TextNamesLetter' /\ PendingIsPosted'
  BY <1>2, <1>3 DEF Inv, TypeOK, TextNamesLetter, PendingIsPosted
<1>5. Authentic'
  <2>1. [from |-> c.from, to |-> c.to, text |-> c.text] \in posted /\ c.way # "own"
    BY <1>1 DEF Inv, PendingIsPosted, Way
  <2> SUFFICES ASSUME NEW x \in Peer, NEW y \in Peer, NEW i \in DOMAIN log'[x][y]
               PROVE  Genuine(x, y, log[x][y][i])'
      BY DEF Authentic
  <2>2. CASE i \in DOMAIN log[x][y] /\ log'[x][y][i] = log[x][y][i]
    <3>1. Genuine(x, y, log[x][y][i])
      BY <2>2 DEF Inv, Authentic
    <3> QED BY <1>2, <2>2, <3>1 DEF Genuine
  <2>3. CASE /\ x = c.to /\ y = c.from
             /\ log'[x][y][i] = [author |-> c.from, text |-> c.text, via |-> c.way, nth |-> c.nth]
    BY <1>2, <2>1, <2>3 DEF Genuine
  <2> QED BY <1>3, <2>2, <2>3
<1>6. OncePerCopy'
  <2> SUFFICES ASSUME NEW x \in Peer, NEW y \in Peer,
                      NEW i \in DOMAIN log'[x][y], NEW j \in DOMAIN log'[x][y],
                      log'[x][y][i].text = log'[x][y][j].text,
                      log'[x][y][i].via = log'[x][y][j].via,
                      log'[x][y][i].nth = log'[x][y][j].nth
               PROVE  i = j
      BY DEF OncePerCopy
  <2> DEFINE Old(k) == k \in DOMAIN log[x][y] /\ log'[x][y][k] = log[x][y][k]
             New(k) == /\ x = c.to /\ y = c.from /\ k = Len(log[c.to][c.from]) + 1
                       /\ log'[x][y][k].text = c.text /\ log'[x][y][k].via = c.way
                       /\ log'[x][y][k].nth = c.nth
  <2>1. (Old(i) \/ New(i)) /\ (Old(j) \/ New(j))
    BY <1>3
  <2>2. CASE Old(i) /\ Old(j)
    BY <2>2 DEF Inv, OncePerCopy
  <2>3. CASE New(i) /\ New(j)
    BY <2>3
  <2>4. CASE (Old(i) /\ New(j)) \/ (New(i) /\ Old(j))
    <3>1. \A k \in DOMAIN log[c.to][c.from] :
            ~(/\ log[c.to][c.from][k].text = c.text /\ log[c.to][c.from][k].via = c.way
              /\ log[c.to][c.from][k].nth = c.nth)
      BY <1>1 DEF Inv, NotYetRecorded
    <3> QED BY <2>4, <3>1
  <2> HIDE DEF Old, New
  <2> QED BY <2>1, <2>2, <2>3, <2>4
<1>7. NotYetRecorded'
  <2> SUFFICES ASSUME NEW d \in pending', NEW i \in DOMAIN log'[d.to][d.from]
               PROVE  ~(/\ log'[d.to][d.from][i].text = d.text
                        /\ log'[d.to][d.from][i].via = d.way
                        /\ log'[d.to][d.from][i].nth = d.nth)
      BY DEF NotYetRecorded
  <2>1. d \in pending /\ d \in Copy /\ d # c /\ d.from \in Peer /\ d.to \in Peer
    BY <1>2 DEF Inv, TypeOK, Copy
  <2>2. ~(d.from = c.from /\ d.to = c.to /\ d.text = c.text /\ d.way = c.way /\ d.nth = c.nth)
    BY <2>1 DEF Copy
  <2>3. CASE i \in DOMAIN log[d.to][d.from] /\ log'[d.to][d.from][i] = log[d.to][d.from][i]
    BY <2>1, <2>3 DEF Inv, NotYetRecorded
  <2>4. CASE /\ d.to = c.to /\ d.from = c.from
             /\ log'[d.to][d.from][i] = [author |-> c.from, text |-> c.text, via |-> c.way, nth |-> c.nth]
    BY <2>2, <2>4
  <2> QED BY <1>3, <2>1, <2>3, <2>4
<1>8. NumbersAreUsed'
  <2>1. c.nth <= duplicates
    BY <1>1 DEF Inv, NumbersAreUsed
  <2>2. \A d \in pending' : d.nth <= duplicates'
    BY <1>2 DEF Inv, NumbersAreUsed
  <2>3. ASSUME NEW x \in Peer, NEW y \in Peer, NEW i \in DOMAIN log'[x][y]
        PROVE  log'[x][y][i].nth <= duplicates'
    <3>1. CASE i \in DOMAIN log[x][y] /\ log'[x][y][i] = log[x][y][i]
      BY <1>2, <3>1 DEF Inv, NumbersAreUsed
    <3>2. CASE log'[x][y][i] =
                 [author |-> c.from, text |-> c.text, via |-> c.way, nth |-> c.nth]
      BY <1>2, <2>1, <3>2
    <3> QED BY <1>3, <3>1, <3>2
  <2> QED BY <2>2, <2>3 DEF NumbersAreUsed
<1> QED BY <1>4, <1>5, <1>6, <1>7, <1>8 DEF Inv

(* A duplicate differs from whatever has been recorded by its number.      *)
LEMMA DuplicateInv ==
  ASSUME Inv, NEW c \in Copy, Duplicate(c)
  PROVE  Inv'
<1> DEFINE copy == [c EXCEPT !.nth = duplicates + 1]
<1>1. /\ c \in pending /\ pending' = pending \cup {copy}
      /\ duplicates' = duplicates + 1 /\ log' = log /\ posted' = posted
      /\ duplicates \in Nat /\ duplicates' \in 0..MaxDuplicates
  BY MaxDuplicatesAssumption DEF Duplicate, Inv, TypeOK
<1>2. /\ copy \in Copy /\ copy.from = c.from /\ copy.to = c.to /\ copy.text = c.text
      /\ copy.way = c.way /\ copy.nth = duplicates + 1
  BY <1>1 DEF Copy
<1> HIDE DEF copy
<1>3. TypeOK' /\ TextNamesLetter' /\ PendingIsPosted'
  BY <1>1, <1>2 DEF Inv, TypeOK, TextNamesLetter, PendingIsPosted
<1>4. c.from \in Peer /\ c.to \in Peer
  BY DEF Copy
<1>5. ASSUME NEW x \in Peer, NEW y \in Peer, NEW i \in DOMAIN log[x][y]
      PROVE  log[x][y][i].nth \in Nat /\ log[x][y][i].nth <= duplicates
  <2>1. log[x][y] \in Seq(Entry)
    BY DEF Inv, TypeOK
  <2>2. log[x][y][i] \in Entry
    BY <2>1
  <2> QED BY <2>2 DEF Inv, NumbersAreUsed, Entry
<1>6. NotYetRecorded'
  <2> SUFFICES ASSUME NEW d \in pending', NEW i \in DOMAIN log[d.to][d.from]
               PROVE  ~(/\ log[d.to][d.from][i].text = d.text
                        /\ log[d.to][d.from][i].via = d.way
                        /\ log[d.to][d.from][i].nth = d.nth)
      BY <1>1 DEF NotYetRecorded
  <2>1. CASE d \in pending
    BY <2>1 DEF Inv, NotYetRecorded
  <2>2. CASE d = copy
    BY <1>1, <1>2, <1>4, <1>5, <2>2
  <2> QED BY <1>1, <2>1, <2>2
<1>7. NumbersAreUsed'
  <2>1. \A d \in pending : d.nth \in Nat /\ d.nth <= duplicates
    BY DEF Inv, TypeOK, Copy, NumbersAreUsed
  <2>2. \A d \in pending' : d.nth <= duplicates'
    BY <1>1, <1>2, <2>1
  <2>3. \A x, y \in Peer : \A i \in DOMAIN log'[x][y] : log'[x][y][i].nth <= duplicates'
    BY <1>1, <1>5
  <2> QED BY <2>2, <2>3 DEF NumbersAreUsed
<1>8. Authentic' /\ OncePerCopy'
  BY <1>1 DEF Inv, Authentic, Genuine, OncePerCopy
<1> QED BY <1>3, <1>6, <1>7, <1>8 DEF Inv

LEMMA StepInv == Inv /\ [Next]_vars => Inv'
<1> SUFFICES ASSUME Inv, [Next]_vars PROVE Inv'
    OBVIOUS
<1>0. pending \subseteq Copy
  BY DEF Inv, TypeOK
<1>1. ASSUME NEW p \in Peer, NEW q \in Peer, NEW t \in Text, NEW ways \in SUBSET Way,
             Post(p, q, t, ways)
      PROVE  Inv'
  BY <1>1, PostInv
<1>2. ASSUME NEW c \in pending, Deliver(c) PROVE Inv'
  BY <1>0, <1>2, DeliverInv
<1>3. ASSUME NEW c \in pending, Drop(c) PROVE Inv'
  <2>1. pending' \subseteq pending /\ log' = log /\ posted' = posted /\ duplicates' = duplicates
    BY <1>3 DEF Drop
  <2>2. TypeOK' /\ TextNamesLetter' /\ PendingIsPosted'
    BY <2>1 DEF Inv, TypeOK, TextNamesLetter, PendingIsPosted
  <2>3. NotYetRecorded' /\ NumbersAreUsed'
    BY <2>1 DEF Inv, NotYetRecorded, NumbersAreUsed
  <2>4. Authentic' /\ OncePerCopy'
    BY <2>1 DEF Inv, Authentic, Genuine, OncePerCopy
  <2> QED BY <2>2, <2>3, <2>4 DEF Inv
<1>4. ASSUME NEW p \in Peer, Forget(p) PROVE Inv'
  <2>1. \A x, y \in Peer : log'[x][y] = IF x = p THEN <<>> ELSE log[x][y]
    BY <1>4 DEF Forget, Inv, TypeOK, EmptyLog
  <2>2. log' \in [Peer -> [Peer -> Seq(Entry)]]
    BY <1>4 DEF Forget, Inv, TypeOK, EmptyLog
  <2>3. pending' = pending /\ posted' = posted /\ duplicates' = duplicates
    BY <1>4 DEF Forget
  <2>4. NotYetRecorded'
    <3> SUFFICES ASSUME NEW c \in pending, NEW i \in DOMAIN log'[c.to][c.from]
                 PROVE  ~(/\ log'[c.to][c.from][i].text = c.text
                          /\ log'[c.to][c.from][i].via = c.way
                          /\ log'[c.to][c.from][i].nth = c.nth)
        BY <2>3 DEF NotYetRecorded
    <3>1. c.from \in Peer /\ c.to \in Peer
      BY DEF Inv, TypeOK, Copy
    <3>2. i \in DOMAIN log[c.to][c.from] /\ log'[c.to][c.from] = log[c.to][c.from]
      BY <2>1, <3>1
    <3> QED BY <3>2 DEF Inv, NotYetRecorded
  <2>5. NumbersAreUsed'
    BY <2>1, <2>3 DEF Inv, NumbersAreUsed
  <2>6. Authentic'
    BY <2>1, <2>3 DEF Inv, Authentic, Genuine
  <2>7. OncePerCopy'
    BY <2>1 DEF Inv, OncePerCopy
  <2> QED BY <2>2, <2>3, <2>4, <2>5, <2>6, <2>7
          DEF Inv, TypeOK, TextNamesLetter, PendingIsPosted
<1>5. ASSUME NEW c \in pending, Duplicate(c) PROVE Inv'
  BY <1>0, <1>5, DuplicateInv
<1>6. CASE DuplicateOther
  <2>1. /\ duplicates' = duplicates + 1 /\ duplicates \in Nat
        /\ duplicates' \in 0..MaxDuplicates /\ UNCHANGED <<log, pending, posted>>
    BY <1>6, MaxDuplicatesAssumption DEF DuplicateOther, Inv, TypeOK
  <2>2. TypeOK' /\ TextNamesLetter' /\ PendingIsPosted' /\ NotYetRecorded'
    BY <2>1 DEF Inv, TypeOK, TextNamesLetter, PendingIsPosted, NotYetRecorded
  <2>3. NumbersAreUsed'
    <3>1. \A c \in pending : c.nth \in Nat
      BY DEF Inv, TypeOK, Copy
    <3>2. ASSUME NEW x \in Peer, NEW y \in Peer, NEW i \in DOMAIN log[x][y]
          PROVE  log[x][y][i].nth \in Nat
      <4>1. log[x][y] \in Seq(Entry)
        BY DEF Inv, TypeOK
      <4>2. log[x][y][i] \in Entry
        BY <4>1
      <4> QED BY <4>2 DEF Entry
    <3> QED BY <2>1, <3>1, <3>2 DEF Inv, NumbersAreUsed
  <2>4. Authentic' /\ OncePerCopy'
    BY <2>1 DEF Inv, Authentic, Genuine, OncePerCopy
  <2> QED BY <2>2, <2>3, <2>4 DEF Inv
<1>7. CASE UNCHANGED vars
  <2>1. UNCHANGED <<log, pending, posted, duplicates>>
    BY <1>7 DEF vars
  <2>2. TypeOK' /\ TextNamesLetter' /\ PendingIsPosted' /\ NotYetRecorded'
    BY <2>1 DEF Inv, TypeOK, TextNamesLetter, PendingIsPosted, NotYetRecorded
  <2>3. NumbersAreUsed' /\ Authentic' /\ OncePerCopy'
    BY <2>1 DEF Inv, NumbersAreUsed, Authentic, Genuine, OncePerCopy
  <2> QED BY <2>2, <2>3 DEF Inv
<1> QED BY <1>1, <1>2, <1>3, <1>4, <1>5, <1>6, <1>7 DEF Next

LEMMA AlwaysInv == Spec => []Inv
BY InitInv, StepInv, PTL DEF Spec

(* Logs, copies under way and letters keep their types.                    *)
THEOREM DeliveryKeepsTypes == Spec => []TypeOK
BY AlwaysInv, PTL DEF Inv

(* No history of any peer ever shows words their author did not write to   *)
(* that chat: the check of the destination key in the receiver suffices.   *)
THEOREM HistoriesAreAuthentic == Spec => []Authentic
BY AlwaysInv, PTL DEF Inv

(* The missing comparison of message ids costs no more than one repetition *)
(* for the relay's way and one for every duplicate the network makes.      *)
THEOREM RecordedOncePerCopy == Spec => []OncePerCopy
BY AlwaysInv, PTL DEF Inv
=============================================================================
