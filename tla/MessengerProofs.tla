---------------------------- MODULE MessengerProofs ----------------------------
(***************************************************************************)
(* For any peers, relays, endpoints and texts: whose endpoint is learned   *)
(* from whom, and every behaviour of the messengers is one of Delivery.    *)
(***************************************************************************)
EXTENDS Messenger, TLAPS

(* Where the datagrams in flight come from: an endpoint of the peer        *)
(* itself, or of a relay that is not the peer the message is for.          *)
NetOrigin ==
  \A d \in net :
    /\ d.kind = "punch" => d.src \in Mapped[d.from]
    /\ d.kind = "message" =>
         /\ [from |-> d.from, to |-> d.to, text |-> d.text] \in posted
         /\ \/ d.src \in Mapped[d.from]
            \/ \E r \in RelayNode : r # d.to /\ d.src \in Mapped[r]

(* A copy is in flight at most once, and duplicates are numbered in order. *)
CopiesDiffer ==
  /\ \A d, e \in net :
       d.kind = "message" /\ e.kind = "message" /\ CopyOf(d) = CopyOf(e) => d = e
  /\ \A d \in net : d.nth <= duplicates

Inv ==
  /\ TypeOK /\ NetOrigin /\ CopiesDiffer
  /\ LearnedFromPeer /\ RelayKnowsOutside

LEMMA DatagramShape ==
  ASSUME NEW d \in Message \cup Punch
  PROVE  /\ d.kind \in {"message", "punch"} /\ d.from \in Peer
         /\ d.src \in Endpoint /\ d.dst \in Endpoint /\ d.nth \in 0..MaxDuplicates
         /\ d.kind = "message" <=> d \in Message
         /\ d.kind = "message" =>
              /\ d.to \in Peer /\ d.text \in Text /\ d.way \in Way /\ d.dest \in Endpoint
         /\ d.kind = "punch" <=> d \in Punch
BY DEF Message, Punch

(* What a punch of the code's own making looks like.                       *)
IsPunch(x) == x.kind = "punch" /\ x.src \in Mapped[x.from] /\ x.nth = 0

LEMMA PunchShape ==
  ASSUME NEW p \in Peer, NEW e \in Endpoint, outside[p] \in Mapped[p]
  PROVE  PunchTo(p, e) \in Punch /\ IsPunch(PunchTo(p, e))
BY EndpointAssumption, BoundAssumption DEF PunchTo, Punch, IsPunch

LEMMA RelayOfEndpoint == \A p \in Peer : RelayOf(p) \subseteq Endpoint
BY EndpointAssumption DEF RelayOf

LEMMA InitInv == Init => Inv
<1> SUFFICES ASSUME Init PROVE Inv
    OBVIOUS
<1>1. \A d \in net : \E p \in Peer, e \in Endpoint : d = PunchTo(p, e)
  BY RelayOfEndpoint DEF Init
<1>0. outside \in [Peer -> Endpoint] /\ \A p \in Peer : outside[p] \in Mapped[p]
  BY DEF Init
<1>2. \A d \in net : d \in Punch /\ IsPunch(d)
  <2> SUFFICES ASSUME NEW d \in net
               PROVE  d \in Punch /\ IsPunch(d)
      OBVIOUS
  <2>1. PICK p \in Peer, e \in Endpoint : d = PunchTo(p, e)
    BY <1>1
  <2> QED BY <1>0, <2>1, PunchShape
<1>3. TypeOK
  BY <1>0, <1>2, RelayOfEndpoint, BoundAssumption
     DEF Init, TypeOK, NoAddress, EmptyHistory
<1>4. NetOrigin /\ CopiesDiffer
  BY <1>2 DEF NetOrigin, CopiesDiffer, IsPunch, Init
<1>5. LearnedFromPeer /\ RelayKnowsOutside
  BY PeerAssumption DEF Init, LearnedFromPeer, RelayKnowsOutside, NoAddress
<1> QED BY <1>3, <1>4, <1>5 DEF Inv

(* One entry is appended to one chat.                                      *)
LEMMA RecordType ==
  ASSUME TypeOK, NEW p \in Peer, NEW q \in Peer, NEW author \in Peer, NEW text \in Text,
         NEW via \in Way \cup {"own"}, NEW nth \in 0..MaxDuplicates,
         Record(p, q, author, text, via, nth)
  PROVE  history' \in [Peer -> [Peer -> Seq(Entry)]]
<1> DEFINE e == [author |-> author, text |-> text, via |-> via, nth |-> nth]
<1>1. Append(history[p][q], e) \in Seq(Entry)
  <2>1. e \in Entry
    BY DEF Entry
  <2>2. history[p][q] \in Seq(Entry)
    BY DEF TypeOK
  <2> QED BY <2>1, <2>2
<1>2. history' = [history EXCEPT ![p][q] = Append(history[p][q], e)]
  BY DEF Record
<1> QED BY <1>1, <1>2 DEF TypeOK

LEMMA ResolveType ==
  ASSUME TypeOK, NEW p \in Peer, NEW q \in Peer, Resolve(p, q) # None
  PROVE  Resolve(p, q) \in Endpoint
BY DEF TypeOK, Resolve

-----------------------------------------------------------------------------
(* Losing datagrams and adding punches of one's own keeps net in order.    *)
LEMMA NetKept ==
  ASSUME Inv, NEW punches \in SUBSET Punch,
         \A x \in punches : IsPunch(x),
         net' \subseteq net \cup punches, posted \subseteq posted', duplicates' = duplicates
  PROVE  net' \subseteq Message \cup Punch /\ NetOrigin' /\ CopiesDiffer'
<1>1. net' \subseteq Message \cup Punch
  BY DEF Inv, TypeOK
<1>2. NetOrigin'
  BY DEF Inv, NetOrigin, IsPunch
<1>3. CopiesDiffer'
  BY DEF Inv, TypeOK, CopiesDiffer, IsPunch
<1> QED BY <1>1, <1>2, <1>3

LEMMA BooksKept ==
  ASSUME Inv, meta' = meta, punching' = punching, posted \subseteq posted'
  PROVE  LearnedFromPeer' /\ RelayKnowsOutside'
<1>1. LearnedFromPeer'
  <2>1. \A p \in Peer : \A q \in Peer : meta'[p][q] # None => meta'[p][q] \in Plausible(q)
    BY DEF Inv, LearnedFromPeer
  <2>2. \A p \in Peer : \A e \in punching'[p] :
          e \in RelayOf(p) \/ \E l \in posted' : l.to = p /\ e \in Plausible(l.from)
    BY DEF Inv, LearnedFromPeer
  <2> QED BY <2>1, <2>2 DEF LearnedFromPeer
<1>2. RelayKnowsOutside'
  BY DEF Inv, RelayKnowsOutside
<1> QED BY <1>1, <1>2

LEMMA DhtFoundInv ==
  ASSUME Inv, NEW p \in Peer, NEW q \in Peer, DhtFound(p, q)
  PROVE  Inv'
<1>1. Declared[q] \in Endpoint /\ Declared[q] # None
  BY EndpointAssumption
<1>2. TypeOK'
  BY <1>1 DEF Inv, TypeOK, DhtFound, counts
<1>4. NetOrigin' /\ CopiesDiffer'
  <2>1. net' \subseteq net \cup {} /\ posted \subseteq posted' /\ duplicates' = duplicates
    BY DEF DhtFound, counts
  <2>2. {} \in SUBSET Punch /\ \A x \in {} : IsPunch(x)
    OBVIOUS
  <2> QED BY <2>1, <2>2, NetKept
<1>5. LearnedFromPeer' /\ RelayKnowsOutside'
  BY BooksKept DEF DhtFound
<1> QED BY <1>2, <1>4, <1>5 DEF Inv

LEMMA CopyShape ==
  ASSUME Inv, NEW p \in Peer, NEW q \in Peer, NEW t \in Text, NEW way \in Way,
         NEW e \in Endpoint, Resolve(p, q) # None
  PROVE  LET m == CopyTo(p, q, t, way, e) IN
           /\ m \in Message /\ m.kind = "message" /\ m.src \in Mapped[m.from]
           /\ CopyOf(m) = [from |-> p, to |-> q, text |-> t, way |-> way, nth |-> 0]
           /\ m.from = p /\ m.to = q /\ m.text = t /\ m.way = way /\ m.nth = 0
<1>1. /\ Resolve(p, q) \in Endpoint /\ 0 \in 0..MaxDuplicates
      /\ outside[p] \in Endpoint /\ outside[p] \in Mapped[p]
  BY ResolveType, BoundAssumption DEF Inv, TypeOK
<1> QED BY <1>1 DEF CopyTo, Message, CopyOf

LEMMA SendMessageInv ==
  ASSUME Inv, NEW p \in Peer, NEW q \in Peer, NEW t \in Text, SendMessage(p, q, t)
  PROVE  Inv'
<1> DEFINE direct == CopyTo(p, q, t, "direct", Resolve(p, q))
           letter == [from |-> p, to |-> q, text |-> t]
<1>1. /\ \A l \in posted : l.text # t
      /\ posted' = posted \cup {letter}
      /\ UNCHANGED <<outside, meta, dht, contacts, punching, counts>>
  BY DEF SendMessage
(* Every new datagram is a copy of the letter, of one way each.            *)
<1>2. \A m \in net' \ net :
        /\ Resolve(p, q) # None
        /\ \/ m = direct
           \/ \E e \in RelayOf(p) : RelayOf(p) = {e} /\ m = CopyTo(p, q, t, "relay", e)
  BY DEF SendMessage, RelayCopies, RelayOf
<1>a. ASSUME Resolve(p, q) # None
      PROVE  /\ direct \in Message /\ direct.kind = "message"
             /\ direct.src \in Mapped[direct.from] /\ direct.way = "direct"
             /\ direct.from = p /\ direct.to = q /\ direct.text = t /\ direct.nth = 0
  BY <1>a, ResolveType, CopyShape DEF Inv, Way
<1>b. ASSUME Resolve(p, q) # None, NEW e \in RelayOf(p)
      PROVE  LET m == CopyTo(p, q, t, "relay", e) IN
               /\ m \in Message /\ m.kind = "message"
               /\ m.src \in Mapped[m.from] /\ m.way = "relay"
               /\ m.from = p /\ m.to = q /\ m.text = t /\ m.nth = 0
  <2>1. e \in Endpoint
    BY RelayOfEndpoint
  <2> QED BY <1>b, <2>1, CopyShape DEF Way
<1> HIDE DEF direct
<1>3. \A m \in net' \ net :
        /\ m \in Message /\ m.kind = "message" /\ m.src \in Mapped[m.from]
        /\ m.from = p /\ m.to = q /\ m.text = t /\ m.nth = 0
  BY <1>2, <1>a, <1>b
<1>4. \A m, n \in net' \ net : CopyOf(m) = CopyOf(n) => m = n
  <2>1. \A m, n \in net' \ net : m.way = n.way => m = n
    BY <1>2, <1>a, <1>b
  <2>2. \A m, n : CopyOf(m) = CopyOf(n) => m.way = n.way
    BY DEF CopyOf
  <2> QED BY <2>1, <2>2
<1>5. letter \in Letter /\ letter \in posted'
  BY <1>1 DEF Letter
<1>6. history' \in [Peer -> [Peer -> Seq(Entry)]]
  <2>1. CASE Record(p, q, p, t, "own", 0)
    BY <2>1, RecordType, BoundAssumption DEF Inv
  <2>2. CASE UNCHANGED history
    BY <2>2 DEF Inv, TypeOK
  <2> QED BY <2>1, <2>2 DEF SendMessage
<1>7. TypeOK'
  BY <1>1, <1>3, <1>5, <1>6 DEF Inv, TypeOK, counts
<1>9. NetOrigin'
  <2> SUFFICES ASSUME NEW d \in net'
               PROVE  /\ d.kind = "punch" => d.src \in Mapped[d.from]
                      /\ d.kind = "message" =>
                           /\ [from |-> d.from, to |-> d.to, text |-> d.text] \in posted'
                           /\ \/ d.src \in Mapped[d.from]
                              \/ \E r \in RelayNode : r # d.to /\ d.src \in Mapped[r]
      BY DEF NetOrigin
  <2>1. CASE d \in net
    BY <1>1, <2>1 DEF Inv, NetOrigin
  <2>2. CASE d \notin net
    BY <1>3, <1>5, <2>2
  <2> QED BY <2>1, <2>2
<1>10. CopiesDiffer'
  <2> SUFFICES ASSUME NEW d \in net', NEW e \in net', d.kind = "message", e.kind = "message",
                      CopyOf(d) = CopyOf(e)
               PROVE  d = e
      <3>1. \A d \in net' : d.nth <= duplicates'
        BY <1>1, <1>3 DEF Inv, TypeOK, CopiesDiffer, counts
      <3> QED BY <3>1 DEF CopiesDiffer
  <2>1. d.text = e.text
    BY DEF CopyOf
  <2>2. \A m \in net : m.kind = "message" => m.text # t
    BY <1>1 DEF Inv, NetOrigin
  <2>3. CASE d \in net /\ e \in net
    BY <2>3 DEF Inv, CopiesDiffer
  <2>4. CASE d \notin net /\ e \notin net
    BY <1>4, <2>4
  <2> QED BY <1>3, <2>1, <2>2, <2>3, <2>4
<1>11. LearnedFromPeer' /\ RelayKnowsOutside'
  BY <1>1, BooksKept
<1> QED BY <1>7, <1>9, <1>10, <1>11 DEF Inv

(* The endpoint taken from a message is one of its sender's, or that of a  *)
(* relay with its sender's ip; a relay gets its own messages first-hand.   *)
LEMMA LearnedShape ==
  ASSUME Inv, NEW p \in Peer, NEW d \in net, d.kind = "message", d.to = p
  PROVE  /\ d.from \in Peer /\ Learned(d) \in Endpoint /\ Learned(d) \in Plausible(d.from)
         /\ OneRelay /\ DeclaredIpIsOutside /\ p \in RelayNode => Learned(d) \in Mapped[d.from]
<1>1. d \in Message \cup Punch /\ d.from \in Peer /\ d.src \in Endpoint
  BY DatagramShape DEF Inv, TypeOK
<1>2. Declared[d.from] \in Endpoint
  BY <1>1, EndpointAssumption
<1>3. \/ d.src \in Mapped[d.from]
      \/ \E r \in RelayNode : r # p /\ d.src \in Mapped[r]
  BY DEF Inv, NetOrigin
<1>4. Learned(d) \in Plausible(d.from)
  BY <1>3 DEF Learned, Plausible
<1>5. ASSUME OneRelay, DeclaredIpIsOutside, p \in RelayNode
      PROVE  Learned(d) \in Mapped[d.from]
  <2>1. d.src \in Mapped[d.from]
    BY <1>3, <1>5 DEF OneRelay
  <2> QED BY <1>1, <1>5, <2>1 DEF Learned, DeclaredIpIsOutside
<1> QED BY <1>1, <1>2, <1>4, <1>5 DEF Learned

(* Storing a plausible endpoint of q at p.                                 *)
LEMMA BookingInv ==
  ASSUME Inv, NEW p \in Peer, NEW q \in Peer, NEW e \in Endpoint, e \in Plausible(q),
         OneRelay /\ DeclaredIpIsOutside /\ p \in RelayNode => e \in Mapped[q],
         meta' = [meta EXCEPT ![p][q] = e], posted' = posted
  PROVE  /\ meta' \in [Peer -> [Peer -> Endpoint \cup {None}]]
         /\ \A x, y \in Peer : meta'[x][y] # None => meta'[x][y] \in Plausible(y)
         /\ RelayKnowsOutside'
<1>1. meta' \in [Peer -> [Peer -> Endpoint \cup {None}]]
  BY DEF Inv, TypeOK
<1>2. \A x, y \in Peer : meta'[x][y] = IF x = p /\ y = q THEN e ELSE meta[x][y]
  BY DEF Inv, TypeOK
<1>3. e # None
  BY EndpointAssumption
<1>4. RelayKnowsOutside'
  BY <1>2, PeerAssumption DEF Inv, RelayKnowsOutside
<1> QED BY <1>1, <1>2, <1>3, <1>4 DEF Inv, LearnedFromPeer

LEMMA ReceiveMessageInv ==
  ASSUME Inv, NEW p \in Peer, NEW d \in net, ReceiveMessage(p, d)
  PROVE  Inv'
<1> DEFINE e == Learned(d)
<1>1. /\ d.kind = "message" /\ d.to = p
      /\ meta' = [meta EXCEPT ![p][d.from] = e]
      /\ UNCHANGED <<outside, dht, posted, counts>>
  BY DEF ReceiveMessage
<1>2. /\ d.from \in Peer /\ e \in Endpoint /\ e \in Plausible(d.from)
      /\ OneRelay /\ DeclaredIpIsOutside /\ p \in RelayNode => e \in Mapped[d.from]
  BY <1>1, LearnedShape
<1>3. /\ meta' \in [Peer -> [Peer -> Endpoint \cup {None}]]
      /\ \A x, y \in Peer : meta'[x][y] # None => meta'[x][y] \in Plausible(y)
      /\ RelayKnowsOutside'
  BY <1>1, <1>2, BookingInv
<1>4. net' \subseteq Message \cup Punch /\ NetOrigin' /\ CopiesDiffer'
  <2> DEFINE punches == {PunchTo(p, e)}
  <2>1. punches \in SUBSET Punch /\ \A x \in punches : IsPunch(x)
    BY <1>2, PunchShape DEF Inv, TypeOK
  <2>2. net' \subseteq net \cup punches /\ duplicates' = duplicates
    BY DEF ReceiveMessage, Consume, counts
  <2> QED BY <1>1, <2>1, <2>2, NetKept
<1>5. /\ punching' \in [Peer -> SUBSET Endpoint]
      /\ contacts' \in [Peer -> SUBSET Peer]
      /\ \A x \in Peer : punching'[x] \subseteq punching[x] \cup (IF x = p THEN {e} ELSE {})
      /\ \A x \in Peer : contacts'[x] \subseteq contacts[x] \cup (IF x = p THEN {d.from} ELSE {})
  <2>1. punching \in [Peer -> SUBSET Endpoint] /\ contacts \in [Peer -> SUBSET Peer]
    BY DEF Inv, TypeOK
  <2>2. CASE /\ punching' = [punching EXCEPT ![p] = @ \cup {e}]
             /\ contacts' = [contacts EXCEPT ![p] = @ \cup {d.from}]
    BY <1>2, <2>1, <2>2
  <2>3. CASE UNCHANGED <<punching, contacts>>
    BY <2>1, <2>3
  <2> QED BY <2>2, <2>3 DEF ReceiveMessage
<1>6. history' \in [Peer -> [Peer -> Seq(Entry)]]
  <2>1. d \in Message \cup Punch
    BY DEF Inv, TypeOK
  <2>2. d.text \in Text /\ d.way \in Way /\ d.nth \in 0..MaxDuplicates
    BY <1>1, <2>1, DatagramShape
  <2>3. CASE Record(p, d.from, d.from, d.text, d.way, d.nth)
    BY <1>2, <2>2, <2>3, RecordType DEF Inv
  <2>4. CASE UNCHANGED history
    BY <2>4 DEF Inv, TypeOK
  <2> QED BY <2>3, <2>4 DEF ReceiveMessage
<1>7. TypeOK'
  BY <1>1, <1>3, <1>4, <1>5, <1>6 DEF Inv, TypeOK, counts
<1>9. LearnedFromPeer'
  <2> SUFFICES ASSUME NEW x \in Peer, NEW f \in punching'[x]
               PROVE  f \in RelayOf(x) \/ \E l \in posted' : l.to = x /\ f \in Plausible(l.from)
      BY <1>3 DEF LearnedFromPeer
  <2>1. CASE f \in punching[x]
    BY <1>1, <2>1 DEF Inv, LearnedFromPeer
  <2>2. CASE x = p /\ f = e
    <3>1. [from |-> d.from, to |-> d.to, text |-> d.text] \in posted
      BY <1>1 DEF Inv, NetOrigin
    <3> QED BY <1>1, <1>2, <2>2, <3>1
  <2> QED BY <1>5, <2>1, <2>2
<1> QED BY <1>3, <1>4, <1>7, <1>9 DEF Inv

LEMMA ReceivePunchInv ==
  ASSUME Inv, NEW p \in Peer, NEW d \in net, ReceivePunch(p, d)
  PROVE  Inv'
<1>1. /\ d.kind = "punch" /\ d.src \in Mapped[d.from]
      /\ meta' = [meta EXCEPT ![p][d.from] = d.src]
      /\ net' \subseteq net \cup {} /\ duplicates' = duplicates /\ disruptions' = disruptions
      /\ UNCHANGED <<outside, dht, contacts, punching, history, posted>>
  BY DEF Inv, NetOrigin, ReceivePunch, Consume, counts
<1>2. d.from \in Peer /\ d.src \in Endpoint /\ d.src \in Plausible(d.from)
  BY <1>1, DatagramShape DEF Inv, TypeOK, Plausible
<1>3. /\ meta' \in [Peer -> [Peer -> Endpoint \cup {None}]]
      /\ \A x, y \in Peer : meta'[x][y] # None => meta'[x][y] \in Plausible(y)
      /\ RelayKnowsOutside'
  BY <1>1, <1>2, BookingInv
<1>4. net' \subseteq Message \cup Punch /\ NetOrigin' /\ CopiesDiffer'
  <2>1. {} \in SUBSET Punch /\ \A x \in {} : IsPunch(x)
    OBVIOUS
  <2> QED BY <1>1, <2>1, NetKept
<1>5. TypeOK'
  BY <1>1, <1>3, <1>4 DEF Inv, TypeOK
<1>6. LearnedFromPeer'
  BY <1>1, <1>3 DEF Inv, LearnedFromPeer
<1> QED BY <1>3, <1>4, <1>5, <1>6 DEF Inv

LEMMA ForwardInv ==
  ASSUME Inv, NEW p \in Peer, NEW d \in net, Forward(p, d)
  PROVE  Inv'
<1> DEFINE sent == [d EXCEPT !.src = outside[p], !.dst = ForwardTo(p, d)]
<1>1. /\ d.kind = "message" /\ d.to # p
      /\ UNCHANGED <<outside, meta, dht, contacts, punching, history, posted, counts>>
  BY DEF Forward
<1>2. \/ p \in RelayNode /\ net' = (net \ {d}) \cup {sent}
      \/ net' = net \ {d}
  BY DEF Forward, Consume
<1>3. d \in Message
  BY <1>1, DatagramShape DEF Inv, TypeOK
<1>4. ForwardTo(p, d) \in Endpoint /\ outside[p] \in Endpoint /\ outside[p] \in Mapped[p]
  BY <1>3, EndpointAssumption DEF Inv, TypeOK, ForwardTo, Message
<1>5. /\ sent \in Message /\ sent.kind = "message" /\ CopyOf(sent) = CopyOf(d)
      /\ sent.from = d.from /\ sent.to = d.to /\ sent.text = d.text /\ sent.src \in Mapped[p]
      /\ sent.nth = d.nth
  BY <1>3, <1>4 DEF Message, CopyOf
<1> HIDE DEF sent
<1>6. TypeOK'
  BY <1>1, <1>2, <1>5 DEF Inv, TypeOK, counts
<1>7. NetOrigin'
  <2> SUFFICES ASSUME NEW x \in net'
               PROVE  /\ x.kind = "punch" => x.src \in Mapped[x.from]
                      /\ x.kind = "message" =>
                           /\ [from |-> x.from, to |-> x.to, text |-> x.text] \in posted'
                           /\ \/ x.src \in Mapped[x.from]
                              \/ \E r \in RelayNode : r # x.to /\ x.src \in Mapped[r]
      BY DEF NetOrigin
  <2>1. CASE x \in net
    BY <1>1, <2>1 DEF Inv, NetOrigin
  <2>2. CASE x = sent /\ p \in RelayNode
    <3>1. [from |-> d.from, to |-> d.to, text |-> d.text] \in posted
      BY <1>1 DEF Inv, NetOrigin
    <3> QED BY <1>1, <1>5, <2>2, <3>1
  <2> QED BY <1>2, <2>1, <2>2
<1>8. CopiesDiffer'
  <2>1. \A x, y \in net : x.kind = "message" /\ y.kind = "message" /\ CopyOf(x) = CopyOf(y) => x = y
    BY DEF Inv, CopiesDiffer
  <2>2. \A x, y \in net' : x.kind = "message" /\ y.kind = "message" /\ CopyOf(x) = CopyOf(y) => x = y
    BY <1>1, <1>2, <1>5, <2>1
  <2>3. \A x \in net' : x.nth <= duplicates'
    BY <1>1, <1>2, <1>5 DEF Inv, CopiesDiffer, counts
  <2> QED BY <2>2, <2>3 DEF CopiesDiffer
<1>10. LearnedFromPeer' /\ RelayKnowsOutside'
  BY <1>1, BooksKept
<1> QED BY <1>6, <1>7, <1>8, <1>10 DEF Inv

(* Hole punches and losses, and steps of nobody.                           *)
LEMMA NetOnlyInv ==
  ASSUME Inv, NEW punches \in SUBSET Punch,
         \A x \in punches : IsPunch(x),
         net' \subseteq net \cup punches,
         UNCHANGED <<outside, meta, dht, contacts, punching, history, posted, counts>>
  PROVE  Inv'
<1>1. net' \subseteq Message \cup Punch /\ NetOrigin' /\ CopiesDiffer'
  BY NetKept DEF counts
<1>2. TypeOK'
  BY <1>1 DEF Inv, TypeOK, counts
<1>3. LearnedFromPeer' /\ RelayKnowsOutside'
  BY BooksKept
<1> QED BY <1>1, <1>2, <1>3 DEF Inv

(* A duplicate is where the datagram is that it repeats.                   *)
LEMMA DuplicateInv ==
  ASSUME Inv, NEW d \in net, Duplicate(d)
  PROVE  Inv'
<1> DEFINE copy == [d EXCEPT !.nth = duplicates + 1]
<1>1. /\ net' = net \cup {copy} /\ duplicates' = duplicates + 1 /\ duplicates \in Nat
      /\ duplicates' \in 0..MaxDuplicates /\ disruptions' \in 0..MaxDisruptions
      /\ UNCHANGED <<outside, meta, dht, contacts, punching, history, posted>>
  BY BoundAssumption DEF Duplicate, Inv, TypeOK
<1>2. d \in Message \cup Punch
  BY DEF Inv, TypeOK
<1>3. /\ copy \in Message \cup Punch /\ copy.kind = d.kind /\ copy.from = d.from
      /\ copy.src = d.src /\ copy.nth = duplicates + 1
      /\ d.kind = "message" => copy.to = d.to /\ copy.text = d.text
  BY <1>1, <1>2 DEF Message, Punch
<1> HIDE DEF copy
<1>4. TypeOK'
  BY <1>1, <1>3 DEF Inv, TypeOK
<1>5. NetOrigin'
  <2> SUFFICES ASSUME NEW x \in net'
               PROVE  /\ x.kind = "punch" => x.src \in Mapped[x.from]
                      /\ x.kind = "message" =>
                           /\ [from |-> x.from, to |-> x.to, text |-> x.text] \in posted'
                           /\ \/ x.src \in Mapped[x.from]
                              \/ \E r \in RelayNode : r # x.to /\ x.src \in Mapped[r]
      BY DEF NetOrigin
  <2>1. CASE x \in net
    BY <1>1, <2>1 DEF Inv, NetOrigin
  <2>2. CASE x = copy
    BY <1>1, <1>3, <2>2 DEF Inv, NetOrigin
  <2> QED BY <1>1, <2>1, <2>2
<1>6. CopiesDiffer'
  <2>1. \A x \in net : x.nth \in Nat /\ x.nth <= duplicates
    BY DatagramShape, BoundAssumption DEF Inv, TypeOK, CopiesDiffer
  <2>2. \A x \in net : CopyOf(x) # CopyOf(copy)
    BY <1>1, <1>3, <2>1 DEF CopyOf
  <2>3. \A x, y \in net' : x.kind = "message" /\ y.kind = "message" /\ CopyOf(x) = CopyOf(y) => x = y
    BY <1>1, <2>2 DEF Inv, CopiesDiffer
  <2>4. \A x \in net' : x.nth <= duplicates'
    BY <1>1, <1>3, <2>1
  <2> QED BY <2>3, <2>4 DEF CopiesDiffer
<1>7. LearnedFromPeer' /\ RelayKnowsOutside'
  BY <1>1, BooksKept
<1> QED BY <1>4, <1>5, <1>6, <1>7 DEF Inv

LEMMA RestartInv ==
  ASSUME Inv, NEW p \in Peer, Restart(p)
  PROVE  Inv'
<1> DEFINE punches == {PunchTo(p, e) : e \in RelayOf(p)}
<1>1. punches \in SUBSET Punch /\ \A x \in punches : IsPunch(x)
  BY RelayOfEndpoint, PunchShape DEF Inv, TypeOK
<1>2. net' \subseteq Message \cup Punch /\ NetOrigin' /\ CopiesDiffer'
  BY <1>1, NetKept DEF Restart
<1>3. /\ \A x, y \in Peer : meta'[x][y] = IF x = p THEN None ELSE meta[x][y]
      /\ \A x, y \in Peer : dht'[x][y] = IF x = p THEN None ELSE dht[x][y]
      /\ \A x \in Peer : punching'[x] = IF x = p THEN RelayOf(x) ELSE punching[x]
  BY DEF Inv, TypeOK, Restart, NoAddress
<1>4. /\ meta' \in [Peer -> [Peer -> Endpoint \cup {None}]]
      /\ dht' \in [Peer -> [Peer -> Endpoint \cup {None}]]
  BY DEF Inv, TypeOK, Restart, NoAddress
<1>5. /\ contacts' \in [Peer -> SUBSET Peer]
      /\ punching' \in [Peer -> SUBSET Endpoint]
      /\ history' \in [Peer -> [Peer -> Seq(Entry)]]
  BY RelayOfEndpoint DEF Inv, TypeOK, Restart, EmptyHistory
<1>6. /\ posted' = posted /\ outside' = outside /\ duplicates' = duplicates
      /\ disruptions' \in 0..MaxDisruptions
  BY BoundAssumption DEF Inv, TypeOK, Restart
<1>7. TypeOK'
  BY <1>2, <1>4, <1>5, <1>6 DEF Inv, TypeOK
<1>9. LearnedFromPeer'
  BY <1>3, <1>6 DEF Inv, LearnedFromPeer
<1>10. RelayKnowsOutside'
  BY <1>3, PeerAssumption DEF Inv, RelayKnowsOutside
<1> QED BY <1>2, <1>7, <1>9, <1>10 DEF Inv

(* A peer that moves keeps what it knows, and what is known of it stays    *)
(* among the endpoints it has had.                                         *)
LEMMA MoveInv ==
  ASSUME Inv, NEW p \in Peer, Move(p)
  PROVE  Inv'
<1>1. UNCHANGED <<meta, dht, contacts, punching, history, net, posted, duplicates>>
  BY DEF Move
<1>2. outside' \in [Peer -> Endpoint] /\ \A q \in Peer : outside'[q] \in Mapped[q]
  <2>1. PICK e \in Mapped[p] : outside' = [outside EXCEPT ![p] = e]
    BY DEF Move
  <2>2. e \in Endpoint
    BY EndpointAssumption
  <2> QED BY <2>1, <2>2 DEF Inv, TypeOK
<1>3. disruptions' \in 0..MaxDisruptions
  BY BoundAssumption DEF Inv, TypeOK, Move
<1>4. TypeOK'
  BY <1>1, <1>2, <1>3 DEF Inv, TypeOK
<1>5. net' \subseteq Message \cup Punch /\ NetOrigin' /\ CopiesDiffer'
  BY <1>1 DEF Inv, TypeOK, NetOrigin, CopiesDiffer
<1>6. LearnedFromPeer' /\ RelayKnowsOutside'
  BY <1>1, BooksKept
<1> QED BY <1>4, <1>5, <1>6 DEF Inv

LEMMA StepInv == Inv /\ [Next]_vars => Inv'
<1> SUFFICES ASSUME Inv, [Next]_vars PROVE Inv'
    OBVIOUS
<1>0. {} \in SUBSET Punch /\ \A x \in {} : IsPunch(x)
  OBVIOUS
<1>1. ASSUME NEW p \in Peer, NEW q \in Peer, DhtFound(p, q) PROVE Inv'
  BY <1>1, DhtFoundInv
<1>2. ASSUME NEW p \in Peer, NEW q \in Peer, NEW t \in Text, SendMessage(p, q, t) PROVE Inv'
  BY <1>2, SendMessageInv
<1>3. ASSUME NEW p \in Peer, NEW d \in net,
             ReceiveMessage(p, d) \/ Forward(p, d) \/ ReceivePunch(p, d)
      PROVE  Inv'
  BY <1>3, ReceiveMessageInv, ForwardInv, ReceivePunchInv
<1>4. ASSUME NEW p \in Peer, NEW e \in Endpoint, HolePunch(p, e) PROVE Inv'
  <2>1. {PunchTo(p, e)} \in SUBSET Punch
        /\ \A x \in {PunchTo(p, e)} : IsPunch(x)
    BY PunchShape DEF Inv, TypeOK
  <2>2. /\ net' \subseteq net \cup {PunchTo(p, e)}
        /\ UNCHANGED <<outside, meta, dht, contacts, punching, history, posted, counts>>
    BY <1>4 DEF HolePunch
  <2> QED BY <2>1, <2>2, NetOnlyInv
<1>5. ASSUME NEW d \in net, Lose(d) PROVE Inv'
  <2>1. /\ net' \subseteq net \cup {}
        /\ UNCHANGED <<outside, meta, dht, contacts, punching, history, posted, counts>>
    BY <1>5 DEF Lose
  <2> QED BY <1>0, <2>1, NetOnlyInv
<1>6. ASSUME NEW p \in Peer, Restart(p) PROVE Inv'
  BY <1>6, RestartInv
<1>7. ASSUME NEW p \in Peer, Move(p) PROVE Inv'
  BY <1>7, MoveInv
<1>8. ASSUME NEW d \in net, Duplicate(d) PROVE Inv'
  BY <1>8, DuplicateInv
<1>9. CASE UNCHANGED vars
  <2>1. /\ net' \subseteq net \cup {}
        /\ UNCHANGED <<outside, meta, dht, contacts, punching, history, posted, counts>>
    BY <1>9 DEF vars
  <2> QED BY <1>0, <2>1, NetOnlyInv
<1> QED BY <1>1, <1>2, <1>3, <1>4, <1>5, <1>6, <1>7, <1>8, <1>9 DEF Next

LEMMA AlwaysInv == Spec => []Inv
BY InitInv, StepInv, PTL DEF Spec

(* Whatever crosses, no endpoint is booked under the wrong contact, and    *)
(* nobody is punched who did not write.                                    *)
THEOREM EndpointsAreLearnedFromPeers == Spec => []LearnedFromPeer
BY AlwaysInv, PTL DEF Inv

(* A lone relay keeps the endpoints its peers' punches come from, although *)
(* it handles messages that declare other ones.                            *)
THEOREM RelayBooksOutside == Spec => []RelayKnowsOutside
BY AlwaysInv, PTL DEF Inv

(* Every variable of the messengers keeps its type.                        *)
THEOREM MessengersKeepTypes == Spec => []TypeOK
BY AlwaysInv, PTL DEF Inv

-----------------------------------------------------------------------------
(* No relay forwards to a relay: also the endpoints inside the messages    *)
(* are plausible ones, and a plausible endpoint of another is no relay's.  *)
LoopInv ==
  /\ \A p, q \in Peer : dht[p][q] \in {None, Declared[q]}
  /\ \A d \in net : d.kind = "message" => d.dest \in Plausible(d.to)
  /\ NoForwardingLoop

LEMMA ApartPlausible ==
  ASSUME RelayApart, NEW r \in RelayNode, NEW q \in Peer, q # r, NEW e \in Plausible(q)
  PROVE  e \notin Mapped[r]
BY DEF RelayApart, Plausible

LEMMA ResolvePlausible ==
  ASSUME Inv, LoopInv, NEW p \in Peer, NEW q \in Peer, Resolve(p, q) # None
  PROVE  Resolve(p, q) \in Plausible(q)
<1>1. CASE meta[p][q] # None
  BY <1>1 DEF Inv, LearnedFromPeer, Resolve
<1>2. CASE meta[p][q] = None
  BY <1>2 DEF LoopInv, Resolve, Plausible
<1> QED BY <1>1, <1>2

LEMMA SendMessageLoop ==
  ASSUME Inv, LoopInv, NEW p \in Peer, NEW q \in Peer, NEW t \in Text, SendMessage(p, q, t)
  PROVE  LoopInv'
<1>1. dht' = dht /\ (Resolve(p, q) # None => Resolve(p, q) \in Plausible(q))
  BY ResolvePlausible DEF SendMessage
<1>2. outside[p] \in Mapped[p]
  BY DEF Inv, TypeOK
<1>3. \A m \in net' \ net :
        /\ Resolve(p, q) # None
        /\ \E way \in Way, e \in RelayOf(p) \cup {Resolve(p, q)} : m = CopyTo(p, q, t, way, e)
  BY DEF SendMessage, RelayCopies, RelayOf, Way
<1>4. ASSUME NEW m \in net' \ net
      PROVE  m.from = p /\ m.to = q /\ m.dest = Resolve(p, q) /\ m.src = outside[p]
  BY <1>3 DEF CopyTo
<1>5. \A m \in net' \ net : \A r \in RelayNode : m.src \in Mapped[r] => m.from = r
  BY <1>2, <1>4, MappedAssumption, PeerAssumption
<1>6. \A d \in net' : d.kind = "message" => d.dest \in Plausible(d.to)
  BY <1>1, <1>3, <1>4 DEF LoopInv
<1> QED BY <1>1, <1>5, <1>6 DEF LoopInv, NoForwardingLoop

LEMMA ForwardLoop ==
  ASSUME Inv, LoopInv, NEW p \in Peer, NEW d \in net, Forward(p, d)
  PROVE  LoopInv'
<1> DEFINE sent == [d EXCEPT !.src = outside[p], !.dst = ForwardTo(p, d)]
<1>1. /\ d.kind = "message" /\ d.to # p /\ dht' = dht
      /\ \/ p \in RelayNode /\ net' \subseteq net \cup {sent}
         \/ net' \subseteq net
  BY DEF Forward, Consume
<1>2. d \in Message /\ d.to \in Peer
  BY <1>1, DatagramShape DEF Inv, TypeOK
<1>3. ForwardTo(p, d) \in Plausible(d.to)
  BY <1>1, <1>2 DEF Inv, LoopInv, LearnedFromPeer, ForwardTo
<1>4. /\ sent.to = d.to /\ sent.dest = d.dest
      /\ sent.src = outside[p] /\ sent.dst = ForwardTo(p, d)
  BY <1>2 DEF Message
<1> HIDE DEF sent
<1>5. ASSUME RelayApart, NEW s \in RelayNode, sent.dst \in Mapped[s]
      PROVE  sent.to = s
  BY <1>2, <1>3, <1>4, <1>5, ApartPlausible
<1> QED BY <1>1, <1>4, <1>5 DEF LoopInv, NoForwardingLoop

(* Steps that send no message: their new datagrams are punches.            *)
LEMMA NoMessageLoop ==
  ASSUME LoopInv, \A d \in net' : d.kind = "message" => d \in net,
         \A p, q \in Peer : dht'[p][q] \in {dht[p][q], None, Declared[q]}
  PROVE  LoopInv'
BY DEF LoopInv, NoForwardingLoop

LEMMA LoopStep == Inv /\ LoopInv /\ [Next]_vars => LoopInv'
<1> SUFFICES ASSUME Inv, LoopInv, [Next]_vars PROVE LoopInv'
    OBVIOUS
<1>0. \A p \in Peer : \A e : PunchTo(p, e).kind = "punch"
  BY DEF PunchTo
<1>1. ASSUME NEW p \in Peer, NEW q \in Peer, DhtFound(p, q) PROVE LoopInv'
  <2>1. \A x, y \in Peer : dht'[x][y] \in {dht[x][y], Declared[y]}
    BY <1>1 DEF DhtFound, Inv, TypeOK
  <2> QED BY <1>1, <2>1, NoMessageLoop DEF DhtFound
<1>2. ASSUME NEW p \in Peer, NEW q \in Peer, NEW t \in Text, SendMessage(p, q, t)
      PROVE  LoopInv'
  BY <1>2, SendMessageLoop
<1>3. ASSUME NEW p \in Peer, NEW d \in net, ReceiveMessage(p, d) PROVE LoopInv'
  <2>1. (\A x \in net' : x.kind = "message" => x \in net) /\ dht' = dht
    BY <1>0, <1>3 DEF ReceiveMessage, Consume
  <2> QED BY <2>1, NoMessageLoop
<1>4. ASSUME NEW p \in Peer, NEW d \in net, Forward(p, d) PROVE LoopInv'
  BY <1>4, ForwardLoop
<1>5. ASSUME NEW d \in net, Lose(d) \/ \E p \in Peer : ReceivePunch(p, d) PROVE LoopInv'
  <2>1. net' \subseteq net /\ dht' = dht
    BY <1>5 DEF ReceivePunch, Consume, Lose
  <2> QED BY <2>1, NoMessageLoop
<1>6. ASSUME NEW p \in Peer, NEW e \in Endpoint, HolePunch(p, e) PROVE LoopInv'
  <2>1. (\A x \in net' : x.kind = "message" => x \in net) /\ dht' = dht
    BY <1>0, <1>6 DEF HolePunch
  <2> QED BY <2>1, NoMessageLoop
<1>7. ASSUME NEW p \in Peer, Restart(p) PROVE LoopInv'
  <2>1. \A x \in net' : x.kind = "message" => x \in net
    BY <1>0, <1>7 DEF Restart
  <2>2. \A x, y \in Peer : dht'[x][y] \in {dht[x][y], None}
    BY <1>7 DEF Restart, NoAddress, Inv, TypeOK
  <2> QED BY <2>1, <2>2, NoMessageLoop
<1>8. ASSUME NEW p \in Peer, Move(p) PROVE LoopInv'
  <2>1. net' \subseteq net /\ dht' = dht
    BY <1>8 DEF Move
  <2> QED BY <2>1, NoMessageLoop
<1>9. ASSUME NEW d \in net, Duplicate(d) PROVE LoopInv'
  <2> DEFINE copy == [d EXCEPT !.nth = duplicates + 1]
  <2>1. net' = net \cup {copy} /\ dht' = dht
    BY <1>9 DEF Duplicate
  <2>2. d \in Message \cup Punch
    BY DEF Inv, TypeOK
  <2>3. /\ copy.kind = d.kind
        /\ d.kind = "message" => /\ copy.from = d.from /\ copy.to = d.to /\ copy.dest = d.dest
                                 /\ copy.src = d.src /\ copy.dst = d.dst
    BY <2>2 DEF Message, Punch
  <2> HIDE DEF copy
  <2> QED BY <2>1, <2>3 DEF LoopInv, NoForwardingLoop
<1>10. CASE UNCHANGED vars
  <2>1. net' \subseteq net /\ dht' = dht
    BY <1>10 DEF vars
  <2> QED BY <2>1, NoMessageLoop
<1> QED BY <1>1, <1>2, <1>3, <1>4, <1>5, <1>6, <1>7, <1>8, <1>9, <1>10 DEF Next

(* Whatever the relays learn, one never forwards to another or to itself   *)
(* what is for someone else: a message is passed on at most once.          *)
THEOREM MessagesArePassedOnOnce == Spec => []NoForwardingLoop
<1>1. Init => LoopInv
  <2>1. Init => \A d \in net : d.kind = "punch"
    BY DEF Init, PunchTo
  <2> QED BY <2>1 DEF Init, LoopInv, NoForwardingLoop, NoAddress
<1>2. LoopInv => NoForwardingLoop
  BY DEF LoopInv
<1> QED BY <1>1, <1>2, LoopStep, AlwaysInv, PTL DEF Spec

-----------------------------------------------------------------------------
(* The refinement: how the copies under way change with the network.       *)
LEMMA PendingFrom ==
  \A c : c \in Pending <=> \E d \in net : d.kind = "message" /\ c = CopyOf(d)
BY DEF Pending

LEMMA PendingKept ==
  ASSUME \A d : d.kind = "message" => (d \in net' <=> d \in net)
  PROVE  Pending' = Pending
BY DEF Pending, CopyOf

LEMMA PendingConsumed ==
  ASSUME Inv, NEW d \in net, d.kind = "message",
         \A e : e.kind = "message" => (e \in net' <=> e \in net /\ e # d)
  PROVE  CopyOf(d) \in Pending /\ Pending' = Pending \ {CopyOf(d)}
<1>1. \A e \in net : e.kind = "message" /\ CopyOf(e) = CopyOf(d) => e = d
  BY DEF Inv, CopiesDiffer
<1>2. \A e \in net' : e.kind = "message" => e \in net /\ e # d
  OBVIOUS
<1>3. \A e \in net : e.kind = "message" /\ e # d => e \in net'
  OBVIOUS
<1>4. \A c : c \in Pending' <=> \E e \in net' : e.kind = "message" /\ c = CopyOf(e)
  BY DEF Pending, CopyOf
<1>5. \A c : c \in Pending' <=> c \in Pending /\ c # CopyOf(d)
  <2>1. ASSUME NEW c \in Pending' PROVE c \in Pending /\ c # CopyOf(d)
    BY <1>1, <1>2, <1>4, <2>1, PendingFrom
  <2>2. ASSUME NEW c \in Pending, c # CopyOf(d) PROVE c \in Pending'
    BY <1>3, <1>4, <2>2, PendingFrom
  <2> QED BY <2>1, <2>2
<1> QED BY <1>5, PendingFrom

(* Init is the abstract initial state: only punches are under way.         *)
LEMMA InitRefines == Init => Letters!Init
<1> SUFFICES ASSUME Init PROVE Letters!Init
    OBVIOUS
<1>1. \A d \in net : d.kind = "punch"
  BY DEF Init, PunchTo
<1>2. Pending = {}
  BY <1>1 DEF Pending
<1> QED BY <1>2 DEF Init, Letters!Init, EmptyHistory, Letters!EmptyLog

(* Sending is Post, with the ways on which a copy has left.                *)
LEMMA SendMessageRefines ==
  ASSUME Inv, NEW p \in Peer, NEW q \in Peer, NEW t \in Text, SendMessage(p, q, t)
  PROVE  Letters!Next
<1> DEFINE direct == CopyTo(p, q, t, "direct", Resolve(p, q))
           relayed == RelayCopies(p, q, t)
           copy(w) == [from |-> p, to |-> q, text |-> t, way |-> w, nth |-> 0]
<1>1. /\ \A l \in posted : l.text # t
      /\ posted' = posted \cup {[from |-> p, to |-> q, text |-> t]}
      /\ duplicates' = duplicates
  BY DEF SendMessage, counts
<1>2. Resolve(p, q) # None => direct.kind = "message" /\ CopyOf(direct) = copy("direct")
  BY ResolveType, CopyShape DEF Inv, Way
<1>3. Resolve(p, q) # None =>
        \A m \in relayed : m.kind = "message" /\ CopyOf(m) = copy("relay")
  BY RelayOfEndpoint, CopyShape DEF Way, RelayCopies
<1>4. ASSUME NEW new, net' = net \cup new, NEW ways \in SUBSET Way,
             \A m \in new : m.kind = "message" /\ \E w \in ways : CopyOf(m) = copy(w),
             \A w \in ways : \E m \in new : CopyOf(m) = copy(w)
      PROVE  Pending' = Pending \cup {copy(w) : w \in ways}
  <2>1. \A c : c \in Pending' <=> \E d \in net' : d.kind = "message" /\ c = CopyOf(d)
    BY DEF Pending, CopyOf
  <2>2. \A c : c \in Pending' <=>
                 c \in Pending \/ \E m \in new : m.kind = "message" /\ c = CopyOf(m)
    BY <1>4, <2>1, PendingFrom
  <2>3. \A c : (\E m \in new : m.kind = "message" /\ c = CopyOf(m)) <=> \E w \in ways : c = copy(w)
    BY <1>4
  <2> QED BY <2>2, <2>3
<1>5. ASSUME NEW ways \in SUBSET Way, Pending' = Pending \cup {copy(w) : w \in ways},
             \/ ways # {} /\ Record(p, q, p, t, "own", 0)
             \/ UNCHANGED history
      PROVE  Letters!Next
  BY <1>1, <1>5 DEF Letters!Next, Letters!Post, Letters!Record, Letters!Way, Record, Way
<1>6. ASSUME Resolve(p, q) # None, net' = net \cup {direct}
      PROVE  {"direct"} \in SUBSET Way /\ Pending' = Pending \cup {copy(w) : w \in {"direct"}}
  <2> DEFINE new == {direct}
             ways == {"direct"}
  <2>1. net' = net \cup new /\ ways \in SUBSET Way
    BY <1>6 DEF Way
  <2>2. /\ \A m \in new : m.kind = "message" /\ \E w \in ways : CopyOf(m) = copy(w)
        /\ \A w \in ways : \E m \in new : CopyOf(m) = copy(w)
    BY <1>2, <1>6
  <2> HIDE DEF new, ways
  <2>3. Pending' = Pending \cup {copy(w) : w \in ways}
    BY <1>4, <2>1, <2>2
  <2> QED BY <2>1, <2>3 DEF ways
<1>7. CASE /\ Resolve(p, q) # None
           /\ net' = net \cup {direct} \cup relayed /\ Record(p, q, p, t, "own", 0)
  <2>1. CASE relayed = {}
    <3>1. net' = net \cup {direct}
      BY <1>7, <2>1
    <3> QED BY <1>5, <1>6, <1>7, <3>1
  <2>2. CASE relayed # {}
    <3>1. /\ net' = net \cup ({direct} \cup relayed)
          /\ \A m \in {direct} \cup relayed :
               m.kind = "message" /\ \E w \in Way : CopyOf(m) = copy(w)
          /\ \A w \in Way : \E m \in {direct} \cup relayed : CopyOf(m) = copy(w)
      BY <1>2, <1>3, <1>7, <2>2 DEF Way
    <3>2. Pending' = Pending \cup {copy(w) : w \in Way}
      BY <1>4, <3>1
    <3> QED BY <1>5, <1>7, <3>2 DEF Way
  <2> QED BY <2>1, <2>2
<1>8. CASE Resolve(p, q) # None /\ net' = net \cup {direct} /\ UNCHANGED history
  BY <1>5, <1>6, <1>8
<1>9. CASE UNCHANGED <<net, history>>
  <2>1. {} \in SUBSET Way /\ Pending' = Pending \cup {copy(w) : w \in {}}
    BY <1>9, PendingKept
  <2> QED BY <1>5, <1>9, <2>1
<1> QED BY <1>7, <1>8, <1>9 DEF SendMessage

(* Receiving is Deliver, or Drop when punching throws.                     *)
LEMMA ReceiveMessageRefines ==
  ASSUME Inv, NEW p \in Peer, NEW d \in net, ReceiveMessage(p, d)
  PROVE  Letters!Next
<1> DEFINE c == CopyOf(d)
<1>1. d.kind = "message" /\ d.to = p /\ posted' = posted /\ duplicates' = duplicates
  BY DEF ReceiveMessage, counts
<1>2. /\ c.to = p /\ c.from = d.from
      /\ c.text = d.text /\ c.way = d.way /\ c.nth = d.nth
  BY <1>1 DEF CopyOf
<1>3. c \in Pending /\ Pending' = Pending \ {c}
  <2>1. PunchTo(p, Learned(d)).kind = "punch"
    BY DEF PunchTo
  <2>2. \A e : e.kind = "message" => (e \in net' <=> e \in net /\ e # d)
    BY <2>1 DEF ReceiveMessage, Consume
  <2> QED BY <1>1, <2>1, <2>2, PendingConsumed
<1> HIDE DEF c
<1>4. CASE Record(p, d.from, d.from, d.text, d.way, d.nth)
  <2>1. Letters!Deliver(c)
    BY <1>1, <1>2, <1>3, <1>4 DEF Letters!Deliver, Letters!Record, Record
  <2> QED BY <1>3, <2>1 DEF Letters!Next
<1>5. CASE UNCHANGED history
  <2>1. Letters!Drop(c)
    BY <1>1, <1>3, <1>5 DEF Letters!Drop
  <2> QED BY <1>3, <2>1 DEF Letters!Next
<1> QED BY <1>4, <1>5 DEF ReceiveMessage

(* A relay passes the copy on, which nobody notices, or drops it.          *)
LEMMA ForwardRefines ==
  ASSUME Inv, NEW p \in Peer, NEW d \in net, Forward(p, d)
  PROVE  Letters!Next \/ UNCHANGED Letters!vars
<1> DEFINE sent == [d EXCEPT !.src = outside[p], !.dst = ForwardTo(p, d)]
<1>1. /\ d.kind = "message" /\ history' = history /\ posted' = posted
      /\ duplicates' = duplicates
  BY DEF Forward, counts
<1>2. CASE net' = net \ {d}
  <2>1. CopyOf(d) \in Pending /\ Pending' = Pending \ {CopyOf(d)}
    BY <1>1, <1>2, PendingConsumed
  <2>2. Letters!Drop(CopyOf(d))
    BY <1>1, <2>1 DEF Letters!Drop
  <2> QED BY <2>1, <2>2 DEF Letters!Next
<1>3. CASE net' = (net \ {d}) \cup {sent}
  <2>1. d \in Message
    BY <1>1, DatagramShape DEF Inv, TypeOK
  <2>2. sent.kind = "message" /\ CopyOf(sent) = CopyOf(d)
    BY <2>1 DEF Message, CopyOf
  <2> HIDE DEF sent
  <2>3. \A c : c \in Pending' <=> \E e \in net' : e.kind = "message" /\ c = CopyOf(e)
    BY DEF Pending, CopyOf
  <2>4. \A c : c \in Pending' <=> c \in Pending
    BY <1>1, <1>3, <2>2, <2>3, PendingFrom
  <2>5. Pending' = Pending
    BY <2>4 DEF Pending
  <2> QED BY <1>1, <2>5 DEF Letters!vars
<1> QED BY <1>2, <1>3 DEF Forward, Consume

LEMMA LoseRefines ==
  ASSUME Inv, NEW d \in net, Lose(d)
  PROVE  Letters!Next \/ UNCHANGED Letters!vars
<1>1. /\ net' = net \ {d} /\ history' = history /\ posted' = posted
      /\ duplicates' = duplicates
  BY DEF Lose, counts
<1>2. CASE d.kind = "message"
  <2>1. CopyOf(d) \in Pending /\ Pending' = Pending \ {CopyOf(d)}
    BY <1>1, <1>2, PendingConsumed
  <2>2. Letters!Drop(CopyOf(d))
    BY <1>1, <2>1 DEF Letters!Drop
  <2> QED BY <2>1, <2>2 DEF Letters!Next
<1>3. CASE d.kind # "message"
  <2>1. Pending' = Pending
    BY <1>1, <1>3, PendingKept
  <2> QED BY <1>1, <2>1 DEF Letters!vars
<1> QED BY <1>2, <1>3

(* A duplicated message is a duplicated copy, a duplicated punch is not    *)
(* seen there.                                                             *)
LEMMA DuplicateRefines ==
  ASSUME Inv, NEW d \in net, Duplicate(d)
  PROVE  Letters!Next
<1> DEFINE again == [d EXCEPT !.nth = duplicates + 1]
           copy == [CopyOf(d) EXCEPT !.nth = duplicates + 1]
<1>1. /\ net' = net \cup {again} /\ history' = history /\ posted' = posted
      /\ duplicates < MaxDuplicates /\ duplicates' = duplicates + 1
  BY DEF Duplicate
<1>2. d \in Message \cup Punch
  BY DEF Inv, TypeOK
<1>3. again.kind = d.kind
  BY <1>2 DEF Message, Punch
<1>4. CASE d.kind = "message"
  <2>1. CopyOf(again) = copy
    BY <1>2, <1>4 DEF Message, Punch, CopyOf
  <2> HIDE DEF again, copy
  <2>2. \A c : c \in Pending' <=> \E e \in net' : e.kind = "message" /\ c = CopyOf(e)
    BY DEF Pending, CopyOf
  <2>3. \A c : c \in Pending' <=> c \in Pending \/ c = copy
    BY <1>1, <1>3, <1>4, <2>1, <2>2, PendingFrom
  <2>4. CopyOf(d) \in Pending /\ Pending' = Pending \cup {copy}
    BY <1>4, <2>3, PendingFrom
  <2>5. Letters!Duplicate(CopyOf(d))
    BY <1>1, <2>4 DEF Letters!Duplicate, copy
  <2> QED BY <2>4, <2>5 DEF Letters!Next
<1>5. CASE d.kind # "message"
  <2> HIDE DEF again
  <2>1. Pending' = Pending
    BY <1>1, <1>3, <1>5, PendingKept
  <2>2. Letters!DuplicateOther
    BY <1>1, <2>1 DEF Letters!DuplicateOther
  <2> QED BY <2>2 DEF Letters!Next
<1> QED BY <1>4, <1>5

LEMMA RestartRefines ==
  ASSUME Inv, NEW p \in Peer, Restart(p)
  PROVE  Letters!Next
<1>1. \A d : d.kind = "message" => (d \in net' <=> d \in net)
  BY DEF Restart, PunchTo
<1>2. Pending' = Pending
  BY <1>1, PendingKept
<1>3. Letters!Forget(p)
  BY <1>2 DEF Letters!Forget, Letters!EmptyLog, EmptyHistory, Restart
<1> QED BY <1>3 DEF Letters!Next

LEMMA StepRefines == Inv /\ [Next]_vars => [Letters!Next]_(Letters!vars)
<1> SUFFICES ASSUME Inv, [Next]_vars PROVE Letters!Next \/ UNCHANGED Letters!vars
    OBVIOUS
<1>1. ASSUME NEW p \in Peer, NEW q \in Peer, DhtFound(p, q) PROVE UNCHANGED Letters!vars
  BY <1>1, PendingKept DEF DhtFound, counts, Letters!vars
<1>2. ASSUME NEW p \in Peer, NEW q \in Peer, NEW t \in Text, SendMessage(p, q, t)
      PROVE  Letters!Next
  BY <1>2, SendMessageRefines
<1>3. ASSUME NEW p \in Peer, NEW d \in net, ReceiveMessage(p, d) PROVE Letters!Next
  BY <1>3, ReceiveMessageRefines
<1>4. ASSUME NEW p \in Peer, NEW d \in net, Forward(p, d)
      PROVE  Letters!Next \/ UNCHANGED Letters!vars
  BY <1>4, ForwardRefines
<1>5. ASSUME NEW p \in Peer, NEW d \in net, ReceivePunch(p, d) PROVE UNCHANGED Letters!vars
  <2>1. /\ d.kind = "punch" /\ net' = net \ {d} /\ history' = history /\ posted' = posted
        /\ duplicates' = duplicates
    BY <1>5 DEF ReceivePunch, Consume, counts
  <2> QED BY <2>1, PendingKept DEF Letters!vars
<1>6. ASSUME NEW p \in Peer, NEW e \in Endpoint, HolePunch(p, e) PROVE UNCHANGED Letters!vars
  <2>1. PunchTo(p, e).kind = "punch"
    BY DEF PunchTo
  <2>2. /\ net' = net \cup {PunchTo(p, e)} /\ history' = history /\ posted' = posted
        /\ duplicates' = duplicates
    BY <1>6 DEF HolePunch, counts
  <2> QED BY <2>1, <2>2, PendingKept DEF Letters!vars
<1>7. ASSUME NEW d \in net, Lose(d) PROVE Letters!Next \/ UNCHANGED Letters!vars
  BY <1>7, LoseRefines
<1>8. ASSUME NEW p \in Peer, Restart(p) PROVE Letters!Next
  BY <1>8, RestartRefines
<1>9. ASSUME NEW p \in Peer, Move(p) PROVE UNCHANGED Letters!vars
  BY <1>9, PendingKept DEF Move, Letters!vars
<1>10. ASSUME NEW d \in net, Duplicate(d) PROVE Letters!Next
  BY <1>10, DuplicateRefines
<1>11. CASE UNCHANGED vars
  BY <1>11, PendingKept DEF vars, counts, Letters!vars
<1> QED BY <1>1, <1>2, <1>3, <1>4, <1>5, <1>6, <1>7, <1>8, <1>9, <1>10, <1>11 DEF Next

(* The messengers implement Delivery: whatever is learned, relayed, lost,  *)
(* doubled or forgotten, the histories are as authentic, and as free of    *)
(* repeats, as HistoriesAreAuthentic and RecordedOncePerCopy prove there.  *)
THEOREM MessengersDeliver == Spec => ImplementsDelivery
<1>1. Inv /\ [Next]_vars => [Letters!Next]_(Letters!vars)
  BY StepRefines
<1>2. Init => Letters!Init
  BY InitRefines
<1> QED BY <1>1, <1>2, AlwaysInv, PTL DEF Spec, ImplementsDelivery, Letters!Spec
=============================================================================
