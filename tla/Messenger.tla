------------------------------- MODULE Messenger -------------------------------
(***************************************************************************)
(* Several P2PMessengerImpl over UDP: who learns which endpoint of whom,   *)
(* and which messages reach whose history.  A peer stands for a login and  *)
(* a key pair.  Handlers are atomic here; AddressBook opens them up.       *)
(***************************************************************************)
EXTENDS Naturals, Sequences, FiniteSets

CONSTANTS
  Peer, Text,
  User,          \* the peers whose users search for contacts and write
  RelayNode,     \* the peers that logged in with "serve as relay"
  RelayAddress,  \* peer -> endpoint of its relay node, or None
  Endpoint, None,
  IpOf,          \* endpoint -> the ip in it
  Declared,      \* peer -> my_ip:my_port, put on the DHT and into messages
  Mapped,        \* peer -> the endpoints its datagrams may be seen to come from
  MaxNet,        \* bound: messages in flight
  MaxDuplicates, \* bound: datagrams the network delivers once more
  MaxDisruptions \* bound: sessions ended, endpoints changed, and duplicates

ASSUME PeerAssumption == User \subseteq Peer /\ RelayNode \subseteq Peer
ASSUME EndpointAssumption ==
  /\ Declared \in [Peer -> Endpoint]
  /\ Mapped \in [Peer -> SUBSET Endpoint]
  /\ RelayAddress \in [Peer -> Endpoint \cup {None}]
  /\ None \notin Endpoint
ASSUME MappedAssumption == \A p, q \in Peer : Mapped[p] \cap Mapped[q] # {} => p = q
ASSUME BoundAssumption ==
  MaxNet \in Nat /\ MaxDuplicates \in Nat /\ MaxDisruptions \in Nat

VARIABLES
  outside,   \* where the datagrams of each peer are seen to come from now
  meta,      \* MetadataIpResolver of each peer: contact -> endpoint or None
  dht,       \* DhtIpResolver of each peer: contact -> endpoint or None
  contacts,  \* the contacts list of each peer
  punching,  \* the endpoints each peer sends hole punches to every 10 s
  history,   \* ChatHistory of each peer
  net,       \* datagrams in flight
  posted,    \* history variable: the letters written
  duplicates,
  disruptions

counts == <<duplicates, disruptions>>
vars == <<outside, meta, dht, contacts, punching, history, net, posted, counts>>

Way == {"direct", "relay"}
Entry == [author : Peer, text : Text, via : Way \cup {"own"}, nth : 0..MaxDuplicates]
Letter == [from : Peer, to : Peer, text : Text]

(* "src" is the remote_endpoint the receiver sees, "dst" where it is sent, *)
(* "dest" the destination_ip and destination_port inside the message.      *)
(* Two history fields: "way" is the direct copy or the one for the relay,  *)
(* "nth" is 0, or the number of the duplicate that the network made.       *)
Message == [kind : {"message"}, from : Peer, to : Peer, text : Text, way : Way,
            dest : Endpoint, src : Endpoint, dst : Endpoint, nth : 0..MaxDuplicates]
Punch == [kind : {"punch"}, from : Peer, src : Endpoint, dst : Endpoint,
          nth : 0..MaxDuplicates]

PunchTo(p, e) == [kind |-> "punch", from |-> p, src |-> outside[p], dst |-> e, nth |-> 0]

NoAddress == [q \in Peer |-> None]
EmptyHistory == [q \in Peer |-> <<>>]

(* Mutant (a definition of this name shows what a property would notice):  *)
(* the constructor does not start punching, nor the sender copy.           *)
RelayForgottenMutant(p) == {}

RelayOf(p) == {RelayAddress[p]} \ {None}

(* The constructor starts punching towards the relay node.                 *)
Init ==
  /\ outside \in {o \in [Peer -> Endpoint] : \A p \in Peer : o[p] \in Mapped[p]}
  /\ meta = [p \in Peer |-> NoAddress]
  /\ dht = [p \in Peer |-> NoAddress]
  /\ contacts = [p \in Peer |-> {}]
  /\ punching = [p \in Peer |-> RelayOf(p)]
  /\ history = [p \in Peer |-> EmptyHistory]
  /\ net = UNION {{PunchTo(p, e) : e \in RelayOf(p)} : p \in Peer}
  /\ posted = {}
  /\ duplicates = 0
  /\ disruptions = 0

(* Bound.  Punches need none: equal ones in flight are one element of net. *)
RoomInNet == Cardinality({d \in net' : d.kind = "message"}) <= MaxNet

-----------------------------------------------------------------------------
(* The listen callback delivers the signed value q has put on the DHT.     *)
(* Every peer finds at least itself, but only who writes looks into dht.   *)
DhtFound(p, q) ==
  /\ p \in User
  /\ dht' = [dht EXCEPT ![p][q] = Declared[q]]
  /\ contacts' = [contacts EXCEPT ![p] = @ \cup {q}]
  /\ UNCHANGED <<outside, meta, punching, history, net, posted, counts>>

Resolve(p, q) == IF meta[p][q] # None THEN meta[p][q] ELSE dht[p][q]

(* Mutant: login and message, both strings, change places.                 *)
RecordSwappedMutant(p, q, author, text, via, nth) ==
  history' = [history EXCEPT ![p][q] =
                Append(@, [author |-> text, text |-> author, via |-> via, nth |-> nth])]

Record(p, q, author, text, via, nth) ==
  history' = [history EXCEPT ![p][q] =
                Append(@, [author |-> author, text |-> text, via |-> via, nth |-> nth])]

(* The copies MessageSender::send_message sends of one message: one to the *)
(* destination, one to the relay node unless their ips are equal.          *)
CopyTo(p, q, t, way, e) ==
  [kind |-> "message", from |-> p, to |-> q, text |-> t, way |-> way,
   dest |-> Resolve(p, q), src |-> outside[p], dst |-> e, nth |-> 0]

RelayCopies(p, q, t) ==
  {CopyTo(p, q, t, "relay", r) : r \in {r \in RelayOf(p) : IpOf[r] # IpOf[Resolve(p, q)]}}

(* Without an address nothing is sent.  Any of the two sends may throw;    *)
(* only if none does is the message recorded, and then one copy or two     *)
(* have left.                                                              *)
SendMessage(p, q, t) ==
  LET direct == CopyTo(p, q, t, "direct", Resolve(p, q))
      relayed == RelayCopies(p, q, t)
  IN  /\ p \in User /\ q \in contacts[p]
      /\ \A l \in posted : l.text # t
      /\ posted' = posted \cup {[from |-> p, to |-> q, text |-> t]}
      /\ \/ /\ Resolve(p, q) # None
            /\ net' = net \cup {direct} \cup relayed /\ Record(p, q, p, t, "own", 0)
         \/ /\ Resolve(p, q) # None
            /\ relayed # {} /\ net' = net \cup {direct} /\ UNCHANGED history
         \/ UNCHANGED <<net, history>>
      /\ RoomInNet
      /\ UNCHANGED <<outside, meta, dht, contacts, punching, counts>>

-----------------------------------------------------------------------------
(* MessageReceiver::async_wait_handler at p, for a datagram d.             *)

Arrives(p, d) == d \in net /\ d.dst = outside[p]

(* Mutant: the datagram is looked at and left in the socket.               *)
ConsumePeekMutant(d, sent) == net' = net \cup sent

(* d leaves the network, and "sent" enters it.                             *)
Consume(d, sent) == net' = (net \ {d}) \cup sent

(* Mutants: always the remote endpoint; always the declared one.           *)
LearnedRemoteMutant(d) == d.src
LearnedDeclaredMutant(d) == Declared[d.from]

(* The remote endpoint if its ip is the one the sender declares, else the  *)
(* declared endpoint.                                                      *)
Learned(d) == IF IpOf[Declared[d.from]] = IpOf[d.src] THEN d.src ELSE Declared[d.from]

(* A message for p.  Starting to punch may throw after the put: then the   *)
(* message is lost although its sender's endpoint has been stored.         *)
ReceiveMessage(p, d) ==
  /\ Arrives(p, d) /\ d.kind = "message" /\ d.to = p
  /\ meta' = [meta EXCEPT ![p][d.from] = Learned(d)]
  /\ \/ /\ punching' = [punching EXCEPT ![p] = @ \cup {Learned(d)}]
        /\ Consume(d, {PunchTo(p, Learned(d))})
        /\ Record(p, d.from, d.from, d.text, d.way, d.nth)
        /\ contacts' = [contacts EXCEPT ![p] = @ \cup {d.from}]
     \/ Consume(d, {}) /\ UNCHANGED <<punching, history, contacts>>
  /\ RoomInNet
  /\ UNCHANGED <<outside, dht, posted, counts>>

(* Mutant: falls back on where the datagram was sent, the relay itself.    *)
ForwardToSelfMutant(p, d) == IF meta[p][d.to] # None THEN meta[p][d.to] ELSE d.dst

(* Someone else's message: a relay sends the same buffer on, to the        *)
(* endpoint it has learned or else to the one inside the message.          *)
ForwardTo(p, d) == IF meta[p][d.to] # None THEN meta[p][d.to] ELSE d.dest

Forward(p, d) ==
  /\ Arrives(p, d) /\ d.kind = "message" /\ d.to # p
  /\ \/ p \in RelayNode /\ Consume(d, {[d EXCEPT !.src = outside[p], !.dst = ForwardTo(p, d)]})
     \/ Consume(d, {})
  /\ RoomInNet
  /\ UNCHANGED <<outside, meta, dht, contacts, punching, history, posted, counts>>

(* Mutant: std::map::insert, which keeps what is there.                    *)
InsertOnceMutant(p, d) ==
  /\ Arrives(p, d) /\ d.kind = "punch"
  /\ meta' = [meta EXCEPT ![p][d.from] = IF @ = None THEN d.src ELSE @]
  /\ Consume(d, {})
  /\ UNCHANGED <<outside, dht, contacts, punching, history, posted, counts>>

ReceivePunch(p, d) ==
  /\ Arrives(p, d) /\ d.kind = "punch"
  /\ meta' = [meta EXCEPT ![p][d.from] = d.src]
  /\ Consume(d, {})
  /\ UNCHANGED <<outside, dht, contacts, punching, history, posted, counts>>

(* UdpHolePuncher::hole_punch, again and again.                            *)
HolePunch(p, e) ==
  /\ e \in punching[p]
  /\ net' = net \cup {PunchTo(p, e)}
  /\ UNCHANGED <<outside, meta, dht, contacts, punching, history, posted, counts>>

-----------------------------------------------------------------------------
(* The network loses what it likes, above all what nobody listens for.     *)
Lose(d) ==
  /\ d \in net
  /\ net' = net \ {d}
  /\ UNCHANGED <<outside, meta, dht, contacts, punching, history, posted, counts>>

(* UDP may deliver a datagram once more, at any later time.                *)
Duplicate(d) ==
  /\ d \in net
  /\ duplicates < MaxDuplicates /\ disruptions < MaxDisruptions
  /\ duplicates' = duplicates + 1 /\ disruptions' = disruptions + 1
  /\ net' = net \cup {[d EXCEPT !.nth = duplicates + 1]}
  /\ RoomInNet
  /\ UNCHANGED <<outside, meta, dht, contacts, punching, history, posted>>

(* Logout or crash, and login with the same identity file.  Signals of the *)
(* ended session that are handled after the contacts list was cleared list *)
(* their contacts again, which the new resolvers do not know.              *)
Restart(p) ==
  /\ disruptions < MaxDisruptions
  /\ disruptions' = disruptions + 1
  /\ meta' = [meta EXCEPT ![p] = NoAddress]
  /\ dht' = [dht EXCEPT ![p] = NoAddress]
  /\ \E left \in SUBSET contacts[p] : contacts' = [contacts EXCEPT ![p] = left]
  /\ punching' = [punching EXCEPT ![p] = RelayOf(p)]
  /\ history' = [history EXCEPT ![p] = EmptyHistory]
  /\ net' = net \cup {PunchTo(p, e) : e \in RelayOf(p)}
  /\ UNCHANGED <<outside, posted, duplicates>>

(* Address translation gives p another endpoint: its router restarts, or   *)
(* the mapping expires.  The session goes on and knows nothing of it.      *)
Move(p) ==
  /\ disruptions < MaxDisruptions
  /\ disruptions' = disruptions + 1
  /\ \E e \in Mapped[p] \ {outside[p]} : outside' = [outside EXCEPT ![p] = e]
  /\ UNCHANGED <<meta, dht, contacts, punching, history, net, posted, duplicates>>

Next ==
  \/ \E p, q \in Peer : DhtFound(p, q)
  \/ \E p, q \in Peer, t \in Text : SendMessage(p, q, t)
  \/ \E p \in Peer, d \in net : ReceiveMessage(p, d) \/ Forward(p, d) \/ ReceivePunch(p, d)
  \/ \E p \in Peer, e \in Endpoint : HolePunch(p, e)
  \/ \E d \in net : Lose(d) \/ Duplicate(d)
  \/ \E p \in Peer : Restart(p) \/ Move(p)

Spec == Init /\ [][Next]_vars

(* A punch timer that fires runs: the io_context has threads of its own.   *)
(* The path from one peer to another loses datagrams, but not all of them; *)
(* only paths to peers that write and to relays matter below.              *)
ReceivePunchFrom(p, q) == \E d \in net : d.from = p /\ ReceivePunch(q, d)

FairSpec ==
  /\ Spec
  /\ \A p \in Peer : \A q \in (User \cup RelayNode) \ {p} :
       WF_vars(HolePunch(p, outside[q])) /\ SF_vars(ReceivePunchFrom(p, q))

-----------------------------------------------------------------------------
TypeOK ==
  /\ outside \in [Peer -> Endpoint] /\ \A p \in Peer : outside[p] \in Mapped[p]
  /\ meta \in [Peer -> [Peer -> Endpoint \cup {None}]]
  /\ dht \in [Peer -> [Peer -> Endpoint \cup {None}]]
  /\ contacts \in [Peer -> SUBSET Peer]
  /\ punching \in [Peer -> SUBSET Endpoint]
  /\ history \in [Peer -> [Peer -> Seq(Entry)]]
  /\ net \subseteq Message \cup Punch
  /\ posted \subseteq Letter
  /\ duplicates \in 0..MaxDuplicates
  /\ disruptions \in 0..MaxDisruptions

(* Every history is one the abstract Delivery allows.                      *)
CopyOf(d) ==
  [from |-> d.from, to |-> d.to, text |-> d.text, way |-> d.way, nth |-> d.nth]
Pending == {CopyOf(d) : d \in {m \in net : m.kind = "message"}}
Letters == INSTANCE Delivery WITH log <- history, pending <- Pending
ImplementsDelivery == Letters!Spec

(* The endpoints that may be taken for q's: the one it declares, those it  *)
(* has had, and - because only ips are compared - of a relay with its ip.  *)
Plausible(q) ==
  {Declared[q]} \cup Mapped[q]
  \cup {e \in UNION {Mapped[r] : r \in RelayNode} : IpOf[e] = IpOf[Declared[q]]}

(* However messages, relayed messages and hole punches of several peers    *)
(* cross, an endpoint is never booked under the wrong contact, and a peer  *)
(* only punches towards its relay and towards peers that wrote to it.      *)
LearnedFromPeer ==
  \A p \in Peer :
    /\ \A q \in Peer : meta[p][q] # None => meta[p][q] \in Plausible(q)
    /\ \A e \in punching[p] :
         e \in RelayOf(p) \/ \E l \in posted : l.to = p /\ e \in Plausible(l.from)

(* What a single relay knows of a peer is where that peer's datagrams come *)
(* or came from, whatever it forwards: no message it gets for itself or    *)
(* passes on replaces an endpoint that punches keep open by the declared.  *)
OneRelay == \A r, s \in RelayNode : r = s
DeclaredIpIsOutside == \A p \in Peer : \A e \in Mapped[p] : IpOf[Declared[p]] = IpOf[e]
RelayKnowsOutside ==
  OneRelay /\ DeclaredIpIsOutside =>
    \A r \in RelayNode, p \in Peer : meta[r][p] \in {None} \cup Mapped[p]

(* However many relays there are, a message is passed on once: if their    *)
(* ips are nobody else's, no endpoint a relay has learned of a peer or     *)
(* finds inside a message for it is, or has been, a relay's.  (A message   *)
(* carries no count of hops, and nothing else would end a circle.)         *)
RelayApart ==
  \A r \in RelayNode, p \in Peer :
    p # r => \A e \in Mapped[r], f \in Mapped[p] \cup {Declared[p]} : IpOf[e] # IpOf[f]
NoForwardingLoop ==
  RelayApart =>
    \A d \in net : \A r, s \in RelayNode :
      d.kind = "message" /\ d.from # r /\ d.src \in Mapped[r] /\ d.dst \in Mapped[s]
        => d.to = s

(* Although datagrams get lost, peers move and the relay restarts with     *)
(* empty maps, it comes to know every peer that punches towards it, and    *)
(* for good.                                                               *)
RelayLearns ==
  OneRelay /\ DeclaredIpIsOutside =>
    \A r \in RelayNode : \A p \in {q \in Peer : Mapped[r] = {RelayAddress[q]}} :
      <>[](meta[r][p] = outside[p])

(* An endpoint that was learned hides the one on the DHT, also when its    *)
(* peer has moved.  But it does not stay wrong: as long as p punches       *)
(* towards q, q will know the endpoint p has moved to.                     *)
PeersFollow ==
  \A p \in Peer : \A q \in User \ {p} :
    <>[](outside[q] \in punching[p]) => []<>(meta[q][p] = outside[p])
=============================================================================
