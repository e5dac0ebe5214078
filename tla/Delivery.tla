------------------------------- MODULE Delivery -------------------------------
(***************************************************************************)
(* What the messenger promises about chat histories, without addresses,    *)
(* relays or datagrams.  A letter travels in up to two copies, one per     *)
(* way, because MessageSender sends the buffer to the destination and once *)
(* more to the relay node.  UDP may deliver any of them twice, and the     *)
(* receiver does not compare message ids.                                  *)
(***************************************************************************)
EXTENDS Naturals, Sequences

CONSTANTS
  Peer,  \* a login and a key pair
  Text,  \* each text is written at most once, so it names its letter
  MaxDuplicates \* bound: copies that the network makes

ASSUME MaxDuplicatesAssumption == MaxDuplicates \in Nat

VARIABLES
  log,     \* ChatHistory of each peer: key id of the contact -> entries
  pending, \* copies under way
  posted,  \* letters written so far
  duplicates \* copies the network has made so far

vars == <<log, pending, posted, duplicates>>

Way == {"direct", "relay"}
Letter == [from : Peer, to : Peer, text : Text]

(* "nth" is a history field: 0, or the number of the duplicate it is.      *)
Copy == [from : Peer, to : Peer, text : Text, way : Way, nth : 0..MaxDuplicates]
Entry == [author : Peer, text : Text, via : Way \cup {"own"}, nth : 0..MaxDuplicates]

EmptyLog == [q \in Peer |-> <<>>]

Init ==
  /\ log = [p \in Peer |-> EmptyLog]
  /\ pending = {}
  /\ posted = {}
  /\ duplicates = 0

(* Mutant (a definition of this name shows what a property would notice):  *)
(* login and message, both strings, change places.                         *)
RecordSwappedMutant(p, q, author, text, via, nth) ==
  log' = [log EXCEPT ![p][q] =
            Append(@, [author |-> text, text |-> author, via |-> via, nth |-> nth])]

Record(p, q, author, text, via, nth) ==
  log' = [log EXCEPT ![p][q] =
            Append(@, [author |-> author, text |-> text, via |-> via, nth |-> nth])]

(* The copies that left are sent, and if nothing went wrong the letter is  *)
(* recorded in the writer's history: never before a copy has left.         *)
Post(p, q, t, ways) ==
  /\ \A l \in posted : l.text # t
  /\ posted' = posted \cup {[from |-> p, to |-> q, text |-> t]}
  /\ pending' = pending \cup
                  {[from |-> p, to |-> q, text |-> t, way |-> w, nth |-> 0] : w \in ways}
  /\ \/ ways # {} /\ Record(p, q, p, t, "own", 0)
     \/ UNCHANGED log
  /\ UNCHANGED duplicates

(* Mutant: whoever the copy reaches records it.                            *)
DeliverAnywhereMutant(c) ==
  /\ c \in pending
  /\ pending' = pending \ {c}
  /\ \E p \in Peer : Record(p, c.from, c.from, c.text, c.way, c.nth)
  /\ UNCHANGED <<posted, duplicates>>

(* Mutant: a copy that was read is read again.                             *)
DeliverAgainMutant(c) ==
  /\ c \in pending
  /\ UNCHANGED <<pending, posted, duplicates>>
  /\ Record(c.to, c.from, c.from, c.text, c.way, c.nth)

(* A copy reaches the peer it is encrypted for, and no other.              *)
Deliver(c) ==
  /\ c \in pending
  /\ pending' = pending \ {c}
  /\ Record(c.to, c.from, c.from, c.text, c.way, c.nth)
  /\ UNCHANGED <<posted, duplicates>>

Drop(c) ==
  /\ c \in pending
  /\ pending' = pending \ {c}
  /\ UNCHANGED <<log, posted, duplicates>>

(* The network makes another copy of a copy.                               *)
Duplicate(c) ==
  /\ c \in pending
  /\ duplicates < MaxDuplicates
  /\ duplicates' = duplicates + 1
  /\ pending' = pending \cup {[c EXCEPT !.nth = duplicates + 1]}
  /\ UNCHANGED <<log, posted>>

(* Or of something else that it carries: a hole punch.                     *)
DuplicateOther ==
  /\ duplicates < MaxDuplicates
  /\ duplicates' = duplicates + 1
  /\ UNCHANGED <<log, pending, posted>>

(* A session ends: its history is in memory only.                          *)
Forget(p) ==
  /\ log' = [log EXCEPT ![p] = EmptyLog]
  /\ UNCHANGED <<pending, posted, duplicates>>

Next ==
  \/ \E p, q \in Peer, t \in Text, ways \in SUBSET Way : Post(p, q, t, ways)
  \/ \E c \in pending : Deliver(c) \/ Drop(c) \/ Duplicate(c)
  \/ DuplicateOther
  \/ \E p \in Peer : Forget(p)

Spec == Init /\ [][Next]_vars

-----------------------------------------------------------------------------
TypeOK ==
  /\ log \in [Peer -> [Peer -> Seq(Entry)]]
  /\ pending \subseteq Copy
  /\ posted \subseteq Letter
  /\ duplicates \in 0..MaxDuplicates

(* Nobody's words are put into a history they were not written for: an     *)
(* entry of p's chat with q is a letter between the two by its author.     *)
Genuine(p, q, e) ==
  IF e.via = "own"
    THEN e.author = p /\ [from |-> p, to |-> q, text |-> e.text] \in posted
    ELSE e.author = q /\ [from |-> q, to |-> p, text |-> e.text] \in posted
Authentic == \A p, q \in Peer : \A i \in DOMAIN log[p][q] : Genuine(p, q, log[p][q][i])

(* However the copies are delayed and whoever forgets what, a letter is    *)
(* recorded at most once per datagram that carries it: once for each of    *)
(* the ways it was sent, and once for each duplicate the network makes.    *)
OncePerCopy ==
  \A p, q \in Peer : \A i, j \in DOMAIN log[p][q] :
    /\ log[p][q][i].text = log[p][q][j].text
    /\ log[p][q][i].via = log[p][q][j].via
    /\ log[p][q][i].nth = log[p][q][j].nth
    => i = j
=============================================================================
