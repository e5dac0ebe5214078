------------------------------ MODULE AddressBook ------------------------------
(***************************************************************************)
(* The address and key maps of one logged-in P2PMessengerImpl, and every   *)
(* thread that reads or writes them: the io_context workers (receive       *)
(* handlers and posted sends), the OpenDHT thread (listen callback) and    *)
(* the GUI thread (search, click on a contact, send).                      *)
(*                                                                         *)
(* Both resolvers keep TWO maps under TWO mutexes: contact -> address and  *)
(* key id -> public key.  A put fills them in two critical sections, and   *)
(* a send reads up to four of them one after the other, so every critical  *)
(* section is an action here.                                              *)
(*                                                                         *)
(* The program may end in the middle: an exception that leaves a handler   *)
(* or the listen callback, or a null key.  Nothing happens afterwards.     *)
(***************************************************************************)
EXTENDS Naturals, Sequences

CONSTANTS
  Worker,     \* the threads running io_context_.run() (num_threads_ = 4)
  Login, Key, \* logins, and public keys identified with their key ids
  Contact,    \* the contacts in play, pairs of a login and a key
  Address,    \* "ip:port" strings
  None,       \* std::nullopt
  MyLogin,
  MaxReady    \* bound: handlers waiting in the io_context queue

ASSUME ContactAssumption == Contact \subseteq [login : Login, key : Key]
ASSUME NoneAssumption == None \notin Address
ASSUME MyLoginAssumption == MyLogin \in Login
ASSUME MaxReadyAssumption == MaxReady \in Nat \ {0}

VARIABLES
  metaAddress, \* MetadataIpResolver: contact -> address or None
  metaKey,     \* MetadataIpResolver: key ids whose public key is stored
  dhtAddress,  \* DhtIpResolver: contact -> address or None
  dhtKey,      \* DhtIpResolver: key ids whose public key is stored
  listening,   \* DhtIpResolver: logins with a listen token
  announced,   \* contacts passed to ChatPage::listen_login_handler
  armed,       \* an async_wait on the socket is pending
  ready,       \* FIFO of completion handlers io_context_ has to run
  worker,      \* what each worker thread is executing
  dht,         \* what the OpenDHT thread is executing
  gui,         \* what the GUI thread is executing: an address lookup
  leftover,    \* contacts listed by signals of a session that has ended
  program      \* "runs", or how the program has ended

books == <<metaAddress, metaKey, dhtAddress, dhtKey>>
fate == <<leftover, program>>
vars == <<books, listening, announced, armed, ready, worker, dht, gui, fate>>

-----------------------------------------------------------------------------
(* Handlers.  A handler is a record whose "at" says what it does next.     *)

Idle    == [at |-> "idle"]
Receive == [at |-> "receive"]
Rearm   == [at |-> "async_wait"]

(* A message for this node passes through all four steps, a hole punch     *)
(* only through the two puts.                                              *)
Receiving ==
  [at : {"put_address", "put_key", "punch", "handle"}, kind : {"message"},
   contact : Contact, address : Address]
  \cup [at : {"put_address", "put_key"}, kind : {"punch"},
        contact : Contact, address : Address]

(* Two history fields, of the moment the user pressed send: "known" is the *)
(* address the metadata map had for the contact, or None, and "announced"  *)
(* whether the contact had been announced in this session.                 *)
Sending ==
  [at : {"resolve_metadata", "resolve_dht", "key_metadata", "key_dht",
         "send_to", "unresolved", "null_key"},
   contact : Contact, known : Address \cup {None}, announced : BOOLEAN,
   source : {"none", "metadata", "dht"}]

Posted == {job \in Sending : job.at = "resolve_metadata"}

(* A lookup for the label, with the same history field.  Nothing reads the *)
(* label, so it is left out: it shows an address or "Not found".           *)
Showing == [at : {"resolve_dht"}, contact : Contact, announced : BOOLEAN]

Listening == [at : {"put_key", "handle"}, contact : Contact]

Goto(w, label) == worker' = [worker EXCEPT ![w].at = label]

Init ==
  /\ metaAddress = [c \in Contact |-> None]
  /\ metaKey = {}
  /\ dhtAddress = [c \in Contact |-> None]
  /\ dhtKey = {}
  /\ listening = {MyLogin}
  /\ announced = {}
  /\ armed = TRUE
  /\ ready = <<>>
  /\ worker = [w \in Worker |-> Idle]
  /\ dht = Idle
  /\ gui = Idle
  /\ leftover \in SUBSET Contact
  /\ program = "runs"

-----------------------------------------------------------------------------
(* The io_context.                                                         *)
(* An operator whose name ends in a "Mutant" is a wrong variant of the one *)
(* that follows it: it shows that a property would notice that bug.        *)

(* A datagram is there: the wait completes and its handler is queued.      *)
SocketReadable ==
  /\ armed
  /\ Len(ready) < MaxReady
  /\ armed' = FALSE
  /\ ready' = Append(ready, Receive)
  /\ UNCHANGED <<books, listening, announced, worker, dht, gui, fate>>

(* A free worker runs the handler at the head of the queue.                *)
RunHandler(w) ==
  /\ worker[w] = Idle
  /\ ready # <<>>
  /\ worker' = [worker EXCEPT ![w] = Head(ready)]
  /\ ready' = Tail(ready)
  /\ UNCHANGED <<books, listening, announced, armed, dht, gui, fate>>

-----------------------------------------------------------------------------
(* MessageReceiver::async_wait_handler.                                    *)

(* Mutant: the handler is called before the put.                           *)
ReceiveFromHandleFirstMutant(w) ==
  /\ worker[w].at = "receive"
  /\ \E job \in Receiving \cup {Rearm} :
       /\ job.at \in {"put_address", "handle", "async_wait"}
       /\ worker' = [worker EXCEPT ![w] = job]
  /\ UNCHANGED <<books, listening, announced, armed, ready, dht, gui, fate>>

(* Mutant: the next wait starts before this datagram is dealt with.        *)
ReceiveFromRearmFirstMutant(w) ==
  /\ worker[w].at = "receive"
  /\ armed' = TRUE
  /\ \E job \in Receiving \cup {Rearm} :
       /\ job.at \in {"put_address", "async_wait"}
       /\ worker' = [worker EXCEPT ![w] = job]
  /\ UNCHANGED <<books, listening, announced, ready, dht, gui, fate>>

(* receive_from and the parsing: the datagram is a message for this node,  *)
(* a hole punch, or nothing that reaches the maps (someone else's message, *)
(* a bad signature, an error code).  Or an exception leaves the handler:   *)
(* reading throws, its size is another, or what is no message is no hole   *)
(* punch either.                                                           *)
ReceiveFrom(w) ==
  /\ worker[w].at = "receive"
  /\ \/ /\ \E job \in Receiving \cup {Rearm} :
            /\ job.at \in {"put_address", "async_wait"}
            /\ worker' = [worker EXCEPT ![w] = job]
        /\ UNCHANGED program
     \/ program' = "terminated" /\ UNCHANGED worker
  /\ UNCHANGED <<books, listening, announced, armed, ready, dht, gui, leftover>>

(* MetadataIpResolver::put, first critical section.                        *)
PutAddress(w) ==
  /\ worker[w].at = "put_address"
  /\ metaAddress' = [metaAddress EXCEPT ![worker[w].contact] = worker[w].address]
  /\ Goto(w, "put_key")
  /\ UNCHANGED <<metaKey, dhtAddress, dhtKey, listening, announced, armed, ready, dht, gui, fate>>

(* Mutant: a hole punch is handled like a message.                         *)
PutKeyHandlesPunchMutant(w) ==
  /\ worker[w].at = "put_key"
  /\ metaKey' = metaKey \cup {worker[w].contact.key}
  /\ Goto(w, "punch")
  /\ UNCHANGED <<metaAddress, dhtAddress, dhtKey, listening, announced, armed, ready, dht, gui, fate>>

(* MetadataIpResolver::put, second critical section.                       *)
PutKey(w) ==
  /\ worker[w].at = "put_key"
  /\ metaKey' = metaKey \cup {worker[w].contact.key}
  /\ worker' = [worker EXCEPT ![w] = IF @.kind = "message" THEN [@ EXCEPT !.at = "punch"]
                                                          ELSE Rearm]
  /\ UNCHANGED <<metaAddress, dhtAddress, dhtKey, listening, announced, armed, ready, dht, gui, fate>>

(* Mutant: async_wait() is inside the try that a throw leaves.             *)
StartHolePunchingNoRearmMutant(w) ==
  /\ worker[w].at = "punch"
  /\ \/ Goto(w, "handle")
     \/ worker' = [worker EXCEPT ![w] = Idle]
  /\ UNCHANGED <<books, listening, announced, armed, ready, dht, gui, fate>>

(* start_hole_punching: make_address or send_to may throw, and then the    *)
(* message never reaches the handler.                                      *)
StartHolePunching(w) ==
  /\ worker[w].at = "punch"
  /\ \/ Goto(w, "handle")
     \/ worker' = [worker EXCEPT ![w] = Rearm]
  /\ UNCHANGED <<books, listening, announced, armed, ready, dht, gui, fate>>

(* The handler given to the MessageReceiver: history, contact, message.    *)
Handle(w) ==
  /\ worker[w].at = "handle"
  /\ announced' = announced \cup {worker[w].contact}
  /\ worker' = [worker EXCEPT ![w] = Rearm]
  /\ UNCHANGED <<books, listening, armed, ready, dht, gui, fate>>

(* Every path through async_wait_handler that no exception leaves ends in  *)
(* async_wait().                                                           *)
AsyncWait(w) ==
  /\ worker[w].at = "async_wait"
  /\ armed' = TRUE
  /\ worker' = [worker EXCEPT ![w] = Idle]
  /\ UNCHANGED <<books, listening, announced, ready, dht, gui, fate>>

-----------------------------------------------------------------------------
(* P2PMessengerImpl::send_message, the lambda posted to the io_context.    *)

(* Mutant: resolve() asks the DHT resolver first.                          *)
ResolveDhtFirstMutant(w) ==
  /\ worker[w].at = "resolve_metadata"
  /\ IF dhtAddress[worker[w].contact] # None
       THEN worker' = [worker EXCEPT ![w].at = "key_metadata", ![w].source = "dht"]
       ELSE worker' = [worker EXCEPT ![w].at = "key_metadata", ![w].source = "metadata"]
  /\ UNCHANGED <<books, listening, announced, armed, ready, dht, gui, fate>>

ResolveMetadata(w) ==
  /\ worker[w].at = "resolve_metadata"
  /\ IF metaAddress[worker[w].contact] # None
       THEN worker' = [worker EXCEPT ![w].at = "key_metadata", ![w].source = "metadata"]
       ELSE Goto(w, "resolve_dht")
  /\ UNCHANGED <<books, listening, announced, armed, ready, dht, gui, fate>>

ResolveDht(w) ==
  /\ worker[w].at = "resolve_dht"
  /\ IF dhtAddress[worker[w].contact] # None
       THEN worker' = [worker EXCEPT ![w].at = "key_metadata", ![w].source = "dht"]
       ELSE Goto(w, "unresolved")
  /\ UNCHANGED <<books, listening, announced, armed, ready, dht, gui, fate>>

KeyMetadata(w) ==
  /\ worker[w].at = "key_metadata"
  /\ Goto(w, IF worker[w].contact.key \in metaKey THEN "send_to" ELSE "key_dht")
  /\ UNCHANGED <<books, listening, announced, armed, ready, dht, gui, fate>>

(* A null public key goes straight into MessageSender::send_message, which *)
(* dereferences it.                                                        *)
KeyDht(w) ==
  /\ worker[w].at = "key_dht"
  /\ IF worker[w].contact.key \in dhtKey
       THEN Goto(w, "send_to") /\ UNCHANGED program
       ELSE Goto(w, "null_key") /\ program' = "undefined"
  /\ UNCHANGED <<books, listening, announced, armed, ready, dht, gui, leftover>>

(* MessageSender::send_message, sent or thrown; or "not resolved", logged. *)
SendDone(w) ==
  /\ worker[w].at \in {"send_to", "unresolved"}
  /\ worker' = [worker EXCEPT ![w] = Idle]
  /\ UNCHANGED <<books, listening, announced, armed, ready, dht, gui, fate>>

-----------------------------------------------------------------------------
(* The DHT listen callback, one value at a time on the OpenDHT thread.     *)

(* Mutant: the contact is announced before its key is stored.              *)
DhtAnnounceFirstMutant ==
  /\ dht = Idle
  /\ \E c \in Contact, a \in Address :
       /\ c.login \in listening
       /\ dhtAddress' = [dhtAddress EXCEPT ![c] = a]
       /\ announced' = announced \cup {c}
       /\ dht' = [at |-> "put_key", contact |-> c]
  /\ UNCHANGED <<metaAddress, metaKey, dhtKey, listening, armed, ready, worker, gui, fate>>

(* A value without a ':' throws out of the callback; that it had no owner  *)
(* or has expired changes nothing.                                         *)
DhtPutAddress ==
  /\ dht = Idle
  /\ \/ /\ \E c \in Contact, a \in Address :
            /\ c.login \in listening
            /\ dhtAddress' = [dhtAddress EXCEPT ![c] = a]
            /\ dht' = [at |-> "put_key", contact |-> c]
        /\ UNCHANGED program
     \/ program' = "terminated" /\ UNCHANGED <<dhtAddress, dht>>
  /\ UNCHANGED <<metaAddress, metaKey, dhtKey, listening, announced, armed, ready, worker,
                gui, leftover>>

DhtPutKey ==
  /\ dht.at = "put_key"
  /\ dhtKey' = dhtKey \cup {dht.contact.key}
  /\ dht' = [dht EXCEPT !.at = "handle"]
  /\ UNCHANGED <<metaAddress, metaKey, dhtAddress, listening, announced, armed, ready, worker, gui, fate>>

DhtHandle ==
  /\ dht.at = "handle"
  /\ announced' = announced \cup {dht.contact}
  /\ dht' = Idle
  /\ UNCHANGED <<books, listening, armed, ready, worker, gui, fate>>

-----------------------------------------------------------------------------
(* The GUI thread.                                                         *)

(* on_searchLoginPushButton_clicked.                                       *)
Listen(l) ==
  /\ gui = Idle
  /\ l \notin listening
  /\ listening' = listening \cup {l}
  /\ UNCHANGED <<books, announced, armed, ready, worker, dht, gui, fate>>

(* What the contacts list may hold: it outlives a session's messenger, and *)
(* a signal the last session left in Qt's queue is handled after the list  *)
(* has been cleared.                                                       *)
Listed == announced \cup leftover

(* ChatPage::send_message, with a current item.                            *)
Post(c) ==
  /\ gui = Idle
  /\ c \in Listed
  /\ Len(ready) < MaxReady
  /\ ready' = Append(ready, [at |-> "resolve_metadata", contact |-> c,
                             known |-> metaAddress[c], announced |-> c \in announced,
                             source |-> "none"])
  /\ UNCHANGED <<books, listening, announced, armed, worker, dht, gui, fate>>

(* on_contactsListWidget_itemClicked: the destination label of a contact.  *)
ShowMetadata(c) ==
  /\ gui = Idle
  /\ c \in Listed
  /\ gui' = IF metaAddress[c] # None
              THEN Idle
              ELSE [at |-> "resolve_dht", contact |-> c, announced |-> c \in announced]
  /\ UNCHANGED <<books, listening, announced, armed, ready, worker, dht, fate>>

ShowDht ==
  /\ gui.at = "resolve_dht"
  /\ gui' = Idle
  /\ UNCHANGED <<books, listening, announced, armed, ready, worker, dht, fate>>

-----------------------------------------------------------------------------
WorkerStep(w) ==
  /\ program = "runs"
  /\ \/ RunHandler(w) \/ ReceiveFrom(w) \/ PutAddress(w) \/ PutKey(w)
     \/ StartHolePunching(w) \/ Handle(w) \/ AsyncWait(w)
     \/ ResolveMetadata(w) \/ ResolveDht(w) \/ KeyMetadata(w) \/ KeyDht(w) \/ SendDone(w)

DhtStep == DhtPutAddress \/ DhtPutKey \/ DhtHandle

GuiStep ==
  \/ \E l \in Login : Listen(l)
  \/ \E c \in Contact : Post(c) \/ ShowMetadata(c)
  \/ ShowDht

(* So that a program that has ended is no deadlock.                        *)
Ended == program # "runs" /\ UNCHANGED vars

Next ==
  \/ \E w \in Worker : WorkerStep(w)
  \/ program = "runs" /\ (SocketReadable \/ DhtStep \/ GuiStep)
  \/ Ended

Spec == Init /\ [][Next]_vars

(* Threads are scheduled by the operating system: each worker that can     *)
(* take a step eventually does.  The user, the peers and the DHT owe       *)
(* nothing.                                                                *)
FairSpec == Spec /\ \A w \in Worker : WF_vars(WorkerStep(w))

-----------------------------------------------------------------------------
TypeOK ==
  /\ metaAddress \in [Contact -> Address \cup {None}]
  /\ metaKey \in SUBSET Key
  /\ dhtAddress \in [Contact -> Address \cup {None}]
  /\ dhtKey \in SUBSET Key
  /\ listening \in SUBSET Login
  /\ announced \in SUBSET Contact
  /\ armed \in BOOLEAN
  /\ ready \in Seq({Receive} \cup Posted)
  /\ worker \in [Worker -> {Idle, Receive, Rearm} \cup Receiving \cup Sending]
  /\ dht \in {Idle} \cup Listening
  /\ gui \in {Idle} \cup Showing
  /\ leftover \in SUBSET Contact
  /\ program \in {"runs", "terminated", "undefined"}

(* A send to a contact that this session has announced never reaches       *)
(* MessageSender::send_message with a null public key, although a          *)
(* contact's address and key are stored in two critical sections and read  *)
(* in up to four: every thread announces a contact only after both maps of *)
(* one resolver hold it.                                                   *)
NoNullKey ==
  \A w \in Worker : worker[w].at = "null_key" => ~worker[w].announced

(* get_public_key_by_public_key_id foresees that there is no such key, logs*)
(* so and returns null; whoever asked it is not to dereference that.       *)
(* (Violated: a contact left over from an ended session can be chosen while*)
(* the listen callback has stored its address and not yet its key.)        *)
NullKeyIsNotSent == program # "undefined"

(* A message to a contact that this session has announced is never dropped *)
(* as "Destination address is not resolved", and a click on one never      *)
(* shows "Not found": the DHT's map, when it is asked, has an address.     *)
AlwaysResolved ==
  /\ \A w \in Worker : worker[w].at = "unresolved" => ~worker[w].announced
  /\ gui.at = "resolve_dht" /\ gui.announced => dhtAddress[gui.contact] # None

(* Once a contact's endpoint has been learned from its own datagrams, no   *)
(* send pressed afterwards falls back on the address the DHT gave.         *)
PrefersLearnedAddress ==
  \A w \in Worker :
    worker[w].at = "send_to" /\ worker[w].known # None
      => worker[w].source = "metadata"

(* A contact is announced only when one resolver holds both its address    *)
(* and its key, and every lookup of an announced contact that is under way *)
(* will find them in the resolver it has come to: the inductive invariant  *)
(* behind the three properties that hold above.                            *)
InMetadata(c) == metaAddress[c] # None /\ c.key \in metaKey
InDht(c) == dhtAddress[c] # None /\ c.key \in dhtKey
Held(c) == InMetadata(c) \/ InDht(c)

SendHeld(job) ==
  /\ job.at \in {"resolve_metadata", "key_metadata"} /\ job.announced => Held(job.contact)
  /\ job.at \in {"resolve_dht", "key_dht"} /\ job.announced => InDht(job.contact)
  /\ job.at \in {"resolve_metadata", "resolve_dht"} /\ job.known # None
       => metaAddress[job.contact] # None
  /\ job.at = "resolve_dht" => job.known = None
  /\ job.at \in {"key_metadata", "key_dht", "send_to"} /\ job.known # None
       => job.source = "metadata"

ReceiveHeld(job) ==
  /\ job.at = "put_key" => metaAddress[job.contact] # None
  /\ job.at \in {"punch", "handle"} => InMetadata(job.contact)

AnnouncedIsHeld ==
  /\ \A c \in announced : Held(c)
  /\ \A i \in DOMAIN ready : SendHeld(ready[i])
  /\ \A w \in Worker : SendHeld(worker[w]) /\ ReceiveHeld(worker[w])
  /\ dht.at = "put_key" => dhtAddress[dht.contact] # None
  /\ dht.at = "handle" => InDht(dht.contact)
  /\ gui.at = "resolve_dht" /\ gui.announced => InDht(gui.contact)

(* The receive chain is a single one: a wait is pending, or exactly one    *)
(* handler of it is queued or running, so no two datagrams are handled at  *)
(* a time and none of the exits forgets to wait again.                     *)
InReceive(job) == job.at \in {"receive", "put_address", "put_key", "punch", "handle", "async_wait"}
Chains ==
  {<<"queue", i>> : i \in {i \in 1..Len(ready) : InReceive(ready[i])}}
  \cup {<<"worker", w>> : w \in {w \in Worker : InReceive(worker[w])}}
OneReceiveChain ==
  /\ armed <=> Chains = {}
  /\ \A x, y \in Chains : x = y

(* Whatever a datagram leads to, the node waits for the next one again or  *)
(* the program has ended: it never runs on without listening.  (A datagram *)
(* that is neither a message nor a hole punch does end it.)                *)
ListensAgain == ~armed ~> (armed \/ program # "runs")
=============================================================================
