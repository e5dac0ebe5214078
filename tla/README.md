# A TLA+ verification of P2P Messenger

P2P Messenger is a Qt program for chats without a server. Peers find each other
over a distributed hash table (OpenDHT), send each other signed and encrypted
UDP datagrams, and keep paths through address translation open with hole
punches; a peer may serve as a relay for others. This directory holds TLA+
modules that model the program, TLC configurations that check them, and proofs
that TLAPS checks.

1. [The system](#1-the-system)
2. [The modules](#2-the-modules)
3. [The runs](#3-the-runs)
4. [Fairness](#4-fairness)
5. [What is proved](#5-what-is-proved)
6. [Findings](#6-findings)
7. [What the code does that no property forbids](#7-what-the-code-does-that-no-property-forbids)
8. [What is not modelled](#8-what-is-not-modelled)
9. [Plan](#9-plan)

Paths of the code are relative to the repository; all of the program is in its
`src/`.

## 1. The system

### Components

| Component | State | Operations |
|---|---|---|
| `P2PMessengerImpl` | identity, `io_context`, four threads that run it, the members below | constructor (announce on the DHT, listen for one's own login, start the threads, punch towards the relay), destructor, `send_message` (posts a lambda), `resolve` (metadata first, then DHT), key lookup (same order), `listen`, `get` |
| `MessageReceiver` | one pending `async_wait` on the socket | `async_wait_handler`: read a datagram, parse and check it, record its sender's endpoint, punch back, call the handler; or forward it; or take it for a hole punch; wait again |
| `MessageSender` | none | `send_message`: build, sign, encrypt, send to the destination, send the same buffer to the relay node unless its ip is the destination's, call the handler |
| `DhtIpResolver` | contact -> address, key id -> public key (a mutex each), listen tokens, refresh timer | `put_signed` (re-armed by a timer), `listen` with a callback on OpenDHT's thread, `resolve`, key lookup |
| `MetadataIpResolver` | contact -> endpoint, key id -> public key (a mutex each) | `put`, `resolve`, key lookup |
| `UdpHolePuncher` | chains of timers | `start_hole_punching`, `hole_punch` every ten seconds |
| `ChatHistory` | key id -> list of (login, text), a mutex | `append`, `get` (a pointer to the list, walked without the mutex) |
| `MessageSerializer`, `MessageDeserializer` | none | datagrams to and from messages and hole punches |
| `ChatPage` | contacts list, chat view, labels, Qt's queue of signals | `log_in`, logout, search, click on a contact, send; handlers called on worker threads that emit signals; slots that run on the interface thread |
| `P2PMessenger`, `LoginPage`, `main` | the page shown | switch pages, a login form |

### Interactions

* **Threads.** Four workers run `io_context`: receive handlers, posted sends,
  timers. OpenDHT has a thread for the listen callback. The interface thread
  runs Qt. They share the four maps of the resolvers and `ChatHistory`, each
  under a mutex of its own; no operation holds two.
* **Callbacks.** Receiver, sender and DHT resolver call handlers that append to
  the history and then emit a signal. `ChatPage` lives on the interface thread,
  so Qt queues signals of other threads (`Qt::AutoConnection`).
* **The network.** Every message goes out as a direct and, if there is a relay,
  a relayed copy. Receivers learn endpoints from what they receive; a relay
  learns from hole punches, and forwards to what it has learned.
* **Session.** Logging in builds a `P2PMessengerImpl`, logging out or closing the
  window destroys it: its destructor stops `io_context`, and then the members go,
  the last declared first, each joining or cancelling what it has to. Address
  books and histories are not stored: only the key files are. Then `ChatPage`
  clears its widgets; signals the session has left in Qt's queue are handled after
  that, and may list its contacts again.

### What is hard here, and what correctness means

| Component | Hard behaviour | Properties |
|---|---|---|
| resolvers, handlers | each put is two critical sections, each send up to four; a null key is dereferenced by the sender; the contacts list may hold contacts of an ended session | `NoNullKey`, `NullKeyIsNotSent`, `AlwaysResolved`, `PrefersLearnedAddress`, `AnnouncedIsHeld` |
| receive chain | many ways out of one handler, all of which must wait again, once | `OneReceiveChain`, `ListensAgain` |
| endpoints | direct and relayed messages and punches overwrite each other in any order; only ips are compared; peers move to other endpoints and relays start again | `LearnedFromPeer`, `RelayKnowsOutside`, `RelayLearns`, `PeersFollow`, `NoForwardingLoop` |
| delivery | loss, delay, reordering, duplication, two copies, a send that half fails, sessions that end | `Authentic`, `OncePerCopy`, `ImplementsDelivery` |
| timers, destructor | handlers that run while members are destroyed; chains of timers that start themselves again; threads that are joined, and that wait for the one that joins them | `OneOfEach`, `AbortedNeverRuns`, `DhtThreadOutlived`, `CallbacksFindPage`, `HandlersFindMembers`, `DestructorEnds`, `TimersKeepFiring` |
| window | signals queued while the user clicks, moves the selection, logs out | `NothingOverlooked`, `ShownChatComplete`, `NoForeignMessage`, `SignalledInOrder`, `NeverWithoutMessenger`, `NotifiedIsListed`, `ReceivedIsNoticed`, `LogoutEnds` |
| wire format | one- and two-byte lengths, no type field, size checked after reading | `MessageArrives`, `PunchArrives`, `ValuesAreWhole` |

## 2. The modules

```
Delivery        what histories promise         DeliveryProofs
   ^ implemented by
Messenger       peers, relay, network          MessengerProofs   MCMessenger
AddressBook     threads of one peer            AddressBookProofs MCAddressBook
Session         login to logout, by members    SessionProofs
ChatPage        window, workers, Qt's queue    ChatPageProofs    MCChatPage
WireFormat      one datagram, byte by byte     WireFormatProofs
```

`Messenger` instantiates `Delivery` under a refinement mapping. The other
modules look at the same handlers at another grain: what is one atomic action
in `Messenger` is a sequence of critical sections in `AddressBook`, a sequence
of append and emits in `ChatPage`, a path through members that may no longer
exist in `Session`, and a question of bytes in `WireFormat`.
An operator whose name ends in `Mutant` is a wrong variant of the definition
that follows it. No specification uses it; it stands there to say which bug a
property would notice, and each property has one.

### AddressBook

One logged-in peer, with every critical section an action.

| Variable | In the code |
|---|---|
| `metaAddress`, `metaKey` | the two maps of `MetadataIpResolver` |
| `dhtAddress`, `dhtKey` | the two maps of `DhtIpResolver` |
| `listening` | logins with a listen token |
| `announced` | contacts handed to `ChatPage::listen_login_handler` in this session |
| `leftover` | contacts that signals of an ended session have put into the list |
| `armed`, `ready` | the pending `async_wait`; handlers waiting in `io_context` |
| `worker` | what each worker is executing: `at` is its program counter |
| `dht`, `gui` | the same for OpenDHT's thread and the interface thread |
| `program` | `"runs"`, or how the program has ended |

`SocketReadable`, `RunHandler` are the `io_context`. `ReceiveFrom` to
`AsyncWait` are the steps of `async_wait_handler`; what a datagram turns out to
be is a choice in `ReceiveFrom`, since the maps cannot tell how it is rejected.
Some datagrams make an exception leave the handler (`receive_from` throws, the
size read is another, what is no message is no hole punch either), and a value
on the DHT without a `:` one leave the listen callback: `ReceiveFrom` and
`DhtPutAddress` may end the program. `ResolveMetadata` to `SendDone` are the
posted lambda, `DhtPutAddress` to `DhtHandle` the listen callback, `Listen`,
`Post`, `ShowMetadata`, `ShowDht` the user, who can choose whatever is `Listed`.
`KeyDht` with no key ends the program too: the sender dereferences the null key.
`job.known` and `job.announced` are history fields, of the moment the user pressed
send. The text of the address label is not modelled, since nothing reads it.

Keys are identified with key ids, and contacts are pairs of a login and a key,
because the address maps are indexed by both and the key maps by the id alone:
two contacts may share a key.

### Messenger and Delivery

`Messenger` has several peers. `Declared[p]` is the endpoint `p` was configured
with and puts into its messages and on the DHT; `outside[p]`, one of `Mapped[p]`,
is where its datagrams seem to come from, which address translation makes
another one. `meta`, `dht`, `contacts`, `punching`, `history` are each peer's; `net` is the
datagrams in flight, with the `remote_endpoint` as `src`. `posted` and the
field `way` are history variables.

`SendMessage` is the posted lambda, the sender and its handler: both copies
leave and the message is recorded, or the second send throws, or the first
does. `ReceiveMessage`, `Forward`, `ReceivePunch` are the branches of the
receive handler. `HolePunch` is a timer that fires. `Restart` is logout or
crash, with a new login by the same identity; any of the old contacts may be left
in the list by signals handled late, and do not resolve until they are learned or
found again. `Move` gives a peer another endpoint
without its noticing: a router has restarted, or a mapping has expired. `Lose` and `Duplicate` are
the network. Reordering and delay come from `net` being a set; two copies are two
elements, told apart by `way`, and a duplicate by its number, the history field
`nth`. The program records a duplicate once more, since ids are all 1 and never
compared.

`Delivery` is what the program promises of histories with all addresses left
out: letters travel in one copy per way and the duplicates of these, reach only
the peer they are for, may be dropped, and are forgotten with a session
(`DuplicateOther` is what a duplicated hole punch looks like from there). A letter is recorded by
its author only if a copy has left.

### Session

One `P2PMessengerImpl` after another, from the click on login to the end of its
destructor, and the members the handlers use on the way.

| Variable | In the code |
|---|---|
| `gui` | what the interface thread is in: the login page, the constructor from the first thread on (`"threads"`), the chat, the destructor's body (`"stopping"`), the destruction of members, or how the program has ended |
| `alive` | the first `alive` of `Members`, the members in the order of `p2p_messenger_impl.h`, exist |
| `stopped`, `waiting`, `queue` | `io_context_`: whether it was stopped, the waits under way, the handlers to run |
| `chains` | how many chains `start_hole_punching` has begun |
| `worker`, `dht` | where in which handler each of `threads_` is; whether the DHT's thread is in a listen callback |

A handler is the sequence of members it uses: `First` and `Then` give the paths
through `async_wait_handler`, the posted send, `put_signed` and `hole_punch`, and
`Use` is the step from one to the next. `UseDestroyed` is the step of a thread that
finds its member gone; nothing is said of what the program does after it, or after
an exception that leaves a thread or a slot (`End`): of a handler whose socket
has been closed, of a timer whose `send_to` fails, of a receive handler with a
datagram it cannot read, of the listen callback with a value that is no address. `Rearm` is the
end of a handler that begins its operation again, `PunchBack` the one place where
a handler begins another chain. `Destroy` takes the members away, each with what
its destructor does: `~DhtIpResolver` cancels the listens and joins the node,
the `MessageReceiver` closes the socket's wait, the `std::jthread`s are joined.

Taken from the libraries: handlers of `io_context` start in the order they were
queued; after `stop()` none starts; a wait that is destroyed or armed anew has
its handler queued with an error; `node_.join()` returns when no callback is running
and lets none start; and a member of `ChatPage` is destroyed before the `QObject`
whose signals the handlers emit.

### ChatPage

One user's window over several sessions. `task` is what each worker is in:
`append` (history of a sent message), `contact` (emit `contact_received`),
`message` (emit `message_sent` or `message_received`). `queue` is Qt's queue,
handled first in, first out when the interface thread is not busy
constructing or destroying the messenger (`session` is `"starting"` or
`"stopping"`). `ClickContact` is a press and release on an item; `MoveCurrent`
stands for arrow keys and for a press without a release, both of which move
`currentItem` without the signal `itemClicked`. `selected` is a history variable:
what has been current since the last click.

A contact is a login and a key, and its key is `KeyOf`. `ChatHistory` has a list
for each key, and `update_chat_with_received_message` compares the message's key
with that of the current item (`ForCurrent`), while the contacts list has an item for
each login and key. So a peer that is known under two logins has two items and one
history. Each click and each signal of a current contact asks the messenger for an
endpoint, which must exist then; the label that shows it is not modelled. The
behaviour of
`QListWidget`, and that the shared pointers in the signals are known to Qt's
metatype system (Qt 6 registers them by itself), are taken from Qt.

`Load` reads a history in one step, although `ChatHistory::get` returns a
pointer to a list that is walked without the mutex. `std::list::push_back`
links a new node behind those already linked, so on the machines the program is
built for the walk meets the old list or the old list and a new entry. As C++
it is a data race nevertheless, and the model takes only this outcome of it.

### WireFormat

One message or one hole punch from serializer to receiver. Bytes name the field
they belong to, so a read at a wrong place shows. Cryptography is taken by what
it accepts: a signature is good for the bytes signed, a payload decrypts if it
is whole, a key is imported if its beginning is there (an exported key ends in a
newline the import does not need). The byte behind the end of a buffer, which
the deserializer may read before its size check throws, is `stray`, chosen
freely. `Encode` fills up or cuts the buffer to the size the code computes for
it.

## 3. The runs

| Run | Module and properties | What it shows |
|---|---|---|
| `AddressBook` | `TypeOK`, `NoNullKey`, `AlwaysResolved`, `PrefersLearnedAddress`, `AnnouncedIsHeld`, `OneReceiveChain`, `ListensAgain` | No interleaving of two workers, the DHT and the user makes a send to a contact announced in this session meet a null key, drops a message to one, or uses the DHT's address although a better one was known when the user pressed send. One datagram is handled at a time, and whatever it leads to, the node waits for the next one unless an exception has ended the program. |
| `AddressBookLeftover` | `NullKeyIsNotSent`, violated | See [findings](#6-findings). |
| `Delivery` | `TypeOK`, `Authentic`, `OncePerCopy` | The abstract promise is worth something: entries are by their authors and for this chat, at most one for each datagram that carried the letter. |
| `Messenger` | `TypeOK`, `LearnedFromPeer`, `RelayKnowsOutside`, `NoForwardingLoop`, `ImplementsDelivery` | Two users behind address translation and a relay; one of the three restarts, or one of the users moves, or a message or a hole punch is duplicated: endpoints are booked under the right contact, the relay keeps the endpoints it sees, nothing is forwarded in a circle, and every step is one `Delivery` allows. |
| `MessengerLiveness` | `RelayLearns`, `PeersFollow` | The relay comes to know its peers for good, although punches are lost or come twice, it restarts with empty maps, and peers move. Whoever is punched comes to know the endpoint its peer has moved to. |
| `Session` | `TypeOK`, `OneOfEach`, `AbortedNeverRuns`, `DhtThreadOutlived`, `CallbacksFindPage`, `DestructorEnds`, `TimersKeepFiring` | The receive chain, the refresh and each chain of punches go round once, and for as long as the session lasts; no handler of a cancelled wait goes on; the destructor ends, and when the window has gone no thread is left to call it. |
| `SessionShutdown` | `HandlersFindMembers`, violated | See [findings](#6-findings). |
| `ChatPage` | `TypeOK`, `NothingOverlooked`, `ShownChatComplete`, `NoForeignMessage`, `SignalledInOrder`, `NeverWithoutMessenger` | Whatever the user does while signals wait, a received message was on the screen, or its contact is bold, or its signal is still to come; it is shown only where a contact with its key has been selected since the last click, so in a chat that was clicked and not left only its own messages; and no signal left over from a session makes a slot use a messenger that is gone. |
| `ChatPageLiveness` | `ReceivedIsNoticed`, `LogoutEnds`, `ShownChatComplete`, `NoForeignMessage` | Every received message gets noticed in the end; a logout, which joins threads that emit signals to the thread that joins them, ends. A peer with two names and one key has one chat, shown under either name. |
| `ChatPageNotify` | `NotifiedIsListed`, violated | See [findings](#6-findings). |
| `WireFormat` | `TypeOK`, `MessageArrives`, `PunchArrives` | Each message and hole punch is taken for what it is, with its fields intact, around the limits of every length. |
| `WireFormatPunch` | `ValuesAreWhole`, violated | See findings. |

### Bounds, and why they are enough

* `AddressBook`: two workers (of four), one contact, one address, two handlers
  queued (`MaxReady`). The receive chain uses one worker at a time, so two let a
  send run beside it; the DHT and the interface have one thread each. The contact
  has another login than the user and so is found only after a search. Contacts
  do not interact except by sharing a key, which can only make a key be there
  earlier; the theorems are for any contacts. `Ended` is a step, so that the end of
  the program is no deadlock.
* `Delivery`: two peers, two texts, one duplicate (`MaxDuplicates`): two letters to
  cross or to go the same way. Proved for all values.
* `Messenger`: two users and a relay, six endpoints, one text, two messages in
  flight (`MaxNet`), one restart, move or duplicate (`MaxDisruptions`), and two
  endpoints `b` may be seen at, interchangeable and so a symmetry. Two in flight are
  the two copies of a message; endpoints are a matter of one receiver and one
  sender, so that a second text adds nothing to them. Equal punches in flight are
  one, so these need no bound. The safety results are proved for all values, of
  `IpOf` as well, so for a relay that shares its ip with a peer. `RelayKnowsOutside`
  and `RelayLearns` assume a single relay and
  that the declared ip is the one seen from outside (only the port is
  translated): with another declared ip the code's comparison always fails, and
  declared endpoints overwrite what was seen. `NoForwardingLoop` assumes that no
  relay has the ip of another peer. The liveness run has two
  disruptions, one user that writes, one message in flight and a `b` that can be reached where it says
  (`MCMappedReachable`), or nobody would ever punch towards the user directly.
* `Session`: two workers (of four), two chains of punches (`MaxChains`), one send
  at a time (`MaxSends`). A handler is in the way of another, or of the
  destructor, as one of two; the second chain shows that a chain may begin
  beside another one. The safety results are proved for all values. `SessionShutdown`
  needs no more than one chain.
* `ChatPage`: two workers, the user's own contact and another, two texts, one
  logout (`MaxLogouts`); in the liveness run one text, and a second name of the other
  contact, with the same key. Each text is written once, so lines are distinct. The
  order of two messages, a send beside a receive, a message to oneself and a
  signal left over from an ended session all fit. Workers and texts are
  interchangeable, and the safety run uses that symmetry; the liveness run does not.
  The safety results are proved for all values.
  `DhtContact`, which a value that is put again repeats, is bounded: a contact
  is in the queue once, and a listed one only if no signal of a contact waits.
* `WireFormat`: a byte has 16 values instead of 256 (`Base`), ids and ports two
  bytes (`FixedSize`), a datagram 250 bytes instead of 65507 (`MaxDatagram`).
  Lengths of a login are 0, 1 and those around `Base`; of a payload 0, 1,
  `Base`, and two so that a datagram just fits or does not. `MaxDatagram` is
  below `Base^2` as 65507 is below 65536, the reason why a length of two bytes
  is never cut in a datagram that can be sent. The results are proved for all
  values.

Deadlock is checked in the runs of `AddressBook`, `Delivery` and `Messenger`. In
`Session` the program may end; in `ChatPage` it may end (undefined behaviour in
`notify`) or have used up texts and logouts; in `WireFormat` the datagram has been dealt with.

## 4. Fairness

* `AddressBook`: weak fairness of each worker. Threads run as long as
  `io_context_` has work, which the work guard ensures; no handler blocks on
  anything but short critical sections. Nothing is assumed of the user, peers
  or the DHT.
* `Messenger`: weak fairness of the punch timers towards users that write and
  relays, which `io_context_` runs, and strong fairness of their receiving a punch
  of a peer when one is in the network again and again: some of the punches
  arrive. Messages have no fairness, as nothing is ever retransmitted.
* `Session`: weak fairness of each worker, of the interface thread and of a
  callback of the DHT that has begun (none of them blocks but to join), and of each
  timer's expiring. The user, who sends and logs in and out, the DHT, which
  delivers values, and the network, which delivers datagrams, owe nothing.
* `ChatPage`: weak fairness of the workers, of the interface thread's slots and
  of the constructor and destructor going on. The user owes nothing.

## 5. What is proved

For every value of the constants that meets the `ASSUME`s of the modules:

| Theorem | States |
|---|---|
| `AddressBookProofs!TypeCorrect` | `Spec => []TypeOK` |
| `AddressBookProofs!ContactsAreHeld` | `Spec => []AnnouncedIsHeld` |
| `AddressBookProofs!KeyIsNeverNull` | `Spec => []NoNullKey` |
| `AddressBookProofs!ContactsResolve` | `Spec => []AlwaysResolved` |
| `AddressBookProofs!LearnedAddressWins` | `Spec => []PrefersLearnedAddress` |
| `AddressBookProofs!ReceiveChainIsSingle` | `Spec => []OneReceiveChain` |
| `DeliveryProofs!DeliveryKeepsTypes` | `Spec => []TypeOK` |
| `DeliveryProofs!HistoriesAreAuthentic` | `Spec => []Authentic` |
| `DeliveryProofs!RecordedOncePerCopy` | `Spec => []OncePerCopy` |
| `MessengerProofs!EndpointsAreLearnedFromPeers` | `Spec => []LearnedFromPeer` |
| `MessengerProofs!RelayBooksOutside` | `Spec => []RelayKnowsOutside` |
| `MessengerProofs!MessengersKeepTypes` | `Spec => []TypeOK` |
| `MessengerProofs!MessagesArePassedOnOnce` | `Spec => []NoForwardingLoop` |
| `MessengerProofs!MessengersDeliver` | `Spec => ImplementsDelivery` |
| `SessionProofs!SessionKeepsTypes` | `Spec => []TypeOK` |
| `SessionProofs!ResolverOutlivesCallback` | `Spec => []DhtThreadOutlived` |
| `SessionProofs!PageOutlivesThreads` | `Spec => []CallbacksFindPage` |
| `SessionProofs!CancelledHandlersDoNotRun` | `Spec => []AbortedNeverRuns` |
| `SessionProofs!ChainsGoRoundOnce` | `Spec => []OneOfEach` |
| `ChatPageProofs!WindowKeepsTypes` | `Spec => []TypeOK` |
| `ChatPageProofs!SlotsFindMessenger` | `Spec => []NeverWithoutMessenger` |
| `ChatPageProofs!ForeignMessagesStayOut` | `Spec => []NoForeignMessage` |
| `ChatPageProofs!MessagesGetNoticed` | `Spec => []NothingOverlooked` |
| `ChatPageProofs!ClickedChatIsWhole` | `Spec => []ShownChatComplete` |
| `ChatPageProofs!SignalsKeepOrder` | `Spec => []SignalledInOrder` |
| `WireFormatProofs!RoundTrip` | decoding what was encoded gives the truncated values, for every format |
| `WireFormatProofs!WireKeepsTypes` | `Spec => []TypeOK` |
| `WireFormatProofs!EveryMessageArrives` | `Spec => []MessageArrives` |
| `WireFormatProofs!EveryPunchArrives` | `Spec => []PunchArrives` |

**AddressBook.** That a key is not null when a send gets to it is not inductive:
the send has looked at an address some steps before. `AnnouncedIsHeld` says
that one resolver holds *both* the address and the key of a contact announced in
this session, and of every lookup of such a contact under way where it will find
what it needs. Of contacts left over from an ended session it says nothing, and
the [findings](#6-findings) show that a null key is met with one. It is inductive
because a handler announces a contact after both puts (`ReceiveHeld` follows a
handler through them), and because nothing is ever taken out of a resolver
(`HeldGrows`). If a put were in another order, or an entry erased, the proof
would fail there. `OneReceiveChain` only counts handlers; `SingleChain` adds
that the wait is pending exactly if no handler of it is queued or running, and that
one which is, is at one place. A worker carries the chain through all ways out of
`async_wait_handler` (`ChainPassedOn`) up to the one step that waits again.

**Delivery.** The invariant `Inv` adds that a text names its letter, that a copy
under way is of a posted letter and has not been recorded for its way and number,
and that the numbers in use are those of duplicates made so far, so that the next
duplicate gets a new one.

**Messenger.** `Inv` is `TypeOK`, `LearnedFromPeer` and
three facts about the network: `NetOrigin` (whoever a datagram says it is from,
its `src` is an endpoint that peer has had or one of a relay the message is not
for; a message is of a posted letter), `CopiesDiffer` (two datagrams in flight are
never the same copy of a letter: they differ in way or in number) and
`RelayKnowsOutside`. `CopiesDiffer` carries the refinement: since a relay takes
a datagram out of the network before it sends it on, forwarding is a stutter of
`Delivery`, and losing or receiving one removes the only datagram of its copy. The refinement
maps `history` to `log` and the messages in flight, without their endpoints, to
`pending`. The proof has a step per action. It needs that endpoints and `None`
differ and that no endpoint is ever seen of two peers, the assumptions in the
module. That a message is passed on at most once needs two facts more (`LoopInv`):
what a resolver holds of a peer, and the destination inside a message in flight,
are endpoints plausible for that peer, and so not a relay's where no relay has
the peer's ip. This is for any number of relays; the run has one.

**Session.** Two invariants. `Outlived` ties the threads to the members: a callback
of the DHT runs only while the first seven members exist, since the destructor of
the seventh waits for it, and when no member is left no worker is. `Round` says of a
session that has not been stopped: each chain that has begun is `Held` somewhere,
as a wait, in the queue or in a worker; it is `Exclusive` to that place; nothing
else is there (`OnlyStarted`); and no handler in the queue was cancelled (`Fresh`).
`Fresh` needs `Exclusive`: a wait is cancelled by starting it anew only when a
wait of the same chain is still pending, which `Exclusive` rules out, and the
destructors that cancel come after `stop()`, when no worker takes a handler
any more. So `put_signed` and `hole_punch` are right not to look at their error.

**ChatPage.** The proofs follow a line from the worker that appends it to the
slot that shows it. `Origin` says where lines come from: the own ones from the
outbox, the others from a receive handler, each in the history of the key of
the chat it names. `Selected` (the current item is one of those selected since the
click, and there is none after a logout) is all `NoForeignMessage` needs. A received line is new to the history only if its worker is about to signal
it (`NewIsUnderWay`), and what is under way stays so until its slot has run or
its signal was lost (`WayEnds`): with these two, `NothingOverlooked` and
`ShownChatComplete` survive each step. `SignalledInOrder` needs most. A worker
appends under the mutex and emits later, so two workers could signal in the
wrong order; `Order` says why they do not. One worker at a time is in the
receive handler (`OneReceiver`, which `AddressBook` proves of the chain itself);
the line it has appended is the last of a received one in its chat and not
signalled yet (`LastReceived`), so the signal it adds belongs behind those in the
queue. The invariant holds that no text comes twice (`Accounted`), which the model
assumes of what users write. All steps but receiving and signalling are `Calm`:
they take no more than the first signal away, and `CalmKeepsOrder` deals with them
together.

**WireFormat.** What the codec computes is proved for every format and not only
the three in use. Its operators are recursive functions, about which the library's
induction theorems say nothing here; `Induction`, over a set of numbers instead of a
predicate, does it. `FlattenIsJoined` and `StartsAre` unfold the two
recursions, `FieldRead` reads one field wherever it stands, and `RoundTrip` puts
them together: distinct names and the sizes of the format are all it needs. The
invariant `Transit` then says that a datagram under way is the encoding of its
original. For a message, `DatagramDecoded` adds the argument about lengths: a
datagram UDP can carry is too short for any two-byte length inside it to be
cut, so the bytes checked are the bytes signed. For a hole punch, `PunchRead`
computes both readings for a login of any length: as a signed message it is one
byte short, always, because of the byte `metadata_to_buffer` loses, and as a hole
punch its key is whole but for the last byte.

Every safety invariant of the passing runs is proved. Only model-checked are the
liveness properties (`ListensAgain`, `RelayLearns`, `PeersFollow`, `DestructorEnds`,
`TimersKeepFiring`, `ReceivedIsNoticed`, `LogoutEnds`): they rest on fairness, and
so on `ENABLED`, which the prover does not handle. The properties a run shows to be
violated are not proved of anything.

## 6. Findings

* **`ChatPage::notify` takes the first of an empty list**
  (`src/chatpage.cpp:215`, run `ChatPageNotify`). The function foresees that the
  contact is missing, logs so and adds it, but does not look it up again. Signals
  are connected after the messenger has been built, whose workers run already:
  in the first session `contact_received` may be emitted before and
  `message_received` after `connect`. After a logout the list is cleared between
  two queued signals with the same result.
* **A contact of an ended session can be written to before its key is known**
  (`src/message_sender.cpp:56`, run `AddressBookLeftover`). The lookup of a key
  foresees that there is none, logs so and returns null
  (`src/dht_ip_resolver.cpp:161`); the sender dereferences it. A contact is
  announced only after its address and its key have been stored, which
  `NoNullKey` is about. But a signal of the ended session that is handled after the
  contacts list was cleared lists its contact in the next one. If the user has
  searched for the login again and writes when the listen callback has stored the
  address and not yet the key, the message resolves and has no key.
* **A hole punch lacks its last byte** (`src/message_serializer.cpp:128`, run
  `WireFormatPunch`). `metadata_to_buffer` allots one byte for the login's length
  and writes two. The byte missing is the newline behind the exported key.
  `PunchArrives` shows why it works: the receiver reads a byte behind the
  datagram, and the import does not need it.
* **Members are destroyed before the threads that use them are joined**
  (`src/p2p_messenger_impl.h:72`, run `SessionShutdown`). The destructor
  announces "Shutting down gracefully..." and stops `io_context`. This lets
  handlers run on that have begun. `threads_` is the first member declared, so that
  the `std::jthread`s are joined when all the others have been destroyed: in the run
  a handler begun before the logout uses one that is gone. It may also find the
  socket closed, whose exception ends the program.

## 7. What the code does that no property forbids

* A message is recorded twice if both copies arrive, and once more for each
  duplicate the network makes of one, and shown as often; it is also shown twice when a click on its contact comes between its append and its
  slot.
* What the user wrote is shown in whatever chat is open when the signal is
  handled. `NoForeignMessage` is about received lines only.
* Signals left over from a session that has ended are handled in the next:
  its contacts are listed there, where they do not resolve until a datagram or the
  DHT tells of them. `AlwaysResolved` and `NoNullKey` are about contacts announced
  in this session.
* In a first session, signals before `connect` are lost: the message is in the
  history and becomes visible with a click.
* Values that expire on the DHT are not erased, and an endpoint that was learned
  hides the DHT's for the session. The theorems about `AddressBook` rest on that.
  After a peer has moved, messages for it go to its old endpoint until the next
  punch or message from it (`PeersFollow`).
* Two users whose declared ports are both translated never hear of each other's
  real endpoint. Their messages travel over a relay, which forwards to the endpoints
  it sees but tells nobody of them.
* Every message received begins another chain of punches, also towards an
  endpoint that is being punched already. Nothing bounds their number in a session.
* After arrow keys the login shown and the view are those of the item clicked last,
  while what is written goes to the current item, whose address the label may
  show; received messages of the current item are appended to that view.
  `NoForeignMessage` bounds what the view may hold by what has been selected since
  the click, and `ShownChatComplete` is about a chat that was clicked and not left.
* `docs/README.md` says that the first eight bytes of a datagram are the id; it begins
  with the length of the message that is signed. The document describes an
  earlier format in other respects too.
* A hole punch is known for one only because it does not parse as a message. A
  datagram that parses as neither ends the program, and so does a value on the DHT
  that is no address, and a hole punch that cannot be sent when its timer fires.

## 8. What is not modelled

* Cryptography, JSON, file and HTTP access: libraries, with no state of the
  program's. `WireFormat` and `Messenger` take signatures and encryption as ideal.
* The form of `LoginPage` and its request for the user's ip: one blocking HTTP
  request with no other actor. The click on login is `LogIn` in `Session`; pages and
  the closing of the window are the values of `gui` there and of `session` in
  `ChatPage`.
* `DhtIpResolver::put` without a signature, which nothing calls.
* The text of the address label: nothing reads it. That it is asked for when a
  messenger exists is `NeverWithoutMessenger`.
* What a walk over a history beside an append may read, other than the list before
  or after it.
* The program's end in `Messenger`, where a crash is a `Restart`. In `AddressBook` and
  `Session` exceptions end the program, in `WireFormat` they are the outcome
  `"terminated"`.

## 9. Plan

In this order, the most important first; the first eight steps are done.

1. `AddressBook`: the threads of a peer. Invariants proved.
2. `Delivery` and `Messenger`: histories and endpoints across peers. The
   refinement and the invariants proved.
3. `ChatPage`: the window against the workers.
4. `WireFormat`: datagrams, by bytes.
5. `Session`: constructor and destructor against workers, timers and the DHT's
   thread, with the chains of `UdpHolePuncher` and the refresh of `DhtIpResolver`.
   Invariants proved.
6. `Messenger` with peers that move and datagrams that are duplicated; `ChatPage`
   with names that share a key; `AddressBook` with contacts of an ended session.
7. Proofs of 1, 2, 5 and of `NoForwardingLoop` for any number of relays.
8. Proofs of 3 and 4, and of `OneReceiveChain`.
9. The order of `Members` as a parameter of `Session`, to prove that with
   `threads_` as the last member every handler finds what it uses.
10. A second relay in the runs of `Messenger`, for what is only checked there.
