--------------------------- MODULE AddressBookProofs ---------------------------
(***************************************************************************)
(* For any number of workers, contacts and addresses and any queue bound:  *)
(* the state keeps its type, a contact that the session has announced is   *)
(* held by one of the two resolvers, and so no send to one meets a null    *)
(* key or an unresolved address.                                           *)
(***************************************************************************)
EXTENDS AddressBook, TLAPS

(* What a label says about the shape of a job.                             *)
LEMMA JobShape ==
  ASSUME NEW job \in {Idle, Receive, Rearm} \cup Receiving \cup Sending
  PROVE  /\ job.at \in {"put_address", "put_key", "punch", "handle"} => job \in Receiving
         /\ job.at \in {"resolve_metadata", "resolve_dht", "key_metadata", "key_dht",
                        "send_to", "unresolved", "null_key"} => job \in Sending
         /\ job.at = "idle" => job = Idle
BY DEF Idle, Receive, Rearm, Receiving, Sending

LEMMA InitTypeOK == Init => TypeOK
BY ContactAssumption, MyLoginAssumption
   DEF Init, TypeOK, Showing, Idle, Posted

LEMMA StepTypeOK == TypeOK /\ [Next]_vars => TypeOK'
<1> SUFFICES ASSUME TypeOK, [Next]_vars PROVE TypeOK'
    OBVIOUS
<1> USE DEF TypeOK, books, fate
<1>1. CASE SocketReadable
  <2>1. Append(ready, Receive) \in Seq({Receive} \cup Posted)
    OBVIOUS
  <2> QED BY <1>1, <2>1 DEF SocketReadable
<1>2. ASSUME NEW w \in Worker, WorkerStep(w) PROVE TypeOK'
  <2> DEFINE Job == {Idle, Receive, Rearm} \cup Receiving \cup Sending
  <2>0. worker[w] \in Job
    OBVIOUS
  <2>1. CASE RunHandler(w)
    <3>1. Head(ready) \in Job /\ Tail(ready) \in Seq({Receive} \cup Posted)
      BY <2>1 DEF RunHandler, Posted
    <3> QED BY <2>1, <3>1 DEF RunHandler
  <2>2. CASE ReceiveFrom(w)
    BY <2>2 DEF ReceiveFrom
  <2>3. CASE PutAddress(w)
    BY <2>0, <2>3, JobShape DEF PutAddress, Goto, Receiving
  <2>4. CASE PutKey(w)
    <3>1. worker[w] \in Receiving
      BY <2>0, <2>4, JobShape DEF PutKey
    <3>2. worker[w].kind = "message" => [worker[w] EXCEPT !.at = "punch"] \in Receiving
      BY <3>1 DEF Receiving
    <3>3. worker' \in [Worker -> Job]
      BY <2>4, <3>2 DEF PutKey
    <3>4. metaKey' \in SUBSET Key
      BY <2>4, <3>1, ContactAssumption DEF PutKey, Receiving
    <3> QED BY <2>4, <3>3, <3>4 DEF PutKey
  <2>5. CASE StartHolePunching(w)
    BY <2>0, <2>5, JobShape DEF StartHolePunching, Goto, Receiving
  <2>6. CASE Handle(w)
    BY <2>0, <2>6, JobShape DEF Handle, Receiving
  <2>7. CASE AsyncWait(w)
    BY <2>7 DEF AsyncWait
  <2>8. CASE ResolveMetadata(w)
    <3>1. worker[w] \in Sending
      BY <2>0, <2>8, JobShape DEF ResolveMetadata
    <3>2. /\ [worker[w] EXCEPT !.at = "key_metadata", !.source = "metadata"] \in Sending
          /\ [worker[w] EXCEPT !.at = "resolve_dht"] \in Sending
      BY <3>1 DEF Sending
    <3>3. worker' \in [Worker -> Job]
      BY <2>8, <3>2 DEF ResolveMetadata, Goto
    <3> QED BY <2>8, <3>3 DEF ResolveMetadata
  <2>9. CASE ResolveDht(w)
    <3>1. worker[w] \in Sending
      BY <2>0, <2>9, JobShape DEF ResolveDht
    <3>2. /\ [worker[w] EXCEPT !.at = "key_metadata", !.source = "dht"] \in Sending
          /\ [worker[w] EXCEPT !.at = "unresolved"] \in Sending
      BY <3>1 DEF Sending
    <3>3. worker' \in [Worker -> Job]
      BY <2>9, <3>2 DEF ResolveDht, Goto
    <3> QED BY <2>9, <3>3 DEF ResolveDht
  <2>10. CASE KeyMetadata(w)
    BY <2>0, <2>10, JobShape DEF KeyMetadata, Goto, Sending
  <2>11. CASE KeyDht(w)
    BY <2>0, <2>11, JobShape DEF KeyDht, Goto, Sending
  <2>12. CASE SendDone(w)
    BY <2>12 DEF SendDone
  <2> QED BY <1>2, <2>1, <2>2, <2>3, <2>4, <2>5, <2>6, <2>7, <2>8, <2>9, <2>10,
             <2>11, <2>12 DEF WorkerStep
<1>3. CASE DhtStep
  <2>1. CASE DhtPutAddress
    BY <2>1 DEF DhtPutAddress, Listening
  <2>2. CASE DhtPutKey
    BY <2>2, ContactAssumption DEF DhtPutKey, Listening, Idle
  <2>3. CASE DhtHandle
    BY <2>3 DEF DhtHandle, Listening, Idle
  <2> QED BY <1>3, <2>1, <2>2, <2>3 DEF DhtStep
<1>4. CASE GuiStep
  <2>1. ASSUME NEW l \in Login, Listen(l) PROVE TypeOK'
    BY <2>1 DEF Listen
  <2>2. ASSUME NEW c \in Contact, Post(c) PROVE TypeOK'
    BY <2>2 DEF Post, Posted, Sending
  <2>3. ASSUME NEW c \in Contact, ShowMetadata(c) PROVE TypeOK'
    BY <2>3 DEF ShowMetadata, Showing
  <2>4. CASE ShowDht
    BY <2>4 DEF ShowDht, Showing
  <2> QED BY <1>4, <2>1, <2>2, <2>3, <2>4 DEF GuiStep
<1>5. CASE UNCHANGED vars
  BY <1>5 DEF vars
<1> QED BY <1>1, <1>2, <1>3, <1>4, <1>5 DEF Next, Ended

(* Type correctness: every map, the queue and every thread keep the form   *)
(* the code gives them, whatever the threads interleave.                   *)
THEOREM TypeCorrect == Spec => []TypeOK
BY InitTypeOK, StepTypeOK, PTL DEF Spec

-----------------------------------------------------------------------------
(* Nothing is ever taken out of a resolver.                                *)
LEMMA HeldGrows ==
  ASSUME TypeOK, [Next]_vars, NEW c \in Contact
  PROVE  /\ metaAddress[c] # None => metaAddress'[c] # None
         /\ metaKey \subseteq metaKey'
         /\ dhtAddress[c] # None => dhtAddress'[c] # None
         /\ dhtKey \subseteq dhtKey'
<1> DEFINE Grown == /\ metaAddress[c] # None => metaAddress'[c] # None
                    /\ metaKey \subseteq metaKey'
                    /\ dhtAddress[c] # None => dhtAddress'[c] # None
                    /\ dhtKey \subseteq dhtKey'
<1>1. ASSUME NEW w \in Worker, WorkerStep(w) PROVE Grown
  <2>0. worker[w] \in {Idle, Receive, Rearm} \cup Receiving \cup Sending
    BY DEF TypeOK
  <2>1. CASE PutAddress(w)
    <3>1. worker[w].address \in Address
      BY <2>0, <2>1, JobShape DEF PutAddress, Receiving
    <3> QED BY <2>1, <3>1, NoneAssumption DEF PutAddress, TypeOK
  <2>2. CASE PutKey(w)
    BY <2>2 DEF PutKey
  <2>3. CASE UNCHANGED books
    BY <2>3 DEF books
  <2> QED BY <1>1, <2>1, <2>2, <2>3
          DEF WorkerStep, RunHandler, ReceiveFrom, StartHolePunching, Handle, AsyncWait,
              ResolveMetadata, ResolveDht, KeyMetadata, KeyDht, SendDone
<1>2. CASE DhtStep
  BY <1>2, NoneAssumption DEF DhtStep, DhtPutAddress, DhtPutKey, DhtHandle, TypeOK, books
<1>3. CASE UNCHANGED books
  BY <1>3 DEF books
<1> QED BY <1>1, <1>2, <1>3
        DEF Next, Ended, SocketReadable, GuiStep, Listen, Post, ShowMetadata, ShowDht, vars

LEMMA InitHeld == Init => AnnouncedIsHeld
BY DEF Init, AnnouncedIsHeld, SendHeld, ReceiveHeld, Idle

(* A lookup or a put under way stays backed while the resolvers grow.      *)
LEMMA StaysHeld ==
  ASSUME TypeOK, [Next]_vars,
         NEW job \in {Idle, Receive, Rearm} \cup Receiving \cup Sending
  PROVE  /\ SendHeld(job) => SendHeld(job)'
         /\ ReceiveHeld(job) => ReceiveHeld(job)'
<1>1. CASE job \in Sending
  <2>1. job.contact \in Contact
    BY <1>1 DEF Sending
  <2> QED BY <1>1, <2>1, HeldGrows
          DEF Sending, SendHeld, ReceiveHeld, Held, InMetadata, InDht
<1>2. CASE job \in Receiving
  <2>1. job.contact \in Contact
    BY <1>2 DEF Receiving
  <2> QED BY <1>2, <2>1, HeldGrows
          DEF Receiving, SendHeld, ReceiveHeld, Held, InMetadata, InDht
<1>3. CASE job \in {Idle, Receive, Rearm}
  BY <1>3 DEF Idle, Receive, Rearm, SendHeld, ReceiveHeld
<1> QED BY <1>1, <1>2, <1>3

LEMMA StepHeld == TypeOK /\ AnnouncedIsHeld /\ [Next]_vars => AnnouncedIsHeld'
<1> SUFFICES ASSUME TypeOK, AnnouncedIsHeld, [Next]_vars PROVE AnnouncedIsHeld'
    OBVIOUS
<1> DEFINE Job == {Idle, Receive, Rearm} \cup Receiving \cup Sending
<1>t. TypeOK'
  BY StepTypeOK
<1>j. /\ \A i \in DOMAIN ready : ready[i] \in Job /\ ready[i] \in {Receive} \cup Posted
      /\ \A w \in Worker : worker[w] \in Job
  BY DEF TypeOK, Posted
(* What was true of the old jobs is true of them in the new state.         *)
<1>a. \A c \in Contact : Held(c) => Held(c)'
  BY HeldGrows DEF Held, InMetadata, InDht
<1>b. \A job \in Job : SendHeld(job) => SendHeld(job)'
  BY StaysHeld
<1>c. \A job \in Job : ReceiveHeld(job) => ReceiveHeld(job)'
  BY StaysHeld
<1>1. ASSUME NEW c \in announced' PROVE Held(c)'
  <2>0. c \in Contact
    BY <1>t DEF TypeOK
  <2>1. CASE c \in announced
    BY <1>a, <2>0, <2>1 DEF AnnouncedIsHeld
  <2>2. ASSUME NEW w \in Worker, Handle(w), c = worker[w].contact PROVE Held(c)'
    <3>1. Held(c)
      BY <2>2 DEF Handle, AnnouncedIsHeld, ReceiveHeld, Held
    <3> QED BY <1>a, <2>0, <3>1
  <2>3. CASE DhtHandle /\ c = dht.contact
    <3>1. Held(c)
      BY <2>3 DEF DhtHandle, AnnouncedIsHeld, Held
    <3> QED BY <1>a, <2>0, <3>1
  <2>4. \/ c \in announced
        \/ \E w \in Worker : Handle(w) /\ c = worker[w].contact
        \/ DhtHandle /\ c = dht.contact
    BY DEF Next, Ended, vars, SocketReadable, WorkerStep, RunHandler, ReceiveFrom, PutAddress,
           PutKey, StartHolePunching, Handle, AsyncWait, ResolveMetadata, ResolveDht,
           KeyMetadata, KeyDht, SendDone, DhtStep, DhtPutAddress, DhtPutKey, DhtHandle,
           GuiStep, Listen, Post, ShowMetadata, ShowDht
  <2> QED BY <2>1, <2>2, <2>3, <2>4
<1>2. ASSUME NEW i \in DOMAIN ready' PROVE SendHeld(ready[i])'
  <2>1. ASSUME NEW k \in DOMAIN ready, ready'[i] = ready[k] PROVE SendHeld(ready[i])'
    <3>1. PICK job \in Job : job = ready[k]
      BY <1>j
    <3>2. SendHeld(job)'
      BY <1>b, <3>1 DEF AnnouncedIsHeld
    <3> QED BY <2>1, <3>1, <3>2 DEF SendHeld, Held, InMetadata, InDht
  <2>2. CASE ready'[i] = Receive
    BY <2>2 DEF Receive, SendHeld
  <2>3. ASSUME NEW c \in Contact, Post(c), i = Len(ready) + 1 PROVE SendHeld(ready[i])'
    <3>1. ready'[i] = [at |-> "resolve_metadata", contact |-> c,
                       known |-> metaAddress[c], announced |-> c \in announced,
                       source |-> "none"]
      BY <2>3 DEF Post, TypeOK
    <3>2. /\ c \in announced => Held(c)'
          /\ metaAddress[c] # None => metaAddress'[c] # None
      BY <1>a, <2>3, HeldGrows DEF Post, AnnouncedIsHeld
    <3>3. /\ ready'[i].at = "resolve_metadata"
          /\ ready'[i].contact = c
          /\ ready'[i].known = metaAddress[c]
          /\ ready'[i].announced = (c \in announced)
      BY <3>1
    <3> QED BY <3>2, <3>3 DEF SendHeld, Held, InMetadata, InDht
  <2>4. CASE SocketReadable
    BY <2>1, <2>2, <2>4 DEF SocketReadable, TypeOK
  <2>5. ASSUME NEW w \in Worker, RunHandler(w) PROVE SendHeld(ready[i])'
    <3>1. i + 1 \in DOMAIN ready /\ ready'[i] = ready[i + 1]
      BY <2>5 DEF RunHandler, TypeOK
    <3> QED BY <2>1, <3>1
  <2>6. ASSUME NEW c \in Contact, Post(c) PROVE SendHeld(ready[i])'
    BY <2>1, <2>3, <2>6 DEF Post, TypeOK
  <2>7. CASE UNCHANGED ready
    BY <2>1, <2>7
  <2>8. \/ SocketReadable
        \/ \E w \in Worker : RunHandler(w)
        \/ \E c \in Contact : Post(c)
        \/ UNCHANGED ready
    BY DEF Next, Ended, vars, WorkerStep, ReceiveFrom, PutAddress, PutKey, StartHolePunching,
           Handle, AsyncWait, ResolveMetadata, ResolveDht, KeyMetadata, KeyDht, SendDone,
           DhtStep, DhtPutAddress, DhtPutKey, DhtHandle, GuiStep, Listen, ShowMetadata,
           ShowDht
  <2> QED BY <2>4, <2>5, <2>6, <2>7, <2>8
<1>3. ASSUME NEW v \in Worker PROVE SendHeld(worker[v])' /\ ReceiveHeld(worker[v])'
  <2>1. CASE worker'[v] = worker[v]
    <3>1. PICK job \in Job : job = worker[v]
      BY <1>j
    <3>2. SendHeld(job)' /\ ReceiveHeld(job)'
      BY <1>b, <1>c, <3>1 DEF AnnouncedIsHeld
    <3> QED BY <2>1, <3>1, <3>2 DEF SendHeld, ReceiveHeld, Held, InMetadata, InDht
  <2>2. CASE WorkerStep(v)
    <3> DEFINE job == worker[v]
    <3> USE DEF SendHeld, ReceiveHeld, Held, InMetadata, InDht
    <3>0. job \in Job /\ SendHeld(job) /\ ReceiveHeld(job)
      BY <1>j DEF AnnouncedIsHeld
    <3>1. CASE RunHandler(v)
      <4>0. 1 \in DOMAIN ready /\ worker'[v] = ready[1]
        BY <3>1 DEF RunHandler, TypeOK
      <4>1. PICK next \in {Receive} \cup Posted : next = ready[1] /\ worker'[v] = next
        BY <1>j, <4>0
      <4>2. SendHeld(next)'
        <5>1. next \in Job /\ SendHeld(next)
          BY <1>j, <4>0, <4>1 DEF AnnouncedIsHeld
        <5> QED BY <1>b, <5>1
      <4> QED BY <4>1, <4>2 DEF Receive, Posted
    <3>2. CASE ReceiveFrom(v)
      BY <3>2 DEF ReceiveFrom, Rearm, Receiving, TypeOK
    <3>3. CASE PutAddress(v)
      BY <3>0, <3>3, JobShape, NoneAssumption DEF PutAddress, Goto, Receiving, TypeOK
    <3>4. CASE PutKey(v)
      BY <3>0, <3>4, JobShape DEF PutKey, Receiving, Rearm, TypeOK
    <3>5. CASE StartHolePunching(v)
      BY <3>0, <3>5, JobShape DEF StartHolePunching, Goto, books, Receiving, Rearm, TypeOK
    <3>6. CASE Handle(v) \/ AsyncWait(v) \/ SendDone(v)
      BY <3>6 DEF Handle, AsyncWait, SendDone, Rearm, Idle, TypeOK
    <3>7. CASE ResolveMetadata(v)
      <4>1. job \in Sending
        BY <3>0, <3>7, JobShape DEF ResolveMetadata
      <4>2. CASE metaAddress[job.contact] # None
        BY <3>0, <3>7, <4>1, <4>2 DEF ResolveMetadata, books, Sending, TypeOK
      <4>3. CASE metaAddress[job.contact] = None
        <5>1. worker'[v] = [job EXCEPT !.at = "resolve_dht"]
          BY <3>7, <4>3 DEF ResolveMetadata, Goto, TypeOK
        <5>2. (job.announced => InDht(job.contact)) /\ job.known = None
          BY <3>0, <3>7, <4>3 DEF ResolveMetadata
        <5>3. UNCHANGED books
          BY <3>7 DEF ResolveMetadata
        <5> QED BY <4>1, <5>1, <5>2, <5>3 DEF books, Sending
      <4> QED BY <4>2, <4>3
    <3>8. CASE ResolveDht(v)
      BY <3>0, <3>8, JobShape DEF ResolveDht, Goto, books, Sending, TypeOK
    <3>9. CASE KeyMetadata(v)
      BY <3>0, <3>9, JobShape DEF KeyMetadata, Goto, books, Sending, TypeOK
    <3>10. CASE KeyDht(v)
      BY <3>0, <3>10, JobShape DEF KeyDht, Goto, books, Sending, TypeOK
    <3> QED BY <2>2, <3>1, <3>2, <3>3, <3>4, <3>5, <3>6, <3>7, <3>8, <3>9, <3>10
            DEF WorkerStep
  <2>3. ASSUME NEW w \in Worker, WorkerStep(w), w # v PROVE worker'[v] = worker[v]
    BY <2>3 DEF TypeOK, Goto, WorkerStep, RunHandler, ReceiveFrom, PutAddress, PutKey,
           StartHolePunching, Handle, AsyncWait, ResolveMetadata, ResolveDht,
           KeyMetadata, KeyDht, SendDone
  <2>4. (\E w \in Worker : WorkerStep(w)) \/ UNCHANGED worker
    BY DEF Next, Ended, vars, SocketReadable, DhtStep, DhtPutAddress, DhtPutKey, DhtHandle,
           GuiStep, Listen, Post, ShowMetadata, ShowDht
  <2> QED BY <2>1, <2>2, <2>3, <2>4
<1>4. /\ dht'.at = "put_key" => dhtAddress'[dht'.contact] # None
      /\ dht'.at = "handle" => InDht(dht.contact)'
  <2> USE DEF InDht
  <2>0. dht \in {Idle} \cup Listening
    BY DEF TypeOK
  <2>1. CASE DhtPutAddress
    <3>1. CASE UNCHANGED dht
      BY <2>1, <3>1 DEF DhtPutAddress, Idle
    <3>2. ASSUME NEW c \in Contact, NEW a \in Address,
                 dhtAddress' = [dhtAddress EXCEPT ![c] = a],
                 dht' = [at |-> "put_key", contact |-> c]
          PROVE  dhtAddress'[dht'.contact] # None /\ dht'.at = "put_key"
      BY <3>2, NoneAssumption DEF TypeOK
    <3> QED BY <2>1, <3>1, <3>2 DEF DhtPutAddress
  <2>2. CASE DhtPutKey
    BY <2>0, <2>2 DEF DhtPutKey, Listening, Idle, AnnouncedIsHeld
  <2>3. CASE DhtHandle
    BY <2>3 DEF DhtHandle, Idle
  <2>4. CASE UNCHANGED dht
    <3>1. dht.at \in {"put_key", "handle"} => dht.contact \in Contact
      BY <2>0 DEF Listening, Idle
    <3> QED BY <2>4, <3>1, HeldGrows DEF AnnouncedIsHeld
  <2> QED BY <2>1, <2>2, <2>3, <2>4
          DEF Next, Ended, vars, SocketReadable, WorkerStep, RunHandler, ReceiveFrom, PutAddress,
              PutKey, StartHolePunching, Handle, AsyncWait, ResolveMetadata, ResolveDht,
              KeyMetadata, KeyDht, SendDone, DhtStep, GuiStep, Listen, Post,
              ShowMetadata, ShowDht
<1>5. gui'.at = "resolve_dht" /\ gui'.announced => InDht(gui.contact)'
  <2>1. ASSUME NEW c \in Contact, ShowMetadata(c)
        PROVE  gui'.at = "resolve_dht" /\ gui'.announced => InDht(gui.contact)'
    BY <2>1, HeldGrows DEF ShowMetadata, AnnouncedIsHeld, Held, InMetadata, InDht, Idle
  <2>2. CASE ShowDht
    BY <2>2 DEF ShowDht, Idle
  <2>3. CASE UNCHANGED gui
    <3>1. gui.at = "resolve_dht" => gui.contact \in Contact
      BY DEF TypeOK, Showing, Idle
    <3> QED BY <2>3, <3>1, HeldGrows DEF AnnouncedIsHeld, InDht
  <2> QED BY <2>1, <2>2, <2>3
          DEF Next, Ended, vars, SocketReadable, WorkerStep, RunHandler, ReceiveFrom, PutAddress,
              PutKey, StartHolePunching, Handle, AsyncWait, ResolveMetadata, ResolveDht,
              KeyMetadata, KeyDht, SendDone, DhtStep, DhtPutAddress, DhtPutKey, DhtHandle,
              GuiStep, Listen, Post
<1> QED BY <1>1, <1>2, <1>3, <1>4, <1>5 DEF AnnouncedIsHeld

(* A send of an announced contact does not enter the dead ends "null_key"  *)
(* and "unresolved", and neither does a lookup for the label.              *)
LEMMA StepDeadEnds ==
  ASSUME TypeOK, AnnouncedIsHeld, NoNullKey, AlwaysResolved, [Next]_vars
  PROVE  NoNullKey' /\ AlwaysResolved'
<1>1. ASSUME NEW v \in Worker
      PROVE  worker'[v].at \in {"null_key", "unresolved"} => ~worker'[v].announced
  <2>0. /\ worker[v].at \in {"null_key", "unresolved"} => ~worker[v].announced
        /\ SendHeld(worker[v])
        /\ worker[v] \in {Idle, Receive, Rearm} \cup Receiving \cup Sending
    BY DEF NoNullKey, AlwaysResolved, AnnouncedIsHeld, TypeOK
  <2>1. CASE worker'[v] = worker[v]
    BY <2>0, <2>1
  <2>2. CASE ResolveDht(v) \/ KeyDht(v)
    <3>1. worker[v] \in Sending
      BY <2>0, <2>2, JobShape DEF ResolveDht, KeyDht
    <3>2. CASE ~worker[v].announced
      BY <2>2, <3>1, <3>2 DEF ResolveDht, KeyDht, Goto, Sending, TypeOK
    <3>3. CASE InDht(worker[v].contact)
      BY <2>2, <3>1, <3>3 DEF ResolveDht, KeyDht, Goto, InDht, Sending, TypeOK
    <3> QED BY <2>0, <2>2, <3>2, <3>3 DEF ResolveDht, KeyDht, SendHeld
  <2>3. CASE RunHandler(v)
    <3>1. Head(ready) \in {Receive} \cup Posted
      BY <2>3 DEF RunHandler, TypeOK
    <3> QED BY <2>3, <3>1 DEF RunHandler, Receive, Posted, TypeOK
  <2>4. CASE ReceiveFrom(v)
    <3>1. worker'[v] = worker[v] \/ worker'[v].at \in {"put_address", "async_wait"}
      BY <2>4 DEF ReceiveFrom, TypeOK
    <3> QED BY <2>0, <3>1
  <2>5. CASE \/ PutAddress(v) \/ PutKey(v) \/ StartHolePunching(v) \/ Handle(v)
             \/ AsyncWait(v) \/ ResolveMetadata(v) \/ KeyMetadata(v) \/ SendDone(v)
    BY <2>0, <2>5, JobShape
       DEF PutAddress, PutKey, StartHolePunching, Handle, AsyncWait, ResolveMetadata,
           KeyMetadata, SendDone, Goto, Receiving, Sending, Idle, Rearm, TypeOK
  <2>6. ASSUME NEW w \in Worker, WorkerStep(w), w # v PROVE worker'[v] = worker[v]
    BY <2>6 DEF TypeOK, Goto, WorkerStep, RunHandler, ReceiveFrom, PutAddress, PutKey,
           StartHolePunching, Handle, AsyncWait, ResolveMetadata, ResolveDht,
           KeyMetadata, KeyDht, SendDone
  <2>7. (\E w \in Worker : WorkerStep(w)) \/ UNCHANGED worker
    BY DEF Next, Ended, vars, SocketReadable, DhtStep, DhtPutAddress, DhtPutKey, DhtHandle,
           GuiStep, Listen, Post, ShowMetadata, ShowDht
  <2> QED BY <2>1, <2>2, <2>3, <2>4, <2>5, <2>6, <2>7 DEF WorkerStep
<1>2. gui'.at = "resolve_dht" /\ gui'.announced => dhtAddress'[gui'.contact] # None
  BY StepHeld DEF AnnouncedIsHeld, InDht
<1> QED BY <1>1, <1>2 DEF NoNullKey, AlwaysResolved

(* A contact announced in this session is held by a resolver, address and  *)
(* key, whatever the workers, the DHT and the GUI interleave.              *)
THEOREM ContactsAreHeld == Spec => []AnnouncedIsHeld
<1>1. Init => TypeOK /\ AnnouncedIsHeld
  BY InitTypeOK, InitHeld
<1>2. TypeOK /\ AnnouncedIsHeld /\ [Next]_vars => TypeOK' /\ AnnouncedIsHeld'
  BY StepTypeOK, StepHeld
<1> QED BY <1>1, <1>2, PTL DEF Spec

(* A send to a contact announced in this session never dereferences a null *)
(* key in MessageSender::send_message.                                     *)
THEOREM KeyIsNeverNull == Spec => []NoNullKey
<1>1. Init => NoNullKey /\ AlwaysResolved
  BY DEF Init, Idle, NoNullKey, AlwaysResolved
<1>2. TypeOK /\ AnnouncedIsHeld /\ NoNullKey /\ AlwaysResolved /\ [Next]_vars
        => NoNullKey' /\ AlwaysResolved'
  BY StepDeadEnds
<1> QED BY <1>1, <1>2, TypeCorrect, ContactsAreHeld, PTL DEF Spec

(* resolve() finds an address for every contact announced in this session  *)
(* that the user chooses.                                                  *)
THEOREM ContactsResolve == Spec => []AlwaysResolved
<1>1. Init => NoNullKey /\ AlwaysResolved
  BY DEF Init, Idle, NoNullKey, AlwaysResolved
<1>2. TypeOK /\ AnnouncedIsHeld /\ NoNullKey /\ AlwaysResolved /\ [Next]_vars
        => NoNullKey' /\ AlwaysResolved'
  BY StepDeadEnds
<1> QED BY <1>1, <1>2, TypeCorrect, ContactsAreHeld, PTL DEF Spec

(* A send pressed after the contact's endpoint was learned goes there.     *)
THEOREM LearnedAddressWins == Spec => []PrefersLearnedAddress
<1>1. AnnouncedIsHeld => PrefersLearnedAddress
  BY DEF AnnouncedIsHeld, SendHeld, PrefersLearnedAddress
<1> QED BY <1>1, ContactsAreHeld, PTL

-----------------------------------------------------------------------------
(* The receive chain: either the wait is pending and no handler of it is   *)
(* queued or running, or one is, at one place.                             *)
SingleChain ==
  /\ armed => /\ \A i \in DOMAIN ready : ~InReceive(ready[i])
              /\ \A w \in Worker : ~InReceive(worker[w])
  /\ ~armed => \/ \E i \in DOMAIN ready : InReceive(ready[i])
               \/ \E w \in Worker : InReceive(worker[w])
  /\ \A i, j \in DOMAIN ready : InReceive(ready[i]) /\ InReceive(ready[j]) => i = j
  /\ \A v, w \in Worker : InReceive(worker[v]) /\ InReceive(worker[w]) => v = w
  /\ \A i \in DOMAIN ready, w \in Worker : ~(InReceive(ready[i]) /\ InReceive(worker[w]))

(* Within async_wait_handler a worker stays in the chain, and within a     *)
(* posted send outside.                                                    *)
LEMMA ChainPassedOn ==
  ASSUME TypeOK, NEW w \in Worker,
         \/ ReceiveFrom(w) \/ PutAddress(w) \/ PutKey(w) \/ StartHolePunching(w) \/ Handle(w)
         \/ ResolveMetadata(w) \/ ResolveDht(w) \/ KeyMetadata(w) \/ KeyDht(w) \/ SendDone(w)
  PROVE  /\ armed' = armed /\ ready' = ready
         /\ \A v \in Worker : InReceive(worker'[v]) <=> InReceive(worker[v])
<1>1. worker[w] \in {Idle, Receive, Rearm} \cup Receiving \cup Sending
  BY DEF TypeOK
<1>2. armed' = armed /\ ready' = ready /\ \A v \in Worker : v # w => worker'[v] = worker[v]
  BY DEF TypeOK, Goto, ReceiveFrom, PutAddress, PutKey, StartHolePunching, Handle,
         ResolveMetadata, ResolveDht, KeyMetadata, KeyDht, SendDone
<1>3. CASE ReceiveFrom(w)
  <2>1. InReceive(worker[w]) /\ InReceive(worker'[w])
    BY <1>3 DEF ReceiveFrom, InReceive, TypeOK
  <2> QED BY <1>2, <2>1
<1>4. CASE PutAddress(w) \/ PutKey(w) \/ StartHolePunching(w) \/ Handle(w)
  <2>1. worker[w] \in Receiving
    BY <1>1, <1>4, JobShape DEF PutAddress, PutKey, StartHolePunching, Handle
  <2>2. worker'[w].at \in {"put_key", "punch", "handle", "async_wait"}
    <3>1. CASE PutAddress(w)
      BY <2>1, <3>1 DEF PutAddress, Goto, Receiving, TypeOK
    <3>2. CASE PutKey(w)
      BY <2>1, <3>2 DEF PutKey, Rearm, Receiving, TypeOK
    <3>3. CASE StartHolePunching(w)
      BY <2>1, <3>3 DEF StartHolePunching, Goto, Rearm, Receiving, TypeOK
    <3>4. CASE Handle(w)
      BY <3>4 DEF Handle, Rearm, TypeOK
    <3> QED BY <1>4, <3>1, <3>2, <3>3, <3>4
  <2>3. InReceive(worker[w])
    BY <1>4 DEF PutAddress, PutKey, StartHolePunching, Handle, InReceive
  <2> QED BY <1>2, <2>2, <2>3 DEF InReceive
<1>5. CASE ResolveMetadata(w) \/ ResolveDht(w) \/ KeyMetadata(w) \/ KeyDht(w) \/ SendDone(w)
  <2>1. worker[w] \in Sending
    BY <1>1, <1>5, JobShape DEF ResolveMetadata, ResolveDht, KeyMetadata, KeyDht, SendDone
  <2>2. worker'[w].at \in {"resolve_dht", "key_metadata", "key_dht", "send_to", "unresolved",
                           "null_key", "idle"}
    <3>1. CASE ResolveMetadata(w)
      BY <2>1, <3>1 DEF ResolveMetadata, Goto, Sending, TypeOK
    <3>2. CASE ResolveDht(w)
      BY <2>1, <3>2 DEF ResolveDht, Goto, Sending, TypeOK
    <3>3. CASE KeyMetadata(w)
      BY <2>1, <3>3 DEF KeyMetadata, Goto, Sending, TypeOK
    <3>4. CASE KeyDht(w)
      BY <2>1, <3>4 DEF KeyDht, Goto, Sending, TypeOK
    <3>5. CASE SendDone(w)
      BY <3>5 DEF SendDone, Idle, TypeOK
    <3> QED BY <1>5, <3>1, <3>2, <3>3, <3>4, <3>5
  <2>3. ~InReceive(worker[w])
    BY <1>5 DEF ResolveMetadata, ResolveDht, KeyMetadata, KeyDht, SendDone, InReceive
  <2> QED BY <1>2, <2>2, <2>3 DEF InReceive
<1> QED BY <1>3, <1>4, <1>5

LEMMA StepChain == TypeOK /\ SingleChain /\ [Next]_vars => SingleChain'
<1> SUFFICES ASSUME TypeOK, SingleChain, [Next]_vars PROVE SingleChain'
    OBVIOUS
<1>1. CASE /\ armed' = armed /\ ready' = ready
           /\ \A v \in Worker : InReceive(worker'[v]) <=> InReceive(worker[v])
  BY <1>1 DEF SingleChain, InReceive
<1>2. CASE SocketReadable
  <2>1. /\ ~armed' /\ armed /\ worker' = worker
        /\ Len(ready) + 1 \in DOMAIN ready' /\ ready'[Len(ready) + 1] = Receive
        /\ \A i \in DOMAIN ready' :
             i = Len(ready) + 1 \/ (i \in DOMAIN ready /\ ready'[i] = ready[i])
    BY <1>2 DEF SocketReadable, TypeOK
  <2>2. InReceive(Receive)
    BY DEF InReceive, Receive
  <2> QED BY <2>1, <2>2 DEF SingleChain, InReceive
<1>3. ASSUME NEW c \in Contact, Post(c) PROVE SingleChain'
  <2> DEFINE job == [at |-> "resolve_metadata", contact |-> c,
                     known |-> metaAddress[c], announced |-> c \in announced,
                     source |-> "none"]
  <2>1. ~InReceive(job)
    BY DEF InReceive
  <2>2. ready' = Append(ready, job) /\ armed' = armed /\ worker' = worker
    BY <1>3 DEF Post
  <2> HIDE DEF job
  <2>3. /\ \A i \in DOMAIN ready' :
             ready'[i] = job \/ (i \in DOMAIN ready /\ ready'[i] = ready[i])
        /\ \A i \in DOMAIN ready : i \in DOMAIN ready' /\ ready'[i] = ready[i]
    BY <2>2 DEF TypeOK
  <2> QED BY <2>1, <2>2, <2>3 DEF SingleChain, InReceive
<1>4. ASSUME NEW w \in Worker, RunHandler(w) PROVE SingleChain'
  <2>1. /\ 1 \in DOMAIN ready /\ worker'[w] = ready[1]
        /\ \A i \in DOMAIN ready' : /\ i \in Nat /\ i + 1 \in DOMAIN ready /\ i + 1 # 1
                                    /\ ready'[i] = ready[i + 1]
        /\ \A i \in DOMAIN ready :
             i = 1 \/ (i - 1 \in DOMAIN ready' /\ ready'[i - 1] = ready[i])
    BY <1>4 DEF RunHandler, TypeOK
  <2>2. ~InReceive(worker[w]) /\ armed' = armed
    BY <1>4 DEF RunHandler, InReceive, Idle
  <2>3. \A v \in Worker : v # w => worker'[v] = worker[v]
    BY <1>4 DEF RunHandler, TypeOK
  <2>4. \A i, j \in DOMAIN ready' : i + 1 = j + 1 => i = j
    BY <2>1
  <2> QED BY <2>1, <2>2, <2>3, <2>4 DEF SingleChain, InReceive
<1>5. ASSUME NEW w \in Worker, AsyncWait(w) PROVE SingleChain'
  <2>1. /\ armed' /\ ready' = ready /\ worker'[w] = Idle
        /\ \A v \in Worker : v # w => worker'[v] = worker[v]
    BY <1>5 DEF AsyncWait, TypeOK
  <2>2. InReceive(worker[w]) /\ ~InReceive(Idle)
    BY <1>5 DEF AsyncWait, InReceive, Idle
  <2> QED BY <2>1, <2>2 DEF SingleChain, InReceive
<1>6. ASSUME \/ DhtStep \/ ShowDht \/ Ended \/ (\E l \in Login : Listen(l))
             \/ (\E c \in Contact : ShowMetadata(c)) \/ UNCHANGED vars
      PROVE  UNCHANGED <<armed, ready, worker>>
  BY <1>6 DEF DhtStep, DhtPutAddress, DhtPutKey, DhtHandle, ShowDht, Listen, ShowMetadata, Ended, vars
<1>7. CASE UNCHANGED <<armed, ready, worker>>
  BY <1>1, <1>7
<1> QED BY <1>1, <1>2, <1>3, <1>4, <1>5, <1>6, <1>7, ChainPassedOn DEF Next, WorkerStep, GuiStep

LEMMA ChainIsSet == TypeOK /\ SingleChain => OneReceiveChain
<1> SUFFICES ASSUME TypeOK, SingleChain PROVE OneReceiveChain
    OBVIOUS
<1>1. DOMAIN ready = 1..Len(ready)
  BY DEF TypeOK
<1>2. ASSUME NEW x \in Chains
      PROVE  \/ \E i \in DOMAIN ready : InReceive(ready[i]) /\ x = <<"queue", i>>
             \/ \E w \in Worker : InReceive(worker[w]) /\ x = <<"worker", w>>
  BY <1>1 DEF Chains
<1>3. /\ \A i \in DOMAIN ready : InReceive(ready[i]) => <<"queue", i>> \in Chains
      /\ \A w \in Worker : InReceive(worker[w]) => <<"worker", w>> \in Chains
  BY <1>1 DEF Chains
<1>4. armed <=> Chains = {}
  BY <1>2, <1>3 DEF SingleChain, TypeOK
<1>5. \A x, y \in Chains : x = y
  BY <1>2 DEF SingleChain
<1> QED BY <1>4, <1>5 DEF OneReceiveChain

(* However many workers and handlers there are, no two datagrams are dealt *)
(* with at a time, and no exit of the handler forgets to wait again.       *)
THEOREM ReceiveChainIsSingle == Spec => []OneReceiveChain
<1>1. Init => SingleChain
  BY DEF Init, SingleChain, InReceive, Idle
<1>2. Spec => [](TypeOK /\ SingleChain)
  BY <1>1, StepChain, InitTypeOK, StepTypeOK, PTL DEF Spec
<1> QED BY <1>2, ChainIsSet, PTL
=============================================================================
