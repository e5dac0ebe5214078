-------------------------------- MODULE ChatPage --------------------------------
(***************************************************************************)
(* The window of one user.  Handlers of P2PMessengerImpl run on worker     *)
(* threads, write the chat history and emit signals; Qt queues a signal    *)
(* from another thread and the interface thread handles it some time later.*)
(* The user clicks and types in between, logs out and logs in again.       *)
(* AddressBook and Messenger model what the handlers do before this.       *)
(***************************************************************************)
EXTENDS Naturals, Sequences, SequencesExt

CONSTANTS
  Worker,     \* threads that run io_context
  Contact,    \* login and key id: what an item of the contacts list shows
  Key,        \* key ids
  KeyOf,      \* the key id of each contact; two logins may have the same
  Me,         \* the user's own contact
  Text,       \* each text is written once, so it names its message
  None,
  MaxLogouts  \* bound

ASSUME ContactAssumption == Me \in Contact /\ None \notin Contact
ASSUME KeyAssumption == KeyOf \in [Contact -> Key]
ASSUME BoundAssumption == MaxLogouts \in Nat

VARIABLES
  session,    \* what the interface thread is about
  connected,  \* the signals are connected to the slots
  task,       \* the handler each worker is in
  outbox,     \* messages posted to io_context
  echoes,     \* texts on their way from the user to the user
  history,    \* ChatHistory
  queue,      \* signals that wait for the interface thread
  contacts,   \* contactsListWidget
  bold,       \* its items in bold type
  current,    \* its currentItem
  view,       \* chatTextEdit
  written,    \* bound: texts used
  logouts,    \* bound
  selected,   \* history variable: what has been current since the last click
  seen,       \* history variable: texts that were on the screen
  missed      \* history variable: texts signalled when nothing was connected

work == <<task, outbox, echoes, history>>
widgets == <<contacts, bold, current, view, selected, seen>>
control == <<session, connected, logouts>>
vars == <<work, queue, widgets, control, written, missed>>

Line == [chat : Contact, own : BOOLEAN, text : Text]
Signal == [kind : {"sent", "received"}, line : Line] \cup [kind : {"contact"}, contact : Contact]
Idle == [step |-> "idle"]
Task == {Idle} \cup [step : {"append", "contact", "message"}, line : Line]

EmptyHistory == [k \in Key |-> <<>>]
SameKey(c, d) == KeyOf[c] = KeyOf[d]
TextsOf(lines) == {lines[i].text : i \in DOMAIN lines}

Init ==
  /\ session = "out" /\ connected = FALSE
  /\ task = [w \in Worker |-> Idle]
  /\ outbox = {} /\ echoes = {}
  /\ history = EmptyHistory
  /\ queue = <<>>
  /\ contacts = {} /\ bold = {} /\ current = None /\ view = <<>>
  /\ written = {} /\ logouts = 0
  /\ selected = {None} /\ seen = {} /\ missed = {}

-----------------------------------------------------------------------------
(* Worker threads                                                          *)

Running == session \in {"starting", "in"}

(* A signal of another thread is queued, or lost if nothing is connected.  *)
Post(signal) == queue' = IF connected THEN Append(queue, signal) ELSE queue

(* The listen callback on the DHT's thread, until it is joined, for each   *)
(* value that is put again.  Bound: one signal of a listed contact waits.   *)
DhtContact(c) ==
  /\ Running \/ session = "stopping"
  /\ [kind |-> "contact", contact |-> c] \notin ToSet(queue)
  /\ c \in contacts => \A i \in DOMAIN queue : queue[i].kind # "contact"
  /\ Post([kind |-> "contact", contact |-> c])
  /\ UNCHANGED <<work, widgets, control, written, missed>>

(* A posted message is sent; a failure is logged and forgotten.            *)
SendPosted(w, l) ==
  /\ Running /\ task[w] = Idle
  /\ l \in outbox /\ outbox' = outbox \ {l}
  /\ \/ /\ task' = [task EXCEPT ![w] = [step |-> "append", line |-> l]]
        /\ echoes' = IF SameKey(l.chat, Me) THEN echoes \cup {l.text} ELSE echoes
     \/ UNCHANGED <<task, echoes>>
  /\ UNCHANGED <<history, queue, widgets, control, written, missed>>

(* ChatHistory::append: one list for each key id.                          *)
Record(l) == history' = [history EXCEPT ![KeyOf[l.chat]] = Append(@, l)]

(* The handler given to MessageSender appends.                             *)
AppendSent(w) ==
  /\ task[w].step = "append"
  /\ Record(task[w].line)
  /\ task' = [task EXCEPT ![w].step = "message"]
  /\ UNCHANGED <<outbox, echoes, queue, widgets, control, written, missed>>

(* Mutant (a definition of this name shows what a property would notice):  *)
(* several handlers receive at a time.                                     *)
ReceiversMutant == {}

(* There is one receive handler at a time: it waits again when it is done. *)
Receivers == {w \in Worker : task[w] # Idle /\ ~task[w].line.own}

(* The handler given to MessageReceiver appends.                           *)
ReceiveMessage(w, c, t) ==
  LET l == [chat |-> c, own |-> FALSE, text |-> t] IN
  /\ Running /\ task[w] = Idle /\ Receivers = {}
  /\ IF c = Me THEN t \in echoes /\ echoes' = echoes \ {t} /\ UNCHANGED written
               ELSE t \notin written /\ written' = written \cup {t} /\ UNCHANGED echoes
  /\ Record(l)
  /\ task' = [task EXCEPT ![w] = [step |-> "contact", line |-> l]]
  /\ UNCHANGED <<outbox, queue, widgets, control, missed>>

EmitContact(w) ==
  /\ task[w].step = "contact"
  /\ Post([kind |-> "contact", contact |-> task[w].line.chat])
  /\ task' = [task EXCEPT ![w].step = "message"]
  /\ UNCHANGED <<outbox, echoes, history, widgets, control, written, missed>>

(* Mutant: the worker waits until the interface thread takes signals.      *)
EmitBlockingMutant(w) ==
  /\ task[w].step = "message" /\ session = "in"
  /\ Post([kind |-> IF task[w].line.own THEN "sent" ELSE "received", line |-> task[w].line])
  /\ task' = [task EXCEPT ![w] = Idle]
  /\ UNCHANGED <<outbox, echoes, history, widgets, control, written, missed>>

EmitMessage(w) ==
  /\ task[w].step = "message"
  /\ Post([kind |-> IF task[w].line.own THEN "sent" ELSE "received", line |-> task[w].line])
  /\ missed' = IF connected THEN missed ELSE missed \cup {task[w].line.text}
  /\ task' = [task EXCEPT ![w] = Idle]
  /\ UNCHANGED <<outbox, echoes, history, widgets, control, written>>

-----------------------------------------------------------------------------
(* The interface thread: slots                                             *)

(* update_contacts_list_with_received_contact.  (For the current item the  *)
(* address label is filled, from the messenger.)                           *)
HandleContact(c) ==
  /\ session \in {"in", "out"} /\ queue # <<>> /\ Head(queue).kind = "contact"
  /\ c = Head(queue).contact /\ queue' = Tail(queue)
  /\ contacts' = contacts \cup {c}
  /\ UNCHANGED <<work, bold, current, view, selected, seen, control, written, missed>>

Show(lines) == view' = view \o lines /\ seen' = seen \cup TextsOf(lines)

(* update_chat_with_sent_message: whatever chat is shown.                  *)
HandleSent ==
  /\ session \in {"in", "out"} /\ queue # <<>> /\ Head(queue).kind = "sent"
  /\ queue' = Tail(queue)
  /\ IF SameKey(Head(queue).line.chat, Me) THEN UNCHANGED <<view, seen>> ELSE Show(<<Head(queue).line>>)
  /\ UNCHANGED <<work, contacts, bold, current, selected, control, written, missed>>

(* Mutants: only a contact that is not in the list yet gets noticed; the   *)
(* contact is noticed without being in the list.                           *)
NotifyOnlyNewMutant(c) ==
  /\ contacts' = contacts \cup {c}
  /\ bold' = IF c \in contacts THEN bold ELSE bold \cup {c}
  /\ UNCHANGED session
NotifyUnlistedMutant(c) == bold' = bold \cup {c} /\ UNCHANGED <<contacts, session>>

(* notify: a missing contact is added to the list, but items stays empty,  *)
(* and items.first() is undefined; the program is taken to stop there.     *)
Notify(c) ==
  IF c \in contacts
    THEN bold' = bold \cup {c} /\ UNCHANGED <<contacts, session>>
    ELSE contacts' = contacts \cup {c} /\ session' = "crashed" /\ UNCHANGED bold

(* Mutants: the message is shown whoever is selected; not even another     *)
(* name of the selected contact will do.                                   *)
ForCurrentMutant(c) == current # None
ForCurrentNameMutant(c) == current = c

ForCurrent(c) == current # None /\ SameKey(current, c)

(* update_chat_with_received_message                                       *)
HandleReceived ==
  /\ session \in {"in", "out"} /\ queue # <<>> /\ Head(queue).kind = "received"
  /\ queue' = Tail(queue)
  /\ IF ForCurrent(Head(queue).line.chat)
       THEN Show(<<Head(queue).line>>) /\ UNCHANGED <<contacts, bold, session>>
       ELSE Notify(Head(queue).line.chat) /\ UNCHANGED <<view, seen>>
  /\ UNCHANGED <<work, current, selected, connected, logouts, written, missed>>

-----------------------------------------------------------------------------
(* The interface thread: the user                                          *)

(* Mutant: the chat is not read again when it is the current one already.  *)
LoadOnceMutant(c) == IF c = current THEN view ELSE history[KeyOf[c]]

(* The list of ChatHistory::get is read without its lock while workers     *)
(* append to it: an entry appended meanwhile is seen or not, as if the     *)
(* whole list were read before it was appended or after.                   *)
Load(c) == history[KeyOf[c]]

(* on_contactsListWidget_itemClicked; the press has made c current.        *)
ClickContact(c) ==
  /\ session = "in" /\ c \in contacts
  /\ current' = c /\ bold' = bold \ {c}
  /\ view' = Load(c) /\ seen' = seen \cup TextsOf(view')
  /\ selected' = {c}
  /\ UNCHANGED <<work, queue, contacts, control, written, missed>>

(* Arrow keys, and a press that has not been released, move currentItem    *)
(* without itemClicked.                                                    *)
MoveCurrent(c) ==
  /\ session = "in" /\ c \in contacts \ {current}
  /\ current' = c /\ selected' = selected \cup {c}
  /\ UNCHANGED <<work, queue, contacts, bold, view, seen, control, written, missed>>

(* send_message: posted to the workers.                                    *)
SendMessage(t) ==
  /\ session = "in" /\ current # None /\ t \notin written
  /\ written' = written \cup {t}
  /\ outbox' = outbox \cup {[chat |-> current, own |-> TRUE, text |-> t]}
  /\ UNCHANGED <<task, echoes, history, queue, widgets, control, missed>>

(* The constructor of P2PMessengerImpl: workers run before it returns.     *)
StartLogin ==
  /\ session = "out" /\ session' = "starting"
  /\ UNCHANGED <<work, queue, widgets, connected, logouts, written, missed>>

FinishLogin ==
  /\ session = "starting" /\ session' = "in"
  /\ connected' = TRUE
  /\ UNCHANGED <<work, queue, widgets, logouts, written, missed>>

(* on_logoutPushButton_clicked: the destructor stops io_context, and joins *)
(* the workers in their handlers; then the widgets are cleared.  (That the *)
(* workers use members destroyed before them is left out.)                 *)
StartLogout ==
  /\ session = "in" /\ logouts < MaxLogouts
  /\ session' = "stopping" /\ logouts' = logouts + 1
  /\ outbox' = {} /\ echoes' = {}
  /\ UNCHANGED <<task, history, queue, widgets, connected, written, missed>>

(* Mutant: the list of contacts is kept for the next login.                *)
KeepContactsMutant ==
  /\ session = "stopping" /\ \A w \in Worker : task[w] = Idle
  /\ session' = "out"
  /\ history' = EmptyHistory
  /\ view' = <<>> /\ UNCHANGED <<contacts, bold, current, selected>>
  /\ UNCHANGED <<task, outbox, echoes, queue, seen, connected, logouts, written, missed>>

FinishLogout ==
  /\ session = "stopping" /\ \A w \in Worker : task[w] = Idle
  /\ session' = "out"
  /\ history' = EmptyHistory
  /\ contacts' = {} /\ bold' = {} /\ current' = None /\ view' = <<>>
  /\ selected' = {None}
  /\ UNCHANGED <<task, outbox, echoes, queue, seen, connected, logouts, written, missed>>

WorkerStep(w) == session # "crashed" /\ (AppendSent(w) \/ EmitContact(w) \/ EmitMessage(w))
Slot == (\E c \in Contact : HandleContact(c)) \/ HandleSent \/ HandleReceived

Next ==
  \/ \E c \in Contact : DhtContact(c)
  \/ \E w \in Worker, l \in outbox : SendPosted(w, l)
  \/ \E w \in Worker, c \in Contact, t \in Text : ReceiveMessage(w, c, t)
  \/ \E w \in Worker : WorkerStep(w)
  \/ Slot
  \/ \E c \in Contact : ClickContact(c) \/ MoveCurrent(c)
  \/ \E t \in Text : SendMessage(t)
  \/ StartLogin \/ FinishLogin \/ StartLogout \/ FinishLogout

Spec == Init /\ [][Next]_vars

(* Workers and the event loop go on; users do as they please.              *)
FairSpec ==
  /\ Spec
  /\ \A w \in Worker : WF_vars(WorkerStep(w))
  /\ WF_vars(Slot) /\ WF_vars(FinishLogin) /\ WF_vars(FinishLogout)

-----------------------------------------------------------------------------
TypeOK ==
  /\ session \in {"out", "starting", "in", "stopping", "crashed"}
  /\ connected \in BOOLEAN
  /\ task \in [Worker -> Task]
  /\ outbox \subseteq Line /\ echoes \subseteq Text
  /\ history \in [Key -> Seq(Line)]
  /\ queue \in Seq(Signal)
  /\ contacts \subseteq Contact /\ bold \subseteq contacts
  /\ current \in contacts \cup {None} /\ selected \subseteq Contact \cup {None}
  /\ view \in Seq(Line)
  /\ written \subseteq Text /\ logouts \in 0..MaxLogouts
  /\ seen \subseteq Text /\ missed \subseteq Text

Signalled(l) == \E i \in DOMAIN queue : queue[i].kind # "contact" /\ queue[i].line = l
UnderWay(l) == Signalled(l) \/ \E w \in Worker : task[w] # Idle /\ task[w].line = l

(* A received message is never overlooked, whatever the user clicks while  *)
(* its signal waits: it has been on the screen, or its signal is under     *)
(* way, or its contact is bold.  Signals before connect are lost.          *)
NothingOverlooked ==
  session # "crashed" =>
    \A k \in Key : \A l \in ToSet(history[k]) :
      ~l.own => l.text \in seen \cup missed \/ UnderWay(l) \/ l.chat \in bold

(* As long as the chat that was clicked is the current one, it is shown    *)
(* completely, up to signals under way or lost, whatever was appended by   *)
(* which worker before, during and after the click.                        *)
ShownChatComplete ==
  current # None /\ selected = {current} =>
    \A l \in ToSet(history[KeyOf[current]]) :
      \/ l \in ToSet(view) \/ UnderWay(l) \/ l.text \in missed
      \/ SameKey(current, Me) /\ l.own

(* A received message gets into the view only while a contact of its key   *)
(* is selected, although signals of all chats, of this session and of an   *)
(* ended one, wait while the user clicks.  So a view that was clicked and  *)
(* not left holds one chat.  (After arrow keys it holds the chats of all   *)
(* contacts selected since the click: the code does not load the view      *)
(* again.  What the user wrote is shown whoever is selected.)              *)
NoForeignMessage ==
  \A l \in ToSet(view) : ~l.own => \E c \in selected \cap Contact : SameKey(c, l.chat)

(* Received messages are signalled in the order of the history, although   *)
(* several threads append and emit.                                        *)
PositionOf(l) == LET chat == history[KeyOf[l.chat]] IN CHOOSE i \in DOMAIN chat : chat[i] = l
SignalledInOrder ==
  \A i, j \in DOMAIN queue :
    /\ i < j /\ queue[i].kind = "received" /\ queue[j].kind = "received"
    /\ SameKey(queue[i].line.chat, queue[j].line.chat)
    /\ {queue[i].line, queue[j].line} \subseteq ToSet(history[KeyOf[queue[i].line.chat]])
    => PositionOf(queue[i].line) < PositionOf(queue[j].line)

(* A slot asks the messenger for an address only while there is one: when  *)
(* a signal left over from a session is handled after it, its contact is   *)
(* not the current item.  (update_contacts_list_with_received_contact      *)
(* calls resolve of p2p_messenger_impl_, which logout has reset.)          *)
NeverWithoutMessenger ==
  session = "out" => \A i \in DOMAIN queue : queue[i].kind = "contact" => queue[i].contact # current

(* A contact that is to be notified is in the list: every message is       *)
(* signalled after its contact.  (Violated: the contact's signal may come  *)
(* before connect and the message's after it, and a logout clears the list *)
(* between the two.)                                                       *)
NotifiedIsListed == session # "crashed"

(* A message that is received gets noticed in the end, or the user leaves. *)
ReceivedIsNoticed ==
  \A c \in Contact, t \in Text :
    [chat |-> c, own |-> FALSE, text |-> t] \in ToSet(history[KeyOf[c]])
      ~> (t \in seen \cup missed \/ c \in bold \/ session \notin {"starting", "in"})

(* Logging out ends: the interface thread waits for the workers, and they  *)
(* never for it.                                                           *)
LogoutEnds == session = "stopping" ~> session = "out"
=============================================================================
