----------------------------- MODULE ChatPageProofs -----------------------------
(***************************************************************************)
(* For any number of workers, contacts, texts and logouts: what the window *)
(* shows and hides of the messages that have come.                         *)
(***************************************************************************)
EXTENDS ChatPage, TLAPS

LEMMA TaskShape ==
  ASSUME TypeOK, NEW w \in Worker
  PROVE  /\ task[w] # Idle => /\ task[w] \in [step : {"append", "contact", "message"}, line : Line]
                              /\ task[w].line \in Line
         /\ task[w].step # "idle" => task[w] # Idle
         /\ task[w].step \in {"append", "contact", "message"} => task[w].line \in Line
BY DEF TypeOK, Task, Idle

LEMMA SignalShape ==
  ASSUME NEW s \in Signal
  PROVE  /\ s.kind = "contact" => s.contact \in Contact
         /\ s.kind # "contact" => s.kind \in {"sent", "received"} /\ s.line \in Line
BY DEF Signal

LEMMA TextsOfLines ==
  ASSUME NEW lines \in Seq(Line)
  PROVE  /\ TextsOf(lines) \subseteq Text
         /\ \A i \in DOMAIN lines : lines[i] \in Line /\ lines[i].text \in TextsOf(lines)
<1>1. \A i \in DOMAIN lines : lines[i] \in Line
  OBVIOUS
<1> QED BY <1>1 DEF TextsOf, Line

(* A signal is posted: queued, or lost.                                    *)
LEMMA Posted ==
  ASSUME TypeOK, NEW s \in Signal, Post(s)
  PROVE  /\ queue' \in Seq(Signal)
         /\ \A i \in DOMAIN queue : i \in DOMAIN queue' /\ queue'[i] = queue[i]
         /\ \A i \in DOMAIN queue' :
              \/ i \in DOMAIN queue
              \/ connected /\ i = Len(queue) + 1 /\ queue'[i] = s
         /\ connected => Len(queue) + 1 \in DOMAIN queue' /\ queue'[Len(queue) + 1] = s
         /\ \A i \in DOMAIN queue : i \in Nat /\ i < Len(queue) + 1
BY DEF Post, TypeOK

(* A slot takes the first signal.                                          *)
LEMMA Taken ==
  ASSUME TypeOK, queue # <<>>, queue' = Tail(queue)
  PROVE  /\ queue' \in Seq(Signal) /\ Head(queue) \in Signal
         /\ 1 \in DOMAIN queue /\ Head(queue) = queue[1]
         /\ \A i \in DOMAIN queue' : i \in Nat /\ i + 1 \in DOMAIN queue /\ queue'[i] = queue[i + 1]
         /\ \A i \in DOMAIN queue :
              i = 1 \/ (i - 1 \in DOMAIN queue' /\ queue'[i - 1] = queue[i])
<1>1. queue \in Seq(Signal) /\ Len(queue) \in Nat \ {0} /\ DOMAIN queue = 1..Len(queue)
  BY DEF TypeOK
<1>2. queue' \in Seq(Signal) /\ Len(queue') = Len(queue) - 1 /\ DOMAIN queue' = 1..Len(queue')
  BY <1>1
<1>3. \A i \in DOMAIN queue' : queue'[i] = queue[i + 1]
  BY <1>1, <1>2
<1>4. Head(queue) = queue[1] /\ 1 \in DOMAIN queue
  BY <1>1
<1> QED BY <1>1, <1>2, <1>3, <1>4

(* A line is appended to the history of one key.                           *)
LEMMA Recorded ==
  ASSUME TypeOK, NEW l \in Line, Record(l), NEW k, k = KeyOf[l.chat]
  PROVE  /\ k \in Key /\ history' \in [Key -> Seq(Line)]
         /\ \A d \in Key : \A i \in DOMAIN history[d] :
              i \in DOMAIN history'[d] /\ history'[d][i] = history[d][i]
         /\ \E n \in Nat :
              /\ \A d \in Key : \A i \in DOMAIN history'[d] :
                   \/ i \in DOMAIN history[d]
                   \/ d = k /\ i = n /\ history'[d][i] = l
              /\ n \in DOMAIN history'[k] /\ history'[k][n] = l
              /\ \A i \in DOMAIN history[k] : i \in Nat /\ i < n
<1>1. k \in Key
  BY KeyAssumption DEF Line
<1>2. /\ history[k] \in Seq(Line)
      /\ \A d \in Key : history'[d] = IF d = k THEN Append(history[k], l) ELSE history[d]
  BY <1>1 DEF TypeOK, Record
<1>3. history' \in [Key -> Seq(Line)]
  BY <1>1, <1>2 DEF TypeOK, Record
<1>4. Len(Append(history[k], l)) = Len(history[k]) + 1 /\ Len(history[k]) \in Nat
  BY <1>2
<1>5. /\ Append(history[k], l)[Len(history[k]) + 1] = l
      /\ \A i \in DOMAIN history[k] : Append(history[k], l)[i] = history[k][i]
      /\ DOMAIN history[k] = 1 .. Len(history[k])
      /\ DOMAIN Append(history[k], l) = 1 .. (Len(history[k]) + 1)
  BY <1>2
<1> DEFINE old == history[k]
           new == Append(history[k], l)
<1>6. /\ DOMAIN old = 1 .. Len(old) /\ DOMAIN new = 1 .. (Len(old) + 1) /\ Len(old) \in Nat
      /\ new[Len(old) + 1] = l /\ \A i \in DOMAIN old : new[i] = old[i]
  BY <1>4, <1>5
<1>7. history'[k] = new /\ history[k] = old /\ \A d \in Key : d # k => history'[d] = history[d]
  BY <1>1, <1>2
<1> HIDE DEF old, new
<1>8. \A d \in Key : \A i \in DOMAIN history[d] :
        i \in DOMAIN history'[d] /\ history'[d][i] = history[d][i]
  BY <1>1, <1>6, <1>7
<1>9. PICK n \in Nat : n = Len(old) + 1
  BY <1>6
<1>10. /\ DOMAIN old = 1 .. Len(old) /\ n \in DOMAIN new /\ new[n] = l
       /\ \A i \in DOMAIN old : i \in Nat /\ i < n
       /\ \A i \in DOMAIN new : i \in DOMAIN old \/ i = n
  BY <1>6, <1>9
<1>11. \A d \in Key : \A i \in DOMAIN history'[d] :
         i \in DOMAIN history[d] \/ (d = k /\ i = n /\ history'[d][i] = l)
  BY <1>1, <1>7, <1>10
<1> QED BY <1>1, <1>3, <1>7, <1>8, <1>10, <1>11

-----------------------------------------------------------------------------
LEMMA InitType == Init => TypeOK
<1> SUFFICES ASSUME Init PROVE TypeOK
    OBVIOUS
<1>1. history \in [Key -> Seq(Line)] /\ queue \in Seq(Signal) /\ view \in Seq(Line)
  BY DEF Init, EmptyHistory
<1>2. task \in [Worker -> Task]
  BY DEF Init, Task
<1>3. current \in contacts \cup {None} /\ selected \subseteq Contact \cup {None} /\ bold \subseteq contacts
  BY DEF Init
<1>4. 0 \in 0..MaxLogouts
  BY BoundAssumption
<1> QED BY <1>1, <1>2, <1>3, <1>4 DEF Init, TypeOK

LEMMA WorkerType ==
  ASSUME TypeOK, NEW w \in Worker,
         \/ \E l \in outbox : SendPosted(w, l)
         \/ \E c \in Contact, t \in Text : ReceiveMessage(w, c, t)
         \/ AppendSent(w) \/ EmitContact(w) \/ EmitMessage(w)
  PROVE  TypeOK'
<1>1. ASSUME NEW l \in outbox, SendPosted(w, l) PROVE TypeOK'
  <2>1. l \in Line /\ l.text \in Text
    BY DEF TypeOK, Line
  <2>2. [step |-> "append", line |-> l] \in Task
    BY <2>1 DEF Task
  <2>3. task' \in [Worker -> Task] /\ outbox' \subseteq Line
    BY <1>1, <2>2 DEF SendPosted, TypeOK
  <2>4. echoes' \subseteq Text
    BY <1>1, <2>1 DEF SendPosted, TypeOK
  <2> QED BY <1>1, <2>3, <2>4 DEF SendPosted, TypeOK, widgets, control
<1>2. ASSUME NEW c \in Contact, NEW t \in Text, ReceiveMessage(w, c, t) PROVE TypeOK'
  <2> DEFINE l == [chat |-> c, own |-> FALSE, text |-> t]
  <2>1. l \in Line /\ [step |-> "contact", line |-> l] \in Task
    BY DEF Line, Task
  <2>2. history' \in [Key -> Seq(Line)]
    BY <1>2, <2>1, Recorded DEF ReceiveMessage
  <2>3. task' \in [Worker -> Task] /\ echoes' \subseteq Text /\ written' \subseteq Text
    BY <1>2, <2>1 DEF ReceiveMessage, TypeOK
  <2> QED BY <1>2, <2>2, <2>3 DEF ReceiveMessage, TypeOK, widgets, control
<1>3. CASE AppendSent(w)
  <2>1. task[w].line \in Line /\ task[w].line.chat \in Contact /\ task[w] # Idle
    BY <1>3, TaskShape DEF AppendSent, Line
  <2>2. [task[w] EXCEPT !.step = "message"] \in Task
    BY <2>1, TaskShape DEF Task
  <2>3. history' \in [Key -> Seq(Line)]
    BY <1>3, <2>1, Recorded DEF AppendSent
  <2>4. task' \in [Worker -> Task]
    BY <1>3, <2>2 DEF AppendSent, TypeOK
  <2> QED BY <1>3, <2>3, <2>4 DEF AppendSent, TypeOK, widgets, control
<1>4. CASE EmitContact(w)
  <2>1. task[w].line \in Line /\ task[w].line.chat \in Contact /\ task[w] # Idle
    BY <1>4, TaskShape DEF EmitContact, Line
  <2>2. [task[w] EXCEPT !.step = "message"] \in Task
    BY <2>1, TaskShape DEF Task
  <2>3. queue' \in Seq(Signal)
    BY <1>4, <2>1, Posted DEF EmitContact, Signal
  <2>4. task' \in [Worker -> Task]
    BY <1>4, <2>2 DEF EmitContact, TypeOK
  <2> QED BY <1>4, <2>3, <2>4 DEF EmitContact, TypeOK, widgets, control
<1>5. CASE EmitMessage(w)
  <2>1. task[w].line \in Line /\ task[w].line.text \in Text
    BY <1>5, TaskShape DEF EmitMessage, Line
  <2>2. queue' \in Seq(Signal)
    BY <1>5, <2>1, Posted DEF EmitMessage, Signal
  <2>3. task' \in [Worker -> Task] /\ missed' \subseteq Text
    BY <1>5, <2>1 DEF EmitMessage, TypeOK, Task
  <2> QED BY <1>5, <2>2, <2>3 DEF EmitMessage, TypeOK, widgets, control
<1> QED BY <1>1, <1>2, <1>3, <1>4, <1>5

LEMMA ShowType ==
  ASSUME TypeOK, NEW l \in Line, Show(<<l>>)
  PROVE  /\ view' \in Seq(Line) /\ seen' \subseteq Text
         /\ seen \subseteq seen' /\ l.text \in seen'
         /\ \A i \in DOMAIN view : i \in DOMAIN view' /\ view'[i] = view[i]
         /\ \E i \in DOMAIN view' : view'[i] = l
         /\ \A i \in DOMAIN view' : i \in DOMAIN view \/ view'[i] = l
<1>1. <<l>> \in Seq(Line) /\ view \in Seq(Line) /\ l.text \in Text
  BY DEF TypeOK, Line
<1>2. TextsOf(<<l>>) = {l.text}
  BY DEF TextsOf
<1>3. view' = view \o <<l>>
  BY DEF Show
<1>4. Len(view) + 1 \in DOMAIN view' /\ view'[Len(view) + 1] = l
  BY <1>1, <1>3
<1>5. view' \in Seq(Line) /\ \A i \in DOMAIN view : i \in DOMAIN view' /\ view'[i] = view[i]
  BY <1>1, <1>3
<1>6. \A i \in DOMAIN view' : i \in DOMAIN view \/ view'[i] = l
  BY <1>1, <1>3
<1>7. seen' = seen \cup {l.text} /\ seen \subseteq Text
  BY <1>2 DEF Show, TypeOK
<1> QED BY <1>1, <1>4, <1>5, <1>6, <1>7

LEMMA SlotType == TypeOK /\ Slot => TypeOK'
<1> SUFFICES ASSUME TypeOK, Slot PROVE TypeOK'
    OBVIOUS
<1>1. ASSUME NEW c \in Contact, HandleContact(c) PROVE TypeOK'
  <2>1. queue' \in Seq(Signal)
    BY <1>1, Taken DEF HandleContact
  <2> QED BY <1>1, <2>1 DEF HandleContact, TypeOK, work, control
<1>2. CASE HandleSent
  <2>1. queue' \in Seq(Signal) /\ Head(queue).line \in Line
    BY <1>2, Taken, SignalShape DEF HandleSent
  <2>2. view' \in Seq(Line) /\ seen' \subseteq Text
    BY <1>2, <2>1, ShowType DEF HandleSent, TypeOK
  <2> QED BY <1>2, <2>1, <2>2 DEF HandleSent, TypeOK, work, control
<1>3. CASE HandleReceived
  <2>1. /\ queue' \in Seq(Signal) /\ Head(queue).line \in Line
        /\ Head(queue).line.chat \in Contact
    BY <1>3, Taken, SignalShape DEF HandleReceived, Line
  <2>2. view' \in Seq(Line) /\ seen' \subseteq Text
    BY <1>3, <2>1, ShowType DEF HandleReceived, TypeOK
  <2>3. /\ contacts \subseteq contacts' /\ contacts' \subseteq Contact /\ bold' \subseteq contacts'
        /\ session' \in {session, "crashed"}
    BY <1>3, <2>1 DEF HandleReceived, Notify, TypeOK
  <2> QED BY <1>3, <2>1, <2>2, <2>3 DEF HandleReceived, TypeOK, work
<1> QED BY <1>1, <1>2, <1>3 DEF Slot

LEMMA UserType ==
  ASSUME TypeOK,
         \/ \E c \in Contact : ClickContact(c) \/ MoveCurrent(c)
         \/ \E t \in Text : SendMessage(t)
         \/ StartLogin \/ FinishLogin \/ StartLogout \/ FinishLogout
  PROVE  TypeOK'
<1>1. ASSUME NEW c \in Contact, ClickContact(c) PROVE TypeOK'
  <2>1. view' \in Seq(Line)
    BY <1>1, KeyAssumption DEF ClickContact, Load, TypeOK
  <2>2. seen' \subseteq Text
    BY <1>1, <2>1, TextsOfLines DEF ClickContact, TypeOK
  <2> QED BY <1>1, <2>1, <2>2 DEF ClickContact, TypeOK, work, control
<1>2. ASSUME NEW c \in Contact, MoveCurrent(c) PROVE TypeOK'
  BY <1>2 DEF MoveCurrent, TypeOK, work, control
<1>3. ASSUME NEW t \in Text, SendMessage(t) PROVE TypeOK'
  <2>1. [chat |-> current, own |-> TRUE, text |-> t] \in Line
    BY <1>3 DEF SendMessage, TypeOK, Line
  <2> QED BY <1>3, <2>1 DEF SendMessage, TypeOK, widgets, control
<1>4. CASE StartLogin \/ FinishLogin
  BY <1>4 DEF StartLogin, FinishLogin, TypeOK, work, widgets
<1>5. CASE StartLogout
  BY <1>5, BoundAssumption DEF StartLogout, TypeOK, widgets
<1>6. CASE FinishLogout
  <2>1. history' \in [Key -> Seq(Line)] /\ view' \in Seq(Line)
    BY <1>6 DEF FinishLogout, EmptyHistory
  <2> QED BY <1>6, <2>1 DEF FinishLogout, TypeOK
<1> QED BY <1>1, <1>2, <1>3, <1>4, <1>5, <1>6

LEMMA StepType == TypeOK /\ [Next]_vars => TypeOK'
<1> SUFFICES ASSUME TypeOK, [Next]_vars PROVE TypeOK'
    OBVIOUS
<1>1. ASSUME NEW c \in Contact, DhtContact(c) PROVE TypeOK'
  <2>1. queue' \in Seq(Signal)
    BY <1>1, Posted DEF DhtContact, Signal
  <2> QED BY <1>1, <2>1 DEF DhtContact, TypeOK, work, widgets, control
<1>2. CASE UNCHANGED vars
  BY <1>2 DEF vars, work, widgets, control, TypeOK
<1> QED BY <1>1, <1>2, WorkerType, SlotType, UserType DEF Next, WorkerStep

(* What every thread and slot leaves behind keeps its type.                *)
THEOREM WindowKeepsTypes == Spec => []TypeOK
BY InitType, StepType, PTL DEF Spec

-----------------------------------------------------------------------------
(* The current item is among those selected, and there is none between     *)
(* sessions.                                                               *)
Selected == current \in selected /\ (session = "out" => current = None)

LEMMA SelectedStep == TypeOK /\ Selected /\ [Next]_vars => Selected'
<1> SUFFICES ASSUME TypeOK, Selected, [Next]_vars PROVE Selected'
    OBVIOUS
<1> USE DEF Selected
<1>1. CASE UNCHANGED <<session, current, selected>>
  BY <1>1
<1>2. ASSUME NEW c \in Contact, HandleContact(c) PROVE Selected'
  BY <1>2 DEF HandleContact, control
<1>3. CASE HandleReceived
  BY <1>3 DEF HandleReceived, Notify
<1>4. ASSUME NEW c \in Contact, ClickContact(c) \/ MoveCurrent(c) PROVE Selected'
  BY <1>4 DEF ClickContact, MoveCurrent, control
<1>5. CASE StartLogin \/ FinishLogin \/ StartLogout \/ FinishLogout
  BY <1>5 DEF StartLogin, FinishLogin, StartLogout, FinishLogout, widgets
<1>6. ASSUME NEW w \in Worker,
             \/ \E l \in outbox : SendPosted(w, l)
             \/ \E c \in Contact, t \in Text : ReceiveMessage(w, c, t)
             \/ AppendSent(w) \/ EmitContact(w) \/ EmitMessage(w)
      PROVE  UNCHANGED <<session, current, selected>>
  BY <1>6 DEF SendPosted, ReceiveMessage, AppendSent, EmitContact, EmitMessage, widgets, control
<1>7. ASSUME HandleSent \/ (\E c \in Contact : DhtContact(c)) \/ (\E t \in Text : SendMessage(t))
      PROVE  UNCHANGED <<session, current, selected>>
  BY <1>7 DEF HandleSent, DhtContact, SendMessage, widgets, control
<1>8. CASE UNCHANGED vars
  BY <1>8, <1>1 DEF vars, widgets, control
<1> QED BY <1>1, <1>2, <1>3, <1>4, <1>5, <1>6, <1>7, <1>8 DEF Next, WorkerStep, Slot

LEMMA AlwaysSelected == Spec => [](TypeOK /\ Selected)
<1>1. Init => Selected
  BY DEF Init, Selected
<1> QED BY <1>1, SelectedStep, InitType, StepType, PTL DEF Spec

(* A signal that has outlived its session never makes a slot ask a         *)
(* messenger that logout has reset.                                        *)
THEOREM SlotsFindMessenger == Spec => []NeverWithoutMessenger
<1>1. TypeOK /\ Selected => NeverWithoutMessenger
  <2> SUFFICES ASSUME TypeOK, Selected, session = "out",
                      NEW i \in DOMAIN queue, queue[i].kind = "contact"
               PROVE  queue[i].contact # current
      BY DEF NeverWithoutMessenger
  <2>1. queue[i] \in Signal
    BY DEF TypeOK
  <2> QED BY <2>1, SignalShape, ContactAssumption DEF Selected
<1> QED BY <1>1, AlwaysSelected, PTL

-----------------------------------------------------------------------------
(* Where lines come from: what is posted or appended later was written     *)
(* here, a signal tells of which of the two it is, and a line is in the    *)
(* list of the key it names.                                               *)
LinesOf(chats) == \A k \in Key : \A i \in DOMAIN chats[k] : KeyOf[chats[k][i].chat] = k
Origin ==
  /\ \A l \in outbox : l.own
  /\ \A w \in Worker : /\ task[w].step = "append" => task[w].line.own
                       /\ task[w].step = "contact" => ~task[w].line.own
  /\ \A i \in DOMAIN queue :
       queue[i].kind # "contact" => (queue[i].kind = "sent" <=> queue[i].line.own)
  /\ LinesOf(history)

LEMMA LinesKept ==
  ASSUME TypeOK, LinesOf(history), NEW l \in Line, Record(l)
  PROVE  LinesOf(history')
<1> SUFFICES ASSUME NEW d \in Key, NEW i \in DOMAIN history'[d]
             PROVE  KeyOf[history'[d][i].chat] = d
    BY DEF LinesOf
<1>1. \/ i \in DOMAIN history[d] /\ history'[d][i] = history[d][i]
      \/ d = KeyOf[l.chat] /\ history'[d][i] = l
  BY Recorded
<1> QED BY <1>1 DEF LinesOf

LEMMA OriginStep == TypeOK /\ Origin /\ [Next]_vars => Origin'
<1> SUFFICES ASSUME TypeOK, Origin, [Next]_vars PROVE Origin'
    OBVIOUS
<1>1. CASE UNCHANGED <<task, outbox, history, queue>>
  BY <1>1 DEF Origin, LinesOf
<1>2. ASSUME NEW w \in Worker, NEW l \in outbox, SendPosted(w, l) PROVE Origin'
  <2>1. \A v \in Worker : task'[v] = task[v] \/ task'[v] = [step |-> "append", line |-> l]
    BY <1>2 DEF SendPosted, TypeOK
  <2>2. outbox' \subseteq outbox /\ history' = history /\ queue' = queue /\ l.own
    BY <1>2 DEF SendPosted, Origin
  <2> QED BY <2>1, <2>2 DEF Origin, LinesOf
<1>3. ASSUME NEW w \in Worker, NEW c \in Contact, NEW t \in Text, ReceiveMessage(w, c, t)
      PROVE  Origin'
  <2> DEFINE l == [chat |-> c, own |-> FALSE, text |-> t]
  <2>1. l \in Line /\ l.chat = c /\ ~l.own
    BY DEF Line
  <2>2. \A v \in Worker : task'[v] = task[v] \/ task'[v] = [step |-> "contact", line |-> l]
    BY <1>3 DEF ReceiveMessage, TypeOK
  <2>3. Record(l) /\ outbox' = outbox /\ queue' = queue
    BY <1>3 DEF ReceiveMessage
  <2> HIDE DEF l
  <2>4. LinesOf(history')
    BY <2>1, <2>3, LinesKept DEF Origin
  <2> QED BY <2>1, <2>2, <2>3, <2>4 DEF Origin
<1>4. ASSUME NEW w \in Worker, AppendSent(w) PROVE Origin'
  <2>1. /\ task[w].line \in Line /\ task[w].line.chat \in Contact /\ task[w].line.own
        /\ task[w] \in [step : {"append", "contact", "message"}, line : Line]
    BY <1>4, TaskShape DEF AppendSent, Line, Origin
  <2>2. \A v \in Worker : task'[v] = task[v] \/ task'[v].step = "message"
    BY <1>4, <2>1 DEF AppendSent, TypeOK
  <2>3. LinesOf(history')
    BY <1>4, <2>1, LinesKept DEF AppendSent, Origin
  <2>4. outbox' = outbox /\ queue' = queue
    BY <1>4 DEF AppendSent
  <2>5. ASSUME NEW v \in Worker
        PROVE  /\ task'[v].step = "append" => task'[v].line.own
               /\ task'[v].step = "contact" => ~task'[v].line.own
    BY <2>2 DEF Origin
  <2> QED BY <2>3, <2>4, <2>5 DEF Origin
<1>5. ASSUME NEW w \in Worker, EmitContact(w) PROVE Origin'
  <2>1. /\ task[w].line.chat \in Contact
        /\ task[w] \in [step : {"append", "contact", "message"}, line : Line]
    BY <1>5, TaskShape DEF EmitContact, Line
  <2>2. \A v \in Worker : task'[v] = task[v] \/ task'[v].step = "message"
    BY <1>5, <2>1 DEF EmitContact, TypeOK
  <2>3. [kind |-> "contact", contact |-> task[w].line.chat] \in Signal
    BY <2>1 DEF Signal
  <2>4. \A i \in DOMAIN queue' :
          queue'[i].kind = "contact" \/ (i \in DOMAIN queue /\ queue'[i] = queue[i])
    BY <1>5, <2>3, Posted DEF EmitContact
  <2>5. outbox' = outbox /\ history' = history
    BY <1>5 DEF EmitContact
  <2>6. ASSUME NEW v \in Worker
        PROVE  /\ task'[v].step = "append" => task'[v].line.own
               /\ task'[v].step = "contact" => ~task'[v].line.own
    BY <2>2 DEF Origin
  <2> QED BY <2>4, <2>5, <2>6 DEF Origin
<1>6. ASSUME NEW w \in Worker, EmitMessage(w) PROVE Origin'
  <2> DEFINE s == [kind |-> IF task[w].line.own THEN "sent" ELSE "received", line |-> task[w].line]
  <2>1. task[w].line \in Line
    BY <1>6, TaskShape DEF EmitMessage
  <2>2. s \in Signal /\ (s.kind = "sent" <=> s.line.own)
    BY <2>1 DEF Signal
  <2>3. Post(s) /\ outbox' = outbox /\ history' = history
    BY <1>6 DEF EmitMessage
  <2> HIDE DEF s
  <2>4. \A v \in Worker : task'[v] = task[v] \/ task'[v] = Idle
    BY <1>6 DEF EmitMessage, TypeOK
  <2>5. \A i \in DOMAIN queue' : queue'[i] = s \/ (i \in DOMAIN queue /\ queue'[i] = queue[i])
    BY <2>2, <2>3, Posted
  <2> QED BY <2>2, <2>3, <2>4, <2>5 DEF Origin, Idle
<1>7. CASE Slot
  <2>1. UNCHANGED <<task, outbox, history>> /\ queue # <<>> /\ queue' = Tail(queue)
    BY <1>7 DEF Slot, HandleContact, HandleSent, HandleReceived, work
  <2> QED BY <2>1, Taken DEF Origin
<1>8. ASSUME NEW c \in Contact, DhtContact(c) PROVE Origin'
  <2>1. [kind |-> "contact", contact |-> c] \in Signal
    BY DEF Signal
  <2>2. UNCHANGED <<task, outbox, history>>
    BY <1>8 DEF DhtContact, work
  <2>3. \A i \in DOMAIN queue' :
          queue'[i].kind = "contact" \/ (i \in DOMAIN queue /\ queue'[i] = queue[i])
    BY <1>8, <2>1, Posted DEF DhtContact
  <2> QED BY <2>2, <2>3 DEF Origin
<1>9. ASSUME NEW t \in Text, SendMessage(t) PROVE Origin'
  BY <1>9 DEF SendMessage, Origin
<1>10. CASE StartLogout \/ FinishLogout
  BY <1>10 DEF StartLogout, FinishLogout, Origin, LinesOf, EmptyHistory
<1>11. ASSUME NEW c \in Contact, ClickContact(c) \/ MoveCurrent(c) PROVE Origin'
  BY <1>1, <1>11 DEF ClickContact, MoveCurrent, work
<1>12. CASE StartLogin \/ FinishLogin \/ UNCHANGED vars
  BY <1>1, <1>12 DEF StartLogin, FinishLogin, vars, work
<1> QED BY <1>2, <1>3, <1>4, <1>5, <1>6, <1>7, <1>8, <1>9, <1>10, <1>11, <1>12
        DEF Next, WorkerStep

LEMMA AlwaysOrigin == Spec => [](TypeOK /\ Origin)
<1>1. Init => Origin
  BY DEF Init, Origin, LinesOf, EmptyHistory, Idle
<1> QED BY <1>1, OriginStep, InitType, StepType, PTL DEF Spec

-----------------------------------------------------------------------------
(* Of what the window shows nothing goes but by a click or a logout, and   *)
(* what has been seen, missed or undefined remains so.                     *)
LEMMA WindowKept ==
  ASSUME TypeOK, [Next]_vars
  PROVE  /\ \/ \E c \in Contact : ClickContact(c) \/ MoveCurrent(c)
            \/ FinishLogout
            \/ UNCHANGED <<current, selected>> /\ bold \subseteq bold' /\ ToSet(view) \subseteq ToSet(view')
         /\ seen \subseteq seen' /\ missed \subseteq missed'
         /\ session = "crashed" => session' = "crashed"
<1> DEFINE Kept ==
      /\ UNCHANGED <<current, selected>> /\ bold \subseteq bold' /\ ToSet(view) \subseteq ToSet(view')
      /\ seen \subseteq seen' /\ missed \subseteq missed'
      /\ session = "crashed" => session' = "crashed"
<1>1. ASSUME UNCHANGED vars PROVE Kept
  BY <1>1 DEF vars, widgets, control
<1>2. ASSUME NEW w \in Worker,
             \/ \E l \in outbox : SendPosted(w, l)
             \/ \E c \in Contact, t \in Text : ReceiveMessage(w, c, t)
             \/ AppendSent(w) \/ EmitContact(w) \/ EmitMessage(w)
      PROVE  Kept
  BY <1>2 DEF SendPosted, ReceiveMessage, AppendSent, EmitContact, EmitMessage, widgets, control
<1>3. ASSUME (\E c \in Contact : DhtContact(c)) \/ (\E t \in Text : SendMessage(t))
             \/ StartLogin \/ FinishLogin \/ StartLogout
      PROVE  Kept
  BY <1>3 DEF DhtContact, SendMessage, StartLogin, FinishLogin, StartLogout, widgets, control
<1>4. ASSUME NEW c \in Contact, HandleContact(c) PROVE Kept
  BY <1>4 DEF HandleContact, control
<1>5. ASSUME HandleSent PROVE Kept
  <2>1. Head(queue).line \in Line
    BY <1>5, Taken, SignalShape DEF HandleSent
  <2>2. ToSet(view) \subseteq ToSet(view') /\ seen \subseteq seen'
    BY <1>5, <2>1, ShowType DEF HandleSent, ToSet
  <2> QED BY <1>5, <2>2 DEF HandleSent, control
<1>6. ASSUME HandleReceived PROVE Kept
  <2>1. Head(queue).line \in Line
    BY <1>6, Taken, SignalShape DEF HandleReceived
  <2>2. ToSet(view) \subseteq ToSet(view') /\ seen \subseteq seen'
    BY <1>6, <2>1, ShowType DEF HandleReceived, ToSet
  <2>3. bold \subseteq bold' /\ session # "crashed"
    BY <1>6 DEF HandleReceived, Notify
  <2> QED BY <1>6, <2>2, <2>3 DEF HandleReceived
<1>7. ASSUME NEW c \in Contact, ClickContact(c) \/ MoveCurrent(c)
      PROVE  seen \subseteq seen' /\ missed' = missed /\ session # "crashed"
  BY <1>7 DEF ClickContact, MoveCurrent
<1>8. ASSUME FinishLogout PROVE seen' = seen /\ missed' = missed /\ session # "crashed"
  BY <1>8 DEF FinishLogout
<1> HIDE DEF Kept
<1>9. \/ Kept
      \/ \E c \in Contact : ClickContact(c) \/ MoveCurrent(c)
      \/ FinishLogout
  BY <1>1, <1>2, <1>3, <1>4, <1>5, <1>6 DEF Next, WorkerStep, Slot
<1> QED BY <1>7, <1>8, <1>9 DEF Kept

(* A line under way stays so until its signal is handled or lost.          *)
LEMMA WayEnds ==
  ASSUME TypeOK, [Next]_vars, NEW l, UnderWay(l)
  PROVE  \/ UnderWay(l)'
         \/ l.text \in missed'
         \/ (HandleSent \/ HandleReceived) /\ l = Head(queue).line
<1> USE DEF UnderWay, Signalled
<1>1. CASE UNCHANGED <<task, queue>>
  BY <1>1
<1>2. ASSUME NEW w \in Worker, task[w] = Idle, queue' = queue,
             \A v \in Worker : v # w => task'[v] = task[v]
      PROVE  UnderWay(l)'
  BY <1>2
<1>3. ASSUME NEW w \in Worker, AppendSent(w) \/ EmitContact(w) PROVE UnderWay(l)'
  <2>1. /\ task[w].line.chat \in Contact
        /\ task[w] \in [step : {"append", "contact", "message"}, line : Line]
    BY <1>3, TaskShape DEF AppendSent, EmitContact, Line
  <2>2. \A v \in Worker : task[v] # Idle => task'[v] # Idle /\ task'[v].line = task[v].line
    <3>1. task' = [task EXCEPT ![w] = [task[w] EXCEPT !.step = "message"]]
      BY <1>3 DEF AppendSent, EmitContact
    <3>2. /\ task'[w].step = "message" /\ task'[w].line = task[w].line
          /\ \A v \in Worker : v # w => task'[v] = task[v]
      BY <2>1, <3>1 DEF TypeOK
    <3> QED BY <3>2 DEF Idle
  <2>3. [kind |-> "contact", contact |-> task[w].line.chat] \in Signal
    BY <2>1 DEF Signal
  <2>4. \A i \in DOMAIN queue : i \in DOMAIN queue' /\ queue'[i] = queue[i]
    BY <1>3, <2>3, Posted DEF AppendSent, EmitContact
  <2> QED BY <2>2, <2>4
<1>4. ASSUME NEW w \in Worker, EmitMessage(w) PROVE UnderWay(l)' \/ l.text \in missed'
  <2> DEFINE s == [kind |-> IF task[w].line.own THEN "sent" ELSE "received", line |-> task[w].line]
  <2>1. task[w].line \in Line
    BY <1>4, TaskShape DEF EmitMessage
  <2>2. s \in Signal /\ s.kind # "contact" /\ s.line = task[w].line
    BY <2>1 DEF Signal
  <2>3. Post(s)
    BY <1>4 DEF EmitMessage
  <2> HIDE DEF s
  <2>4. /\ \A i \in DOMAIN queue : i \in DOMAIN queue' /\ queue'[i] = queue[i]
        /\ connected => \E i \in DOMAIN queue' : queue'[i] = s
    BY <2>2, <2>3, Posted
  <2>5. \A v \in Worker : v # w => task'[v] = task[v]
    BY <1>4 DEF EmitMessage, TypeOK
  <2>6. ~connected => task[w].line.text \in missed'
    BY <1>4 DEF EmitMessage
  <2> QED BY <2>2, <2>4, <2>5, <2>6
<1>5. ASSUME NEW c \in Contact, DhtContact(c) PROVE UnderWay(l)'
  <2>1. [kind |-> "contact", contact |-> c] \in Signal
    BY DEF Signal
  <2>2. task' = task /\ \A i \in DOMAIN queue : i \in DOMAIN queue' /\ queue'[i] = queue[i]
    BY <1>5, <2>1, Posted DEF DhtContact, work
  <2> QED BY <2>2
<1>6. ASSUME Slot
      PROVE  UnderWay(l)' \/ (Head(queue).kind # "contact" /\ l = Head(queue).line)
  <2>1. task' = task /\ queue # <<>> /\ queue' = Tail(queue)
    BY <1>6 DEF Slot, HandleContact, HandleSent, HandleReceived, work
  <2>2. /\ Head(queue) = queue[1]
        /\ \A i \in DOMAIN queue : i = 1 \/ (i - 1 \in DOMAIN queue' /\ queue'[i - 1] = queue[i])
    BY <2>1, Taken
  <2> QED BY <2>1, <2>2
<1>7. ASSUME NEW c \in Contact, HandleContact(c) PROVE Head(queue).kind = "contact"
  BY <1>7 DEF HandleContact
<1>8. ASSUME NEW w \in Worker, \/ \E m \in outbox : SendPosted(w, m)
                               \/ \E c \in Contact, t \in Text : ReceiveMessage(w, c, t)
      PROVE  UnderWay(l)'
  <2>1. task[w] = Idle /\ queue' = queue /\ \A v \in Worker : v # w => task'[v] = task[v]
    BY <1>8 DEF SendPosted, ReceiveMessage, TypeOK
  <2> QED BY <1>2, <2>1
<1>9. ASSUME (\E c \in Contact : ClickContact(c) \/ MoveCurrent(c)) \/ (\E t \in Text : SendMessage(t))
             \/ StartLogin \/ FinishLogin \/ StartLogout \/ FinishLogout \/ UNCHANGED vars
      PROVE  UNCHANGED <<task, queue>>
  BY <1>9 DEF ClickContact, MoveCurrent, SendMessage, StartLogin, FinishLogin, StartLogout,
              FinishLogout, vars, work
<1> HIDE DEF UnderWay
<1> QED BY <1>1, <1>3, <1>4, <1>5, <1>6, <1>7, <1>8, <1>9 DEF Next, WorkerStep, Slot

(* A line that is new in the history is under way.                         *)
LEMMA NewIsUnderWay ==
  ASSUME TypeOK, [Next]_vars, NEW k \in Key, NEW l, l \in ToSet(history'[k])
  PROVE  l \in ToSet(history[k]) \/ UnderWay(l)'
<1>1. CASE history' = history
  BY <1>1
<1>2. ASSUME NEW w \in Worker, NEW m \in Line, Record(m), task'[w] # Idle, task'[w].line = m
      PROVE  l \in ToSet(history[k]) \/ UnderWay(l)'
  <2>1. m = l => UnderWay(l)'
    BY <1>2 DEF UnderWay
  <2>2. \A i \in DOMAIN history'[k] : i \in DOMAIN history[k] \/ history'[k][i] = m
    BY <1>2, Recorded
  <2>3. \A i \in DOMAIN history[k] : history'[k][i] = history[k][i]
    BY <1>2, Recorded
  <2> QED BY <2>1, <2>2, <2>3 DEF ToSet
<1>3. ASSUME NEW w \in Worker, NEW c \in Contact, NEW t \in Text, ReceiveMessage(w, c, t)
      PROVE  l \in ToSet(history[k]) \/ UnderWay(l)'
  <2> DEFINE m == [chat |-> c, own |-> FALSE, text |-> t]
  <2>1. m \in Line /\ Record(m)
    BY <1>3 DEF ReceiveMessage, Line
  <2>2. task'[w] # Idle /\ task'[w].line = m
    BY <1>3 DEF ReceiveMessage, TypeOK, Idle
  <2> HIDE DEF m
  <2> QED BY <1>2, <2>1, <2>2
<1>7. ASSUME NEW w \in Worker, AppendSent(w)
      PROVE  l \in ToSet(history[k]) \/ UnderWay(l)'
  <2>1. /\ task[w].line \in Line
        /\ task[w] \in [step : {"append", "contact", "message"}, line : Line]
    BY <1>7, TaskShape DEF AppendSent
  <2>2. task'[w] # Idle /\ task'[w].line = task[w].line
    BY <1>7, <2>1 DEF AppendSent, TypeOK, Idle
  <2> QED BY <1>2, <1>7, <2>1, <2>2 DEF AppendSent
<1>4. CASE FinishLogout
  BY <1>4 DEF FinishLogout, EmptyHistory, ToSet
<1>5. ASSUME \/ \E w \in Worker : \/ \E m \in outbox : SendPosted(w, m)
                                  \/ EmitContact(w) \/ EmitMessage(w)
             \/ \E d \in Contact : DhtContact(d) \/ ClickContact(d) \/ MoveCurrent(d)
             \/ \E t \in Text : SendMessage(t)
             \/ StartLogin \/ FinishLogin \/ StartLogout \/ UNCHANGED vars
      PROVE  history' = history
  BY <1>5 DEF SendPosted, EmitContact, EmitMessage, DhtContact, ClickContact, MoveCurrent,
              SendMessage, StartLogin, FinishLogin, StartLogout, vars, work
<1>6. ASSUME Slot PROVE history' = history
  BY <1>6 DEF Slot, HandleContact, HandleSent, HandleReceived, work
<1> QED BY <1>1, <1>3, <1>4, <1>5, <1>6, <1>7 DEF Next, WorkerStep

-----------------------------------------------------------------------------
LEMMA ForeignStep ==
  TypeOK /\ Selected /\ Origin /\ NoForeignMessage /\ [Next]_vars => NoForeignMessage'
<1> DEFINE Told(l) == \E c \in selected \cap Contact : SameKey(c, l.chat)
<1> SUFFICES ASSUME TypeOK, Selected, Origin, NoForeignMessage, [Next]_vars,
                    NEW l, l \in ToSet(view'), ~l.own
             PROVE  Told(l)'
    BY DEF NoForeignMessage
<1>1. ASSUME l \in ToSet(view), selected \subseteq selected' PROVE Told(l)'
  BY <1>1 DEF NoForeignMessage, SameKey
<1>2. CASE HandleSent
  <2>1. Head(queue).line \in Line /\ Head(queue).line.own
    BY <1>2, Taken, SignalShape DEF HandleSent, Origin
  <2>2. l \in ToSet(view) /\ selected' = selected
    BY <1>2, <2>1, ShowType DEF HandleSent, ToSet
  <2> QED BY <1>1, <2>2
<1>3. CASE HandleReceived
  <2>1. Head(queue).line \in Line
    BY <1>3, Taken, SignalShape DEF HandleReceived
  <2>2. l \in ToSet(view) \/ ForCurrent(l.chat)
    BY <1>3, <2>1, ShowType DEF HandleReceived, ToSet
  <2>3. ForCurrent(l.chat) => current \in selected \cap Contact /\ SameKey(current, l.chat)
    BY DEF ForCurrent, Selected, TypeOK
  <2>4. selected' = selected
    BY <1>3 DEF HandleReceived
  <2> QED BY <1>1, <2>2, <2>3, <2>4 DEF SameKey
<1>4. ASSUME NEW c \in Contact, ClickContact(c) PROVE Told(l)'
  <2>1. selected' = {c} /\ l \in ToSet(history[KeyOf[c]]) /\ KeyOf[c] \in Key
    BY <1>4, KeyAssumption DEF ClickContact, Load
  <2>2. KeyOf[l.chat] = KeyOf[c]
    BY <2>1 DEF Origin, LinesOf, ToSet
  <2> QED BY <2>1, <2>2 DEF SameKey
<1>5. ASSUME NEW c \in Contact, MoveCurrent(c) PROVE Told(l)'
  BY <1>1, <1>5 DEF MoveCurrent
<1>6. CASE FinishLogout
  BY <1>6 DEF FinishLogout, ToSet
<1>7. ASSUME NEW w \in Worker,
             \/ \E m \in outbox : SendPosted(w, m)
             \/ \E c \in Contact, t \in Text : ReceiveMessage(w, c, t)
             \/ AppendSent(w) \/ EmitContact(w) \/ EmitMessage(w)
      PROVE  UNCHANGED <<view, selected>>
  BY <1>7 DEF SendPosted, ReceiveMessage, AppendSent, EmitContact, EmitMessage, widgets
<1>8. ASSUME \/ \E c \in Contact : DhtContact(c) \/ HandleContact(c)
             \/ \E t \in Text : SendMessage(t)
             \/ StartLogin \/ FinishLogin \/ StartLogout \/ UNCHANGED vars
      PROVE  UNCHANGED <<view, selected>>
  BY <1>8 DEF DhtContact, HandleContact, SendMessage, StartLogin, FinishLogin, StartLogout,
              vars, widgets
<1>9. CASE UNCHANGED <<view, selected>>
  BY <1>1, <1>9
<1> HIDE DEF Told
<1> QED BY <1>2, <1>3, <1>4, <1>5, <1>6, <1>7, <1>8, <1>9 DEF Next, WorkerStep, Slot

(* What others wrote gets into the view only while a contact of its key is *)
(* selected.                                                               *)
THEOREM ForeignMessagesStayOut == Spec => []NoForeignMessage
<1>1. Init => NoForeignMessage
  BY DEF Init, NoForeignMessage, ToSet
<1> QED BY <1>1, ForeignStep, AlwaysSelected, AlwaysOrigin, InitType, StepType, PTL DEF Spec

-----------------------------------------------------------------------------
LEMMA OverlookedStep == TypeOK /\ Origin /\ NothingOverlooked /\ [Next]_vars => NothingOverlooked'
<1> SUFFICES ASSUME TypeOK, Origin, NothingOverlooked, [Next]_vars, session' # "crashed",
                    NEW k \in Key, NEW l, l \in ToSet(history'[k]), ~l.own
             PROVE  l.text \in seen' \cup missed' \/ UnderWay(l)' \/ l.chat \in bold'
    BY DEF NothingOverlooked
<1>1. CASE l \notin ToSet(history[k])
  BY <1>1, NewIsUnderWay
<1>2. CASE l \in ToSet(history[k])
  <2>1. seen \subseteq seen' /\ missed \subseteq missed' /\ session # "crashed"
    BY WindowKept
  <2>2. l.text \in seen \cup missed \/ UnderWay(l) \/ l.chat \in bold
    BY <1>2, <2>1 DEF NothingOverlooked
  <2>3. CASE l.chat \in bold
    <3>1. ASSUME NEW d \in Contact, ClickContact(d) PROVE l.chat \in bold' \/ l.text \in seen'
      <4>1. bold' = bold \ {d} /\ TextsOf(history[KeyOf[d]]) \subseteq seen'
        BY <3>1 DEF ClickContact, Load
      <4>2. l.text \in TextsOf(history[k]) /\ KeyOf[l.chat] = k
        BY <1>2 DEF TextsOf, ToSet, Origin, LinesOf
      <4> QED BY <2>3, <4>1, <4>2
    <3>2. ASSUME NEW d \in Contact, MoveCurrent(d) PROVE l.chat \in bold'
      BY <2>3, <3>2 DEF MoveCurrent
    <3>3. ASSUME FinishLogout PROVE FALSE
      BY <3>3 DEF FinishLogout, EmptyHistory, ToSet
    <3> QED BY <2>3, <3>1, <3>2, <3>3, WindowKept
  <2>4. CASE UnderWay(l)
    <3>1. ASSUME HandleSent, l = Head(queue).line PROVE FALSE
      BY <3>1, Taken DEF HandleSent, Origin
    <3>2. ASSUME HandleReceived, l = Head(queue).line PROVE l.text \in seen' \/ l.chat \in bold'
      <4>1. Head(queue).line \in Line
        BY <3>2, Taken, SignalShape DEF HandleReceived
      <4>2. CASE ForCurrent(l.chat)
        BY <3>2, <4>1, <4>2, ShowType DEF HandleReceived
      <4>3. CASE ~ForCurrent(l.chat)
        BY <3>2, <4>3 DEF HandleReceived, Notify
      <4> QED BY <4>2, <4>3
    <3> QED BY <2>4, <3>1, <3>2, WayEnds
  <2> QED BY <2>1, <2>2, <2>3, <2>4
<1> QED BY <1>1, <1>2

(* A message that has come is on the screen or was, or is announced in     *)
(* bold, or is about to be, whatever the user clicks meanwhile.            *)
THEOREM MessagesGetNoticed == Spec => []NothingOverlooked
<1>1. Init => NothingOverlooked
  BY DEF Init, NothingOverlooked, EmptyHistory, ToSet
<1> QED BY <1>1, OverlookedStep, AlwaysOrigin, InitType, StepType, PTL DEF Spec

-----------------------------------------------------------------------------
LEMMA ShownStep == TypeOK /\ Origin /\ Selected /\ ShownChatComplete /\ [Next]_vars => ShownChatComplete'
<1> SUFFICES ASSUME TypeOK, Origin, Selected, ShownChatComplete, [Next]_vars,
                    current' # None, selected' = {current'},
                    NEW l, l \in ToSet(history'[KeyOf[current']])
             PROVE  \/ l \in ToSet(view') \/ UnderWay(l)' \/ l.text \in missed'
                    \/ SameKey(current', Me) /\ l.own
    BY DEF ShownChatComplete, SameKey
<1>1. ASSUME NEW c \in Contact, ClickContact(c) PROVE l \in ToSet(view')
  BY <1>1 DEF ClickContact, Load, work
<1>2. ASSUME (\E c \in Contact : MoveCurrent(c)) \/ FinishLogout PROVE FALSE
  BY <1>2 DEF MoveCurrent, FinishLogout, Selected
<1>3. CASE UNCHANGED <<current, selected>> /\ ToSet(view) \subseteq ToSet(view')
  <2>1. current # None /\ selected = {current} /\ KeyOf[current] \in Key
    BY <1>3, KeyAssumption DEF TypeOK
  <2>2. CASE l \notin ToSet(history[KeyOf[current]])
    BY <1>3, <2>1, <2>2, NewIsUnderWay
  <2>3. CASE l \in ToSet(history[KeyOf[current]])
    <3>1. \/ l \in ToSet(view) \/ UnderWay(l) \/ l.text \in missed
          \/ SameKey(current, Me) /\ l.own
      BY <2>1, <2>3 DEF ShownChatComplete
    <3>2. KeyOf[l.chat] = KeyOf[current]
      BY <2>1, <2>3 DEF Origin, LinesOf, ToSet
    <3>3. ASSUME HandleSent, l = Head(queue).line
          PROVE  l \in ToSet(view') \/ (SameKey(current, Me) /\ l.own)
      <4>1. Head(queue).line \in Line /\ l.own
        BY <3>3, Taken, SignalShape DEF HandleSent, Origin
      <4> QED BY <3>2, <3>3, <4>1, ShowType DEF HandleSent, SameKey, ToSet
    <3>4. ASSUME HandleReceived, l = Head(queue).line PROVE l \in ToSet(view')
      <4>1. Head(queue).line \in Line
        BY <3>4, Taken, SignalShape DEF HandleReceived
      <4>2. ForCurrent(l.chat)
        BY <2>1, <3>2 DEF ForCurrent, SameKey
      <4> QED BY <3>4, <4>1, <4>2, ShowType DEF HandleReceived, ToSet
    <3>5. missed \subseteq missed'
      BY WindowKept
    <3>6. SameKey(current, Me) => SameKey(current', Me)
      BY <1>3
    <3> QED BY <1>3, <3>1, <3>3, <3>4, <3>5, <3>6, WayEnds
  <2> QED BY <2>2, <2>3
<1> QED BY <1>1, <1>2, <1>3, WindowKept

(* The chat that was clicked lacks no message whose signal has been        *)
(* handled since.                                                          *)
THEOREM ClickedChatIsWhole == Spec => []ShownChatComplete
<1>1. Init => ShownChatComplete
  BY DEF Init, ShownChatComplete
<1> QED BY <1>1, ShownStep, AlwaysSelected, AlwaysOrigin, InitType, StepType, PTL DEF Spec

-----------------------------------------------------------------------------
(* The order of signals.  A text that has come is not on its way any more; *)
(* one worker at a time has a received line, which no line of others       *)
(* follows in the history and no signal tells of yet.  So the signal it    *)
(* posts belongs after the received ones that wait.                        *)
ReceivedBy(w) == task[w] # Idle /\ ~task[w].line.own
HasCome(t) ==
  \/ \E k \in Key : \E p \in DOMAIN history[k] : ~history[k][p].own /\ history[k][p].text = t
  \/ \E i \in DOMAIN queue : queue[i].kind = "received" /\ queue[i].line.text = t
  \/ \E w \in Worker : ReceivedBy(w) /\ task[w].line.text = t
OnItsWay(t) == t \in echoes \/ \E l \in outbox : l.text = t

Accounted ==
  /\ \A t \in Text : HasCome(t) \/ OnItsWay(t) => t \in written
  /\ \A t \in Text : ~(HasCome(t) /\ OnItsWay(t))
  /\ \A l \in outbox : l.text \notin echoes
  /\ \A l, m \in outbox : l.text = m.text => l = m

OneReceiver == \A v, w \in Worker : ReceivedBy(v) /\ ReceivedBy(w) => v = w

LastReceived ==
  \A w \in Worker : ReceivedBy(w) =>
    /\ \A k \in Key : k = KeyOf[task[w].line.chat] =>
         \E n \in DOMAIN history[k] :
           /\ history[k][n] = task[w].line
           /\ \A p \in DOMAIN history[k] : ~history[k][p].own => p <= n
    /\ \A i \in DOMAIN queue : queue[i].kind = "received" => queue[i].line # task[w].line

OnePlace ==
  \A k \in Key : \A p, q \in DOMAIN history[k] :
    history[k][p] = history[k][q] /\ ~history[k][p].own => p = q

InOrder ==
  \A i, j \in DOMAIN queue : i < j /\ queue[i].kind = "received" /\ queue[j].kind = "received" =>
    \A k \in Key : \A p, q \in DOMAIN history[k] :
      history[k][p] = queue[i].line /\ history[k][q] = queue[j].line => p < q

Order == Accounted /\ OneReceiver /\ LastReceived /\ OnePlace /\ InOrder

(* Steps that neither receive a line nor signal a received one.            *)
Calm ==
  /\ \A v \in Worker : ReceivedBy(v)' => ReceivedBy(v) /\ task'[v].line = task[v].line
  /\ \E k \in {0, 1} : \A i \in DOMAIN queue' :
       queue'[i].kind = "received" => i + k \in DOMAIN queue /\ queue'[i] = queue[i + k]
  /\ \A c \in Key : \A p \in DOMAIN history'[c] :
       ~history'[c][p].own => p \in DOMAIN history[c] /\ history'[c][p] = history[c][p]
  /\ \/ \A c \in Key : \A p \in DOMAIN history[c] :
          p \in DOMAIN history'[c] /\ history'[c][p] = history[c][p]
     \/ \A v \in Worker : ~ReceivedBy(v)'

LEMMA CalmOtherwise ==
  ASSUME TypeOK, Origin, [Next]_vars
  PROVE  \/ Calm
         \/ \E w \in Worker, c \in Contact, t \in Text : ReceiveMessage(w, c, t)
         \/ \E w \in Worker : EmitMessage(w) /\ ~task[w].line.own
<1>1. ASSUME UNCHANGED <<task, history, queue>> PROVE Calm
  <2>1. \A i \in DOMAIN queue : i + 0 = i
    BY DEF TypeOK
  <2> QED BY <1>1, <2>1 DEF Calm, ReceivedBy
<1>2. ASSUME UNCHANGED <<task, history>>, NEW c \in Contact, Post([kind |-> "contact", contact |-> c])
      PROVE  Calm
  <2>1. [kind |-> "contact", contact |-> c] \in Signal
    BY DEF Signal
  <2>2. \A i \in DOMAIN queue' :
          queue'[i].kind = "received" => i + 0 \in DOMAIN queue /\ queue'[i] = queue[i + 0]
    BY <1>2, <2>1, Posted
  <2> QED BY <1>2, <2>2 DEF Calm, ReceivedBy
<1>3. ASSUME NEW w \in Worker, NEW l \in outbox, SendPosted(w, l) PROVE Calm
  <2>1. /\ \A v \in Worker : task'[v] = task[v] \/ task'[v] = [step |-> "append", line |-> l]
        /\ l.own /\ history' = history /\ queue' = queue
    BY <1>3 DEF SendPosted, TypeOK, Origin
  <2>2. \A i \in DOMAIN queue : i + 0 = i
    BY DEF TypeOK
  <2> QED BY <2>1, <2>2 DEF Calm, ReceivedBy
<1>4. ASSUME NEW w \in Worker, AppendSent(w) PROVE Calm
  <2>1. /\ task[w].line \in Line /\ task[w].line.chat \in Contact /\ task[w].line.own
        /\ task[w] \in [step : {"append", "contact", "message"}, line : Line]
    BY <1>4, TaskShape DEF AppendSent, Line, Origin
  <2>2. \A v \in Worker : task'[v] = task[v] \/ (task'[v].line = task[v].line /\ task[v].line.own)
    BY <1>4, <2>1 DEF AppendSent, TypeOK
  <2>3. /\ \A c \in Key : \A p \in DOMAIN history'[c] :
             ~history'[c][p].own => p \in DOMAIN history[c] /\ history'[c][p] = history[c][p]
        /\ \A c \in Key : \A p \in DOMAIN history[c] :
             p \in DOMAIN history'[c] /\ history'[c][p] = history[c][p]
    <3>1. PICK l \in Line : l = task[w].line
      BY <2>1
    <3>2. Record(l) /\ l.own
      BY <1>4, <2>1, <3>1 DEF AppendSent
    <3> QED BY <3>2, Recorded
  <2>4. queue' = queue /\ \A i \in DOMAIN queue : i + 0 = i
    BY <1>4 DEF AppendSent, TypeOK
  <2> QED BY <2>2, <2>3, <2>4 DEF Calm, ReceivedBy
<1>5. ASSUME NEW w \in Worker, EmitContact(w) PROVE Calm
  <2>1. /\ task[w].line.chat \in Contact /\ task[w] # Idle
        /\ task[w] \in [step : {"append", "contact", "message"}, line : Line]
    BY <1>5, TaskShape DEF EmitContact, Line
  <2>2. \A v \in Worker : task'[v] = task[v] \/ (task[v] # Idle /\ task'[v].line = task[v].line)
    BY <1>5, <2>1 DEF EmitContact, TypeOK
  <2>3. [kind |-> "contact", contact |-> task[w].line.chat] \in Signal
    BY <2>1 DEF Signal
  <2>4. \A i \in DOMAIN queue' :
          queue'[i].kind = "received" => i + 0 \in DOMAIN queue /\ queue'[i] = queue[i + 0]
    BY <1>5, <2>3, Posted DEF EmitContact
  <2>5. history' = history
    BY <1>5 DEF EmitContact
  <2> QED BY <2>2, <2>4, <2>5 DEF Calm, ReceivedBy
<1>6. ASSUME NEW w \in Worker, EmitMessage(w), task[w].line.own PROVE Calm
  <2>1. task[w].line \in Line /\ [kind |-> "sent", line |-> task[w].line] \in Signal
    BY <1>6, TaskShape DEF EmitMessage, Signal
  <2>2. \A i \in DOMAIN queue' :
          queue'[i].kind = "received" => i + 0 \in DOMAIN queue /\ queue'[i] = queue[i + 0]
    BY <1>6, <2>1, Posted DEF EmitMessage
  <2>3. history' = history /\ \A v \in Worker : task'[v] = task[v] \/ task'[v] = Idle
    BY <1>6 DEF EmitMessage, TypeOK
  <2> QED BY <2>2, <2>3 DEF Calm, ReceivedBy
<1>7. ASSUME Slot PROVE Calm
  <2>1. UNCHANGED <<task, history>> /\ queue # <<>> /\ queue' = Tail(queue)
    BY <1>7 DEF Slot, HandleContact, HandleSent, HandleReceived, work
  <2>2. \A i \in DOMAIN queue' : i + 1 \in DOMAIN queue /\ queue'[i] = queue[i + 1]
    BY <2>1, Taken
  <2> QED BY <2>1, <2>2 DEF Calm, ReceivedBy
<1>8. ASSUME FinishLogout PROVE Calm
  <2>1. /\ UNCHANGED <<task, queue>> /\ \A v \in Worker : task[v] = Idle
        /\ history' = EmptyHistory /\ \A i \in DOMAIN queue : i + 0 = i
    BY <1>8 DEF FinishLogout, TypeOK
  <2> QED BY <2>1 DEF Calm, ReceivedBy, EmptyHistory
<1>9. ASSUME \/ \E c \in Contact : ClickContact(c) \/ MoveCurrent(c)
             \/ \E t \in Text : SendMessage(t)
             \/ StartLogin \/ FinishLogin \/ StartLogout \/ UNCHANGED vars
      PROVE  UNCHANGED <<task, history, queue>>
  BY <1>9 DEF ClickContact, MoveCurrent, SendMessage, StartLogin, FinishLogin, StartLogout,
              vars, work
<1>10. ASSUME NEW c \in Contact, DhtContact(c) PROVE Calm
  BY <1>2, <1>10 DEF DhtContact, work
<1> QED BY <1>1, <1>3, <1>4, <1>5, <1>6, <1>7, <1>8, <1>9, <1>10 DEF Next, WorkerStep

(* How the texts on their way change.                                      *)
LEMMA WayChanges ==
  ASSUME TypeOK, [Next]_vars
  PROVE  \/ \E w \in Worker, c \in Contact, t \in Text : ReceiveMessage(w, c, t)
         \/ outbox' \subseteq outbox /\ echoes' \subseteq echoes /\ written' = written
         \/ \E l \in outbox :
              outbox' = outbox \ {l} /\ echoes' = echoes \cup {l.text} /\ written' = written
         \/ \E l \in Line : /\ l.text \notin written /\ written' = written \cup {l.text}
                            /\ outbox' = outbox \cup {l} /\ echoes' = echoes
<1>1. ASSUME NEW w \in Worker, NEW l \in outbox, SendPosted(w, l)
      PROVE  outbox' = outbox \ {l} /\ echoes' \in {echoes, echoes \cup {l.text}} /\ written' = written
  BY <1>1 DEF SendPosted
<1>2. ASSUME NEW t \in Text, SendMessage(t)
      PROVE  \E l \in Line : /\ l.text \notin written /\ written' = written \cup {l.text}
                             /\ outbox' = outbox \cup {l} /\ echoes' = echoes
  <2> DEFINE l == [chat |-> current, own |-> TRUE, text |-> t]
  <2>1. l \in Line /\ l.text = t
    BY <1>2 DEF SendMessage, TypeOK, Line
  <2> QED BY <1>2, <2>1 DEF SendMessage
<1>3. ASSUME NEW w \in Worker, AppendSent(w) \/ EmitContact(w) \/ EmitMessage(w)
      PROVE  UNCHANGED <<outbox, echoes, written>>
  BY <1>3 DEF AppendSent, EmitContact, EmitMessage
<1>4. ASSUME Slot PROVE UNCHANGED <<outbox, echoes, written>>
  BY <1>4 DEF Slot, HandleContact, HandleSent, HandleReceived, work
<1>5. ASSUME \/ \E c \in Contact : DhtContact(c) \/ ClickContact(c) \/ MoveCurrent(c)
             \/ StartLogin \/ FinishLogin \/ FinishLogout \/ UNCHANGED vars
      PROVE  UNCHANGED <<outbox, echoes, written>>
  BY <1>5 DEF DhtContact, ClickContact, MoveCurrent, StartLogin, FinishLogin, FinishLogout,
              vars, work
<1>6. ASSUME StartLogout PROVE outbox' = {} /\ echoes' = {} /\ written' = written
  BY <1>6 DEF StartLogout
<1> QED BY <1>1, <1>2, <1>3, <1>4, <1>5, <1>6 DEF Next, WorkerStep

(* What a worker that receives a line does.                                *)
LEMMA Receiving ==
  ASSUME TypeOK, Accounted, NEW w \in Worker, NEW c \in Contact, NEW t \in Text,
         ReceiveMessage(w, c, t), NEW l, l = [chat |-> c, own |-> FALSE, text |-> t]
  PROVE  /\ l \in Line /\ l.chat = c /\ l.text = t /\ ~l.own
         /\ Record(l) /\ queue' = queue /\ outbox' = outbox
         /\ \A v \in Worker : ~ReceivedBy(v)
         /\ ReceivedBy(w)' /\ task'[w].line = l
         /\ \A v \in Worker : v # w => ~ReceivedBy(v)'
         /\ ~HasCome(t)
         /\ \/ t \notin written /\ written' = written \cup {t} /\ echoes' = echoes
            \/ t \in echoes /\ written' = written /\ echoes' = echoes \ {t}
<1>1. l \in Line /\ l.chat = c /\ l.text = t /\ ~l.own
  BY DEF Line
<1>2. /\ Record(l) /\ queue' = queue /\ outbox' = outbox
      /\ \/ t \notin written /\ written' = written \cup {t} /\ echoes' = echoes
         \/ t \in echoes /\ written' = written /\ echoes' = echoes \ {t}
  BY DEF ReceiveMessage
<1>3. /\ task'[w] = [step |-> "contact", line |-> l]
      /\ \A v \in Worker : v # w => task'[v] = task[v]
  BY DEF ReceiveMessage, TypeOK
<1>4. \A v \in Worker : ~ReceivedBy(v)
  BY DEF ReceiveMessage, Receivers, ReceivedBy
<1>5. ~HasCome(t)
  BY <1>2 DEF Accounted, OnItsWay
<1> QED BY <1>1, <1>2, <1>3, <1>4, <1>5 DEF ReceivedBy, Idle

LEMMA AccountedStep ==
  ASSUME TypeOK, Origin, Accounted, [Next]_vars
  PROVE  Accounted'
<1>1. ASSUME NEW w \in Worker, NEW c \in Contact, NEW t \in Text, ReceiveMessage(w, c, t)
      PROVE  Accounted'
  <2>1. PICK l : l = [chat |-> c, own |-> FALSE, text |-> t]
    OBVIOUS
  <2>2. \A u \in Text : HasCome(u)' => HasCome(u) \/ u = t
    <3> SUFFICES ASSUME NEW u \in Text, HasCome(u)', u # t PROVE HasCome(u)
        OBVIOUS
    <3>1. \A d \in Key : \A p \in DOMAIN history'[d] :
            (p \in DOMAIN history[d] /\ history'[d][p] = history[d][p]) \/ history'[d][p] = l
      BY <1>1, <2>1, Receiving, Recorded
    <3>2. queue' = queue /\ l.text = t
      BY <1>1, <2>1, Receiving
    <3>3. \A v \in Worker : ReceivedBy(v)' => task'[v].line = l
      BY <1>1, <2>1, Receiving
    <3> QED BY <3>1, <3>2, <3>3 DEF HasCome
  <2>3. outbox' = outbox /\ t \in written'
        /\ \/ t \notin written /\ written' = written \cup {t} /\ echoes' = echoes
           \/ t \in echoes /\ written' = written /\ echoes' = echoes \ {t}
    BY <1>1, <2>1, Receiving DEF Accounted, OnItsWay
  <2>4. \A u \in Text : OnItsWay(u)' => OnItsWay(u) /\ u # t
    BY <2>3 DEF OnItsWay, Accounted
  <2> QED BY <2>2, <2>3, <2>4 DEF Accounted
<1>2. ASSUME \A u \in Text : HasCome(u)' => HasCome(u),
             ~\E w \in Worker, c \in Contact, t \in Text : ReceiveMessage(w, c, t)
      PROVE  Accounted'
  <2>1. CASE outbox' \subseteq outbox /\ echoes' \subseteq echoes /\ written' = written
    BY <1>2, <2>1 DEF Accounted, OnItsWay
  <2>2. ASSUME NEW l \in outbox, outbox' = outbox \ {l}, echoes' = echoes \cup {l.text},
               written' = written
        PROVE  Accounted'
    <3>1. \A u \in Text : OnItsWay(u)' => OnItsWay(u)
      BY <2>2 DEF OnItsWay
    <3> QED BY <1>2, <2>2, <3>1 DEF Accounted
  <2>3. ASSUME NEW l \in Line, l.text \notin written, written' = written \cup {l.text},
               outbox' = outbox \cup {l}, echoes' = echoes
        PROVE  Accounted'
    <3>1. \A u \in Text : OnItsWay(u)' => OnItsWay(u) \/ u = l.text
      BY <2>3 DEF OnItsWay
    <3>2. l.text \in Text /\ ~OnItsWay(l.text) /\ ~HasCome(l.text)
      BY <2>3 DEF Accounted, Line
    <3>3. l.text \notin echoes /\ \A m \in outbox : m.text # l.text
      BY <3>2 DEF OnItsWay
    <3> QED BY <1>2, <2>3, <3>1, <3>2, <3>3 DEF Accounted
  <2> QED BY <1>2, <2>1, <2>2, <2>3, WayChanges
<1>3. ASSUME Calm, NEW u \in Text, HasCome(u)' PROVE HasCome(u)
  BY <1>3 DEF Calm, HasCome
<1>4. ASSUME NEW w \in Worker, EmitMessage(w), ~task[w].line.own, NEW u \in Text, HasCome(u)'
      PROVE  HasCome(u)
  <2>1. /\ task[w].line \in Line /\ task[w] # Idle
        /\ [kind |-> "received", line |-> task[w].line] \in Signal
        /\ Post([kind |-> "received", line |-> task[w].line])
    BY <1>4, TaskShape DEF EmitMessage, Signal
  <2>2. \A i \in DOMAIN queue' : \/ i \in DOMAIN queue /\ queue'[i] = queue[i]
                                 \/ queue'[i].line = task[w].line
    BY <2>1, Posted
  <2>3. history' = history /\ \A v \in Worker : task'[v] = task[v] \/ task'[v] = Idle
    BY <1>4 DEF EmitMessage, TypeOK
  <2> QED BY <1>4, <2>1, <2>2, <2>3 DEF HasCome, ReceivedBy
<1> QED BY <1>1, <1>2, <1>3, <1>4, CalmOtherwise

(* A line is received: it has no place in the history and no signal yet.   *)
LEMMA ReceivedInOrder ==
  ASSUME TypeOK, Order, NEW w \in Worker, NEW c \in Contact, NEW t \in Text,
         ReceiveMessage(w, c, t)
  PROVE  (OneReceiver /\ LastReceived /\ OnePlace /\ InOrder)'
<1>1. PICK l : l = [chat |-> c, own |-> FALSE, text |-> t]
  OBVIOUS
<1>2. /\ l \in Line /\ l.chat = c /\ l.text = t /\ ~l.own /\ ~HasCome(t)
      /\ Record(l) /\ queue' = queue
      /\ ReceivedBy(w)' /\ task'[w].line = l
      /\ \A v \in Worker : v # w => ~ReceivedBy(v)'
  BY <1>1, Receiving DEF Order
<1>3. PICK k \in Key, n \in Nat :
        /\ k = KeyOf[l.chat]
        /\ \A d \in Key : \A p \in DOMAIN history'[d] :
             \/ p \in DOMAIN history[d] /\ history'[d][p] = history[d][p]
             \/ d = k /\ p = n /\ history'[d][p] = l
        /\ n \in DOMAIN history'[k] /\ history'[k][n] = l
        /\ \A p \in DOMAIN history[k] : p \in Nat /\ p < n
  <2>1. PICK k : k = KeyOf[l.chat]
    OBVIOUS
  <2>2. /\ k \in Key
        /\ \A d \in Key : \A p \in DOMAIN history[d] : history'[d][p] = history[d][p]
        /\ \E n \in Nat :
             /\ \A d \in Key : \A p \in DOMAIN history'[d] :
                  \/ p \in DOMAIN history[d]
                  \/ d = k /\ p = n /\ history'[d][p] = l
             /\ n \in DOMAIN history'[k] /\ history'[k][n] = l
             /\ \A p \in DOMAIN history[k] : p \in Nat /\ p < n
    BY <1>2, <2>1, Recorded
  <2> QED BY <2>1, <2>2
<1>5. /\ \A d \in Key : \A p \in DOMAIN history[d] : history[d][p] # l
      /\ \A i \in DOMAIN queue : queue[i].kind = "received" => queue[i].line # l
  BY <1>2 DEF HasCome
<1>6. OneReceiver'
  BY <1>2 DEF OneReceiver
<1>7. LastReceived'
  <2>1. \A p \in DOMAIN history'[k] : p <= n
    BY <1>3
  <2> QED BY <1>2, <1>3, <1>5, <2>1 DEF LastReceived
<1>8. OnePlace'
  BY <1>3, <1>5 DEF Order, OnePlace
<1>9. InOrder'
  <2> SUFFICES ASSUME NEW i \in DOMAIN queue, NEW j \in DOMAIN queue, i < j,
                      queue[i].kind = "received", queue[j].kind = "received", NEW d \in Key,
                      NEW p \in DOMAIN history'[d], NEW q \in DOMAIN history'[d],
                      history'[d][p] = queue[i].line, history'[d][q] = queue[j].line
               PROVE  p < q
      BY <1>2 DEF InOrder
  <2>1. /\ p \in DOMAIN history[d] /\ history'[d][p] = history[d][p]
        /\ q \in DOMAIN history[d] /\ history'[d][q] = history[d][q]
    BY <1>3, <1>5
  <2> QED BY <2>1 DEF Order, InOrder
<1> QED BY <1>6, <1>7, <1>8, <1>9

(* A received line is signalled: the last one of others in its chat.       *)
LEMMA SignalledLast ==
  ASSUME TypeOK, Origin, Order, NEW w \in Worker, EmitMessage(w), ~task[w].line.own
  PROVE  (OneReceiver /\ LastReceived /\ OnePlace /\ InOrder)'
<1> DEFINE l == task[w].line
           s == [kind |-> "received", line |-> l]
<1>1. l \in Line /\ ReceivedBy(w) /\ s \in Signal /\ Post(s)
      /\ s.kind = "received" /\ s.line = l
  BY TaskShape DEF EmitMessage, Signal, ReceivedBy, Line
<1>2. history' = history /\ task'[w] = Idle /\ \A v \in Worker : v # w => task'[v] = task[v]
  BY DEF EmitMessage, TypeOK
<1> HIDE DEF l, s
<1>3. /\ \A i \in DOMAIN queue' : \/ i \in DOMAIN queue /\ queue'[i] = queue[i]
                                  \/ i = Len(queue) + 1 /\ queue'[i] = s
      /\ \A i \in DOMAIN queue : i \in Nat /\ i < Len(queue) + 1
      /\ Len(queue) + 1 \in Nat
  BY <1>1, Posted DEF TypeOK
<1>4. \A v \in Worker : ~ReceivedBy(v)'
  BY <1>1, <1>2 DEF Order, OneReceiver, ReceivedBy
<1>5. InOrder'
  <2> SUFFICES ASSUME NEW i \in DOMAIN queue', NEW j \in DOMAIN queue', i < j,
                      queue'[i].kind = "received", queue'[j].kind = "received", NEW d \in Key,
                      NEW p \in DOMAIN history[d], NEW q \in DOMAIN history[d],
                      history[d][p] = queue'[i].line, history[d][q] = queue'[j].line
               PROVE  p < q
      BY <1>2 DEF InOrder
  <2>1. i \in DOMAIN queue /\ queue'[i] = queue[i]
    BY <1>3
  <2>2. CASE j \in DOMAIN queue /\ queue'[j] = queue[j]
    BY <2>1, <2>2 DEF Order, InOrder
  <2>3. CASE queue'[j] = s
    <3>1. history[d][q] = l /\ d = KeyOf[l.chat] /\ ~l.own
      BY <1>1, <2>3 DEF Origin, LinesOf, l
    <3>2. PICK n \in DOMAIN history[d] :
            history[d][n] = l /\ \A r \in DOMAIN history[d] : ~history[d][r].own => r <= n
      BY <1>1, <3>1 DEF Order, LastReceived, l
    <3>3. q = n
      BY <3>1, <3>2 DEF Order, OnePlace
    <3>4. queue[i].line # l /\ ~queue[i].line.own
      BY <1>1, <2>1 DEF Order, LastReceived, Origin, l
    <3>5. p <= n /\ p # n
      BY <2>1, <3>2, <3>4
    <3>6. p \in Nat /\ n \in Nat
      BY DEF TypeOK
    <3> QED BY <3>3, <3>5, <3>6
  <2> QED BY <1>3, <2>2, <2>3
<1> QED BY <1>2, <1>4, <1>5 DEF Order, OneReceiver, LastReceived, OnePlace

LEMMA CalmKeepsOrder ==
  ASSUME TypeOK, Origin, Order, Calm, TypeOK'
  PROVE  (OneReceiver /\ LastReceived /\ OnePlace /\ InOrder)'
<1>1. PICK k \in {0, 1} : \A i \in DOMAIN queue' :
        queue'[i].kind = "received" => i + k \in DOMAIN queue /\ queue'[i] = queue[i + k]
  BY DEF Calm
<1>2. \A v \in Worker : ReceivedBy(v)' => ReceivedBy(v) /\ task'[v].line = task[v].line
  BY DEF Calm
<1>3. \A c \in Key : \A p \in DOMAIN history'[c] :
        ~history'[c][p].own => p \in DOMAIN history[c] /\ history'[c][p] = history[c][p]
  BY DEF Calm
<1>4. OneReceiver'
  BY <1>2 DEF Order, OneReceiver
<1>5. LastReceived'
  <2> SUFFICES ASSUME NEW w \in Worker, ReceivedBy(w)',
                      NEW l, l = task'[w].line
               PROVE  /\ \A d \in Key : d = KeyOf[l.chat] =>
                           \E n \in DOMAIN history'[d] :
                             /\ history'[d][n] = l
                             /\ \A p \in DOMAIN history'[d] : ~history'[d][p].own => p <= n
                      /\ \A i \in DOMAIN queue' : queue'[i].kind = "received" => queue'[i].line # l
      BY DEF LastReceived
  <2>1. ReceivedBy(w) /\ l = task[w].line
    BY <1>2
  <2>2. \A d \in Key : \A p \in DOMAIN history[d] :
          p \in DOMAIN history'[d] /\ history'[d][p] = history[d][p]
    BY DEF Calm
  <2>3. ASSUME NEW d \in Key, d = KeyOf[l.chat]
        PROVE  \E n \in DOMAIN history'[d] :
                 /\ history'[d][n] = l
                 /\ \A p \in DOMAIN history'[d] : ~history'[d][p].own => p <= n
    <3>1. PICK n \in DOMAIN history[d] :
            history[d][n] = l /\ \A p \in DOMAIN history[d] : ~history[d][p].own => p <= n
      BY <2>1, <2>3 DEF Order, LastReceived
    <3> QED BY <1>3, <2>2, <3>1
  <2>4. \A i \in DOMAIN queue : queue[i].kind = "received" => queue[i].line # l
    BY <2>1 DEF Order, LastReceived
  <2>5. \A i \in DOMAIN queue' : queue'[i].kind = "received" => queue'[i].line # l
    BY <1>1, <2>4
  <2> QED BY <2>3, <2>5
<1>6. OnePlace'
  BY <1>3 DEF Order, OnePlace
<1>7. InOrder'
  <2> SUFFICES ASSUME NEW i \in DOMAIN queue', NEW j \in DOMAIN queue', i < j,
                      queue'[i].kind = "received", queue'[j].kind = "received", NEW d \in Key,
                      NEW p \in DOMAIN history'[d], NEW q \in DOMAIN history'[d],
                      history'[d][p] = queue'[i].line, history'[d][q] = queue'[j].line
               PROVE  p < q
      BY DEF InOrder
  <2>1. /\ i + k \in DOMAIN queue /\ queue'[i] = queue[i + k]
        /\ j + k \in DOMAIN queue /\ queue'[j] = queue[j + k]
    BY <1>1
  <2>2. i + k < j + k
    BY DEF TypeOK
  <2>3. ~queue[i + k].line.own /\ ~queue[j + k].line.own
    BY <2>1 DEF Origin
  <2>4. /\ p \in DOMAIN history[d] /\ history'[d][p] = history[d][p]
        /\ q \in DOMAIN history[d] /\ history'[d][q] = history[d][q]
    BY <1>3, <2>1, <2>3
  <2> QED BY <2>1, <2>2, <2>4 DEF Order, InOrder
<1> QED BY <1>4, <1>5, <1>6, <1>7

LEMMA OrderStep == TypeOK /\ Origin /\ Order /\ [Next]_vars => Order'
<1> SUFFICES ASSUME TypeOK, Origin, Order, [Next]_vars PROVE Order'
    OBVIOUS
<1>1. Accounted'
  BY AccountedStep DEF Order
<1>2. (OneReceiver /\ LastReceived /\ OnePlace /\ InOrder)'
  BY StepType, CalmOtherwise, CalmKeepsOrder, ReceivedInOrder, SignalledLast
<1> QED BY <1>1, <1>2 DEF Order

LEMMA OrderShows == TypeOK /\ Origin /\ Order => SignalledInOrder
<1> SUFFICES ASSUME TypeOK, Origin, Order, NEW i \in DOMAIN queue, NEW j \in DOMAIN queue, i < j,
                    queue[i].kind = "received", queue[j].kind = "received",
                    SameKey(queue[i].line.chat, queue[j].line.chat),
                    {queue[i].line, queue[j].line}
                      \subseteq ToSet(history[KeyOf[queue[i].line.chat]])
             PROVE  PositionOf(queue[i].line) < PositionOf(queue[j].line)
    BY DEF SignalledInOrder
<1>1. PICK k \in Key : k = KeyOf[queue[i].line.chat]
  BY SignalShape, KeyAssumption DEF TypeOK, Line
<1>2. KeyOf[queue[j].line.chat] = k
  BY <1>1 DEF SameKey
<1>3. ASSUME NEW l, KeyOf[l.chat] = k, l \in ToSet(history[k])
      PROVE  PositionOf(l) \in DOMAIN history[k] /\ history[k][PositionOf(l)] = l
  BY <1>3 DEF PositionOf, ToSet
<1> QED BY <1>1, <1>2, <1>3 DEF Order, InOrder

(* However the workers interleave, the signals of one key's received       *)
(* messages wait in the order in which the history has them.               *)
THEOREM SignalsKeepOrder == Spec => []SignalledInOrder
<1>1. Init => Order
  <2> SUFFICES ASSUME Init PROVE Order
      OBVIOUS
  <2>1. /\ \A t \in Text : ~HasCome(t) /\ ~OnItsWay(t)
        /\ \A w \in Worker : ~ReceivedBy(w)
    BY DEF Init, HasCome, OnItsWay, ReceivedBy, EmptyHistory
  <2> QED BY <2>1 DEF Init, Order, Accounted, OneReceiver, LastReceived, OnePlace, InOrder,
                      EmptyHistory
<1>2. Spec => [](TypeOK /\ Origin /\ Order)
  BY <1>1, OrderStep, AlwaysOrigin, InitType, StepType, PTL DEF Spec
<1> QED BY <1>2, OrderShows, PTL
=============================================================================
