----------------------------- MODULE SessionProofs -----------------------------
(***************************************************************************)
(* For any number of workers, chains and sends: no thread outlives what it *)
(* calls back, and each chain of handlers goes round once.                 *)
(***************************************************************************)
EXTENDS Session, TLAPS

LEMMA MembersShape ==
  /\ Len(Members) = 10 /\ Members[1] = "threads_" /\ Members[7] = "dht_ip_resolver_"
  /\ \A i \in 1..10 : Members[i] = "dht_ip_resolver_" => i = 7
  /\ \A i \in 1..10 : Members[i] = "threads_" => i = 1
BY DEF Members

(* Outside of a session there is nothing of one; in a session everything,  *)
(* until the members go, the resolver before the threads.                  *)
Outlived ==
  /\ gui \notin {"threads", "chat", "stopping", "destroying"} => alive = 0 /\ dht = "none"
  /\ gui \in {"threads", "chat", "stopping"} => alive = 10
  /\ alive = 0 => \A w \in Worker : worker[w] = NoThread
  /\ dht # "none" => alive >= 7

Inv == TypeOK /\ Outlived

LEMMA PlacesAreThen ==
  \A kind \in {"wait", "send", "refresh", "punch"}, m \in Place :
    First(kind) \in Place /\ Then(kind, m) \subseteq Place \cup {"return"}
BY DEF Place, Member, Members, First, Then

LEMMA OperationShape ==
  /\ {WaitOp, SendOp} \subseteq Operation /\ RefreshOp \in Timer /\ Timer \subseteq Operation
  /\ \A c \in 1..MaxChains : PunchOp(c) \in Timer
  /\ \A op \in Operation : op.kind \in {"wait", "send", "refresh", "punch"}
  /\ \A op \in Operation : op # SendOp => op \in Timer \cup {WaitOp}
<1>1. \A op \in Timer : op = RefreshOp \/ \E c \in Chain : op = PunchOp(c)
  BY DEF Timer
<1>2. \A op \in Timer : op.kind \in {"wait", "send", "refresh", "punch"}
  BY <1>1 DEF RefreshOp, PunchOp
<1>3. \A op \in Operation : op \in Timer \/ op = WaitOp \/ op = SendOp
  BY DEF Operation
<1>4. \A op \in Operation : op.kind \in {"wait", "send", "refresh", "punch"}
  BY <1>2, <1>3 DEF WaitOp, SendOp
<1> QED BY <1>3, <1>4 DEF Operation, Timer, Chain

LEMMA HandlerShape ==
  ASSUME TypeOK, NEW w \in Worker, worker[w].state = "running"
  PROVE  /\ worker[w] \in [state : {"running"}, at : Place, handler : Handler]
         /\ worker[w].at \in Place /\ worker[w].handler \in Handler
         /\ worker[w].handler.op \in Operation
BY DEF TypeOK, NoThread, Idle, Handler

LEMMA ArmType ==
  ASSUME TypeOK, NEW op \in Timer \cup {WaitOp}, Arm(op) \/ Cancel(op)
  PROVE  queue' \in Seq(Handler) /\ waiting' \subseteq Timer \cup {WaitOp}
<1>1. CancelledWait(op) \in Seq(Handler)
  <2>1. [op |-> op, aborted |-> TRUE] \in Handler
    BY OperationShape DEF Handler
  <2>2. <<[op |-> op, aborted |-> TRUE]>> \in Seq(Handler)
    BY <2>1
  <2> QED BY <2>2 DEF CancelledWait
<1>2. queue \in Seq(Handler) /\ queue' = queue \o CancelledWait(op)
  BY DEF TypeOK, Arm, Cancel
<1>3. queue' \in Seq(Handler)
  BY <1>1, <1>2
<1> QED BY <1>3 DEF TypeOK, Arm, Cancel

LEMMA EndInv ==
  ASSUME NEW how \in {"terminated", "undefined"}, End(how)
  PROVE  Inv'
<1>1. TypeOK'
  <2>1. stopped' \in BOOLEAN /\ gui' \in {"terminated", "undefined"}
        /\ worker' = [w \in Worker |-> NoThread]
    BY DEF End
  <2>2. alive' \in 0..Len(Members) /\ chains' \in 0..MaxChains
    BY MembersShape, BoundAssumption DEF End
  <2>3. waiting' = {} /\ queue' \in Seq(Handler) /\ dht' = "none"
    BY DEF End
  <2> QED BY <2>1, <2>2, <2>3 DEF TypeOK
<1>2. Outlived'
  BY DEF End, Outlived
<1> QED BY <1>1, <1>2 DEF Inv

(* A worker goes on within its handler, or ends it.                        *)
LEMMA GoOnInv ==
  ASSUME Inv, NEW w \in Worker, NEW n, GoOn(w, n),
         queue' \in Seq(Handler), waiting' \subseteq Timer \cup {WaitOp}, chains' \in 0..MaxChains
  PROVE  Inv'
<1>1. worker[w].state = "running" /\ n \in Then(worker[w].handler.op.kind, worker[w].at)
  BY DEF GoOn, After
<1>2. worker[w] \in [state : {"running"}, at : Place, handler : Handler]
      /\ n \in Place \cup {"return"}
  BY <1>1, HandlerShape, OperationShape, PlacesAreThen DEF Inv
<1>3. worker' \in [Worker -> {NoThread, Idle} \cup [state : {"running"}, at : Place, handler : Handler]]
  <2>1. CASE n = "return"
    BY <2>1 DEF Inv, TypeOK, GoOn
  <2>2. CASE n # "return"
    <3>1. [worker[w] EXCEPT !.at = n] \in [state : {"running"}, at : Place, handler : Handler]
      BY <1>2, <2>2
    <3>2. worker' = [worker EXCEPT ![w] = [worker[w] EXCEPT !.at = n]]
      BY <2>2 DEF GoOn
    <3> QED BY <3>1, <3>2 DEF Inv, TypeOK
  <2> QED BY <2>1, <2>2
<1>4. TypeOK'
  BY <1>3 DEF Inv, TypeOK, GoOn
<1>5. alive # 0
  BY <1>1 DEF Inv, Outlived, NoThread
<1>6. Outlived'
  BY <1>5 DEF Inv, Outlived, GoOn
<1> QED BY <1>4, <1>6 DEF Inv

LEMMA WorkerInv ==
  ASSUME Inv, NEW w \in Worker, WorkerStep(w)
  PROVE  Inv'
<1>1. CASE UseDestroyed(w)
  BY <1>1, EndInv DEF UseDestroyed
<1>2. CASE HandlerThrows(w)
  BY <1>2, EndInv DEF HandlerThrows
<1>3. CASE RunHandler(w)
  <2>1. Head(queue) \in Handler /\ Tail(queue) \in Seq(Handler)
    BY <1>3 DEF RunHandler, Inv, TypeOK
  <2>2. First(Head(queue).op.kind) \in Place
    <3>1. Head(queue).op.kind \in {"wait", "send", "refresh", "punch"}
      BY <2>1, OperationShape DEF Handler
    <3>2. "threads_" \in Place
      BY MembersShape DEF Place, Member
    <3> QED BY <3>1, <3>2, PlacesAreThen
  <2>3. Executing(Head(queue), First(Head(queue).op.kind))
          \in [state : {"running"}, at : Place, handler : Handler]
    BY <2>1, <2>2 DEF Executing
  <2>4. TypeOK'
    BY <1>3, <2>1, <2>3 DEF RunHandler, Inv, TypeOK
  <2>5. alive # 0
    BY <1>3 DEF RunHandler, Inv, Outlived, NoThread, Idle
  <2>6. Outlived'
    BY <1>3, <2>5 DEF RunHandler, Inv, Outlived
  <2> QED BY <2>4, <2>6 DEF Inv
<1>4. CASE LeaveRun(w)
  <2>1. TypeOK'
    BY <1>4 DEF LeaveRun, Inv, TypeOK
  <2>2. Outlived'
    BY <1>4 DEF LeaveRun, Inv, TypeOK, Outlived
  <2> QED BY <2>1, <2>2 DEF Inv
<1>5. ASSUME NEW n \in After(w), Use(w, n) PROVE Inv'
  BY <1>5, GoOnInv DEF Use, Inv, TypeOK
<1>6. ASSUME NEW n \in After(w), PunchBack(w, n) PROVE Inv'
  <2>1. GoOn(w, n) /\ chains \in 0..MaxChains
    BY <1>6 DEF PunchBack, Inv, TypeOK
  <2>2. CASE chains < MaxChains /\ chains' = chains + 1 /\ Arm(PunchOp(chains + 1))
    <3>1. chains' \in 0..MaxChains /\ chains + 1 \in 1..MaxChains
      BY <2>1, <2>2, BoundAssumption
    <3>2. queue' \in Seq(Handler) /\ waiting' \subseteq Timer \cup {WaitOp}
      BY <2>2, <3>1, OperationShape, ArmType DEF Inv
    <3> QED BY <2>1, <3>1, <3>2, GoOnInv
  <2>3. CASE UNCHANGED <<waiting, queue, chains>>
    BY <2>1, <2>3, GoOnInv DEF Inv, TypeOK
  <2> QED BY <1>6, <2>2, <2>3 DEF PunchBack
<1>7. ASSUME NEW n \in After(w), Rearm(w, n) PROVE Inv'
  <2>1. worker[w].state = "running" /\ worker[w].handler.op # SendOp
    BY <1>7 DEF Rearm, GoOn, After, IsRunning
  <2>2. worker[w].handler.op \in Timer \cup {WaitOp}
    BY <2>1, HandlerShape, OperationShape DEF Inv
  <2>3. queue' \in Seq(Handler) /\ waiting' \subseteq Timer \cup {WaitOp}
    BY <1>7, <2>2, ArmType DEF Rearm, Inv
  <2> QED BY <1>7, <2>3, GoOnInv DEF Rearm, Inv, TypeOK
<1> QED BY <1>1, <1>2, <1>3, <1>4, <1>5, <1>6, <1>7 DEF WorkerStep

LEMMA StartInv ==
  ASSUME Inv, LogIn \/ PunchRelay \/ \E w \in Worker : StartThread(w)
  PROVE  Inv'
<1>1. CASE LogIn
  <2>1. CASE End("terminated")
    BY <2>1, EndInv
  <2>2. CASE ~End("terminated")
    <3>1. TypeOK'
      <4>1. gui' = "threads" /\ stopped' \in BOOLEAN /\ dht' = "idle" /\ worker' = worker
        BY <1>1, <2>2 DEF LogIn
      <4>2. alive' \in 0..Len(Members) /\ chains' \in 0..MaxChains
        BY <1>1, <2>2, MembersShape, BoundAssumption DEF LogIn
      <4>3. waiting' \subseteq Timer \cup {WaitOp} /\ queue' \in Seq(Handler)
        <5>1. waiting' = {WaitOp, RefreshOp} /\ queue' = <<>>
          BY <1>1, <2>2 DEF LogIn
        <5> QED BY <5>1, OperationShape
      <4> QED BY <4>1, <4>2, <4>3 DEF Inv, TypeOK
    <3>2. Outlived'
      BY <1>1, <2>2, MembersShape DEF LogIn, Outlived
    <3> QED BY <3>1, <3>2 DEF Inv
  <2> QED BY <2>1, <2>2
<1>2. CASE PunchRelay
  <2>1. CASE End("terminated")
    BY <2>1, EndInv
  <2>2. CASE ~End("terminated")
    <3>1. gui = "threads" /\ gui' = "chat" /\ UNCHANGED <<alive, stopped, worker, dht>>
      BY <1>2, <2>2 DEF PunchRelay
    <3>2. queue' \in Seq(Handler) /\ waiting' \subseteq Timer \cup {WaitOp}
          /\ chains' \in 0..MaxChains
      <4>1. CASE chains < MaxChains /\ chains' = chains + 1 /\ Arm(PunchOp(chains + 1))
        <5>1. chains' \in 0..MaxChains /\ chains + 1 \in 1..MaxChains
          BY <4>1, BoundAssumption DEF Inv, TypeOK
        <5> QED BY <4>1, <5>1, OperationShape, ArmType DEF Inv
      <4>2. CASE UNCHANGED <<waiting, queue, chains>>
        BY <4>2 DEF Inv, TypeOK
      <4> QED BY <1>2, <2>2, <4>1, <4>2 DEF PunchRelay
    <3>3. TypeOK'
      BY <3>1, <3>2 DEF Inv, TypeOK
    <3>4. Outlived'
      BY <3>1 DEF Inv, Outlived
    <3> QED BY <3>3, <3>4 DEF Inv
  <2> QED BY <2>1, <2>2
<1>3. ASSUME NEW w \in Worker, StartThread(w) PROVE Inv'
  <2>1. TypeOK'
    BY <1>3 DEF StartThread, Inv, TypeOK
  <2>2. Outlived'
    BY <1>3 DEF StartThread, Inv, Outlived
  <2> QED BY <2>1, <2>2 DEF Inv
<1> QED BY <1>1, <1>2, <1>3

(* The resolver goes only when the callback has returned, and the threads  *)
(* go only when they have left run().                                      *)
LEMMA DestroyInv ==
  ASSUME Inv, NEW m \in Member, Destroy(m)
  PROVE  Inv'
<1>1. /\ gui = "destroying" /\ gui' = gui /\ worker' = worker /\ stopped' = stopped
      /\ chains' = chains /\ alive \in 1..10 /\ m = Members[alive] /\ alive' = alive - 1
      /\ dht' \in {dht, "none"}
  BY MembersShape DEF Destroy, Inv, TypeOK
<1>2. queue' \in Seq(Handler) /\ waiting' \subseteq Timer \cup {WaitOp}
  <2>1. CASE m = "dht_ip_resolver_"
    BY <2>1, ArmType, OperationShape DEF Destroy, Inv
  <2>2. CASE m = "message_receiver_"
    BY <2>2, ArmType DEF Destroy, Inv
  <2>3. CASE m \notin {"dht_ip_resolver_", "message_receiver_"}
    <3>1. CASE m = "io_context_"
      BY <3>1 DEF Destroy
    <3>2. CASE m # "io_context_"
      <4>1. UNCHANGED <<waiting, queue>>
        BY <2>3, <3>2 DEF Destroy
      <4> QED BY <4>1 DEF Inv, TypeOK
    <3> QED BY <3>1, <3>2
  <2> QED BY <2>1, <2>2, <2>3
<1>3. TypeOK'
  BY <1>1, <1>2, MembersShape DEF Inv, TypeOK
<1>4. alive' = 0 => \A w \in Worker : worker'[w] = NoThread
  BY <1>1, MembersShape DEF Destroy, ThreadsJoined
<1>5. dht' # "none" => alive' >= 7
  <2>1. CASE m = "dht_ip_resolver_"
    BY <2>1 DEF Destroy, NodeJoined, Inv, TypeOK
  <2>2. CASE m # "dht_ip_resolver_"
    BY <1>1, <2>2, MembersShape DEF Destroy, Inv, Outlived
  <2> QED BY <2>1, <2>2
<1> QED BY <1>1, <1>3, <1>4, <1>5 DEF Inv, Outlived

LEMMA LeaveInv ==
  ASSUME Inv, Leave \/ CloseLogin \/ Stop \/ Leaving
  PROVE  Inv'
<1>1. TypeOK'
  BY DEF Leave, CloseLogin, Stop, Leaving, Inv, TypeOK
<1>2. Outlived'
  BY DEF Leave, CloseLogin, Stop, Leaving, Inv, Outlived
<1> QED BY <1>1, <1>2 DEF Inv

LEMMA OthersInv ==
  ASSUME Inv, (\E op \in Operation : Complete(op)) \/ PostSend \/ DhtValue \/ DhtStep
  PROVE  Inv'
<1>1. ASSUME NEW op \in Operation, Complete(op) PROVE Inv'
  <2>1. [op |-> op, aborted |-> FALSE] \in Handler
    BY DEF Handler
  <2>2. TypeOK'
    BY <1>1, <2>1 DEF Complete, Inv, TypeOK
  <2>3. Outlived'
    BY <1>1 DEF Complete, Inv, Outlived
  <2> QED BY <2>2, <2>3 DEF Inv
<1>2. CASE PostSend
  <2>1. [op |-> SendOp, aborted |-> FALSE] \in Handler
    BY OperationShape DEF Handler
  <2>2. TypeOK'
    BY <1>2, <2>1 DEF PostSend, Inv, TypeOK
  <2>3. Outlived'
    BY <1>2 DEF PostSend, Inv, Outlived
  <2> QED BY <2>2, <2>3 DEF Inv
<1>3. CASE DhtValue
  <2>1. TypeOK'
    BY <1>3 DEF DhtValue, Inv, TypeOK
  <2>2. Outlived'
    BY <1>3 DEF DhtValue, Inv, Outlived
  <2> QED BY <2>1, <2>2 DEF Inv
<1>4. CASE DhtStep
  <2>1. CASE End("undefined") \/ End("terminated")
    BY <2>1, EndInv
  <2>2. CASE ~End("undefined") /\ ~End("terminated")
    <3>1. dht = "callback" /\ dht' = "idle"
          /\ UNCHANGED <<gui, alive, stopped, waiting, queue, chains, worker>>
      BY <1>4, <2>2 DEF DhtStep
    <3>2. TypeOK'
      BY <3>1 DEF Inv, TypeOK
    <3>3. Outlived'
      BY <3>1 DEF Inv, Outlived
    <3> QED BY <3>2, <3>3 DEF Inv
  <2> QED BY <2>1, <2>2
<1> QED BY <1>1, <1>2, <1>3, <1>4

LEMMA InitInv == Init => Inv
<1> SUFFICES ASSUME Init PROVE Inv
    OBVIOUS
<1>1. TypeOK
  <2>0. stopped \in BOOLEAN
    BY DEF Init
  <2>1. gui = "login" /\ dht = "none" /\ waiting = {} /\ queue = <<>>
    BY DEF Init
  <2>2. alive \in 0..Len(Members) /\ chains \in 0..MaxChains
    BY MembersShape, BoundAssumption DEF Init
  <2>3. worker = [w \in Worker |-> NoThread]
    BY DEF Init
  <2> QED BY <2>0, <2>1, <2>2, <2>3 DEF TypeOK
<1>2. Outlived
  BY DEF Init, Outlived
<1> QED BY <1>1, <1>2 DEF Inv

LEMMA StepInv == Inv /\ [Next]_vars => Inv'
<1> SUFFICES ASSUME Inv, [Next]_vars PROVE Inv'
    OBVIOUS
<1>1. ASSUME NEW w \in Worker, WorkerStep(w) PROVE Inv'
  BY <1>1, WorkerInv
<1>2. CASE GuiStep
  BY <1>2, StartInv, LeaveInv, DestroyInv DEF GuiStep
<1>3. CASE UNCHANGED vars
  <2>1. TypeOK'
    BY <1>3 DEF vars, Inv, TypeOK
  <2>2. Outlived'
    BY <1>3 DEF vars, Inv, Outlived
  <2> QED BY <2>1, <2>2 DEF Inv
<1> QED BY <1>1, <1>2, <1>3, StartInv, LeaveInv, OthersInv DEF Next

LEMMA AlwaysInv == Spec => []Inv
BY InitInv, StepInv, PTL DEF Spec

(* The session's variables keep their types.                               *)
THEOREM SessionKeepsTypes == Spec => []TypeOK
BY AlwaysInv, PTL DEF Inv

(* ~DhtIpResolver waits for the listen callback, whoever else is doing     *)
(* what: while one runs, the resolver it stores into is there.             *)
THEOREM ResolverOutlivesCallback == Spec => []DhtThreadOutlived
<1>1. Inv => DhtThreadOutlived
  <2> SUFFICES ASSUME Inv, dht = "callback" PROVE Alive("dht_ip_resolver_")
      BY DEF DhtThreadOutlived
  <2>1. 7 \in 1..alive
    BY DEF Inv, Outlived, TypeOK
  <2> QED BY <2>1, MembersShape DEF Alive
<1> QED BY <1>1, AlwaysInv, PTL

(* When the window is gone, no worker and no callback is left to emit a    *)
(* signal of its page.                                                     *)
THEOREM PageOutlivesThreads == Spec => []CallbacksFindPage
<1>1. Inv => CallbacksFindPage
  BY DEF Inv, Outlived, CallbacksFindPage
<1> QED BY <1>1, AlwaysInv, PTL

-----------------------------------------------------------------------------
(* The chains.  While the session is not being destroyed, an operation is  *)
(* in one place only, none is nowhere, and no handler in the queue was     *)
(* cancelled: an operation is started again only by its own handler, which *)
(* is the one place it is in.                                              *)
Live == gui \in {"threads", "chat", "stopping"}
Busy(w) == worker[w].state = "running"
OpOf(w) == worker[w].handler.op

Exclusive ==
  /\ \A i \in DOMAIN queue : queue[i].op \notin waiting
  /\ \A i, j \in DOMAIN queue : queue[i].op = queue[j].op /\ queue[i].op # SendOp => i = j
  /\ \A w \in Worker : Busy(w) => OpOf(w) \notin waiting
  /\ \A w \in Worker : \A i \in DOMAIN queue :
       Busy(w) /\ OpOf(w) # SendOp => queue[i].op # OpOf(w)
  /\ \A v, w \in Worker :
       Busy(v) /\ Busy(w) /\ OpOf(v) = OpOf(w) /\ OpOf(v) # SendOp => v = w

Held ==
  \A op \in Started :
    op \in waiting \/ (\E i \in DOMAIN queue : queue[i].op = op)
                   \/ (\E w \in Worker : Busy(w) /\ OpOf(w) = op)

OnlyStarted ==
  /\ waiting \subseteq Started
  /\ \A i \in DOMAIN queue : queue[i].op \in Started \cup {SendOp}
  /\ \A w \in Worker : Busy(w) => OpOf(w) \in Started \cup {SendOp}

Fresh == \A i \in DOMAIN queue : ~queue[i].aborted

Round ==
  /\ Live => ~stopped /\ Exclusive /\ Held /\ OnlyStarted /\ Fresh
  /\ gui = "destroying" => stopped
  /\ AbortedNeverRuns

LEMMA StartedShape ==
  /\ SendOp \notin Started /\ {WaitOp, RefreshOp} \subseteq Operation
  /\ \A op \in Operation : op \in Started <=> op \in {WaitOp, RefreshOp} \/ \E c \in 1..chains : op = PunchOp(c)
  /\ \A c, d \in Nat : PunchOp(c) = PunchOp(d) => c = d
  /\ \A c \in Nat : PunchOp(c) \notin {WaitOp, RefreshOp, SendOp}
  /\ WaitOp # RefreshOp /\ WaitOp # SendOp /\ RefreshOp # SendOp
BY OperationShape DEF Started, WaitOp, RefreshOp, SendOp, PunchOp

(* Nothing of the chains changes.                                          *)
LEMMA ChainsKept ==
  ASSUME Round, UNCHANGED <<stopped, waiting, queue, chains>>, Live' => Live,
         gui' = "destroying" => gui = "destroying",
         \A w \in Worker : worker'[w].state = "running" =>
           Busy(w) /\ worker'[w].handler = worker[w].handler,
         Live' => \A w \in Worker :
                    Busy(w) /\ OpOf(w) # SendOp => worker'[w].state = "running"
  PROVE  Round'
<1>1. Started' = Started
  BY DEF Started
<1>2. Live' => Exclusive' /\ Fresh' /\ OnlyStarted' /\ Held' /\ ~stopped'
  BY <1>1, StartedShape DEF Round, Exclusive, Fresh, OnlyStarted, Held, Busy, OpOf
<1>3. AbortedNeverRuns'
  BY DEF Round, AbortedNeverRuns, Busy
<1> QED BY <1>2, <1>3 DEF Round

LEMMA RunHandlerRound ==
  ASSUME Inv, Round, NEW w \in Worker, RunHandler(w)
  PROVE  Round'
<1> DEFINE h == Head(queue)
<1>1. /\ Live /\ Live' /\ gui' = gui /\ queue # <<>> /\ queue' = Tail(queue)
      /\ UNCHANGED <<stopped, waiting, chains>>
  BY DEF RunHandler, Inv, Outlived, Round, Live, Idle, NoThread
<1>2. /\ queue \in Seq(Handler) /\ Len(queue) \in Nat \ {0} /\ h = queue[1]
      /\ DOMAIN queue = 1..Len(queue) /\ DOMAIN queue' = 1..(Len(queue) - 1)
      /\ \A i \in DOMAIN queue' : queue'[i] = queue[i + 1]
  BY <1>1 DEF Inv, TypeOK
<1>3. /\ worker'[w].state = "running" /\ worker'[w].handler = h
      /\ ~Busy(w) /\ \A v \in Worker : v # w => worker'[v] = worker[v]
  BY DEF RunHandler, Executing, Inv, TypeOK, Busy, Idle
<1>4. Started' = Started
  BY <1>1 DEF Started
<1>5. Exclusive'
  <2>1. Exclusive
    BY <1>1 DEF Round
  <2>2. \A i \in DOMAIN queue' : i + 1 \in DOMAIN queue /\ i + 1 # 1 /\ queue'[i] = queue[i + 1]
    BY <1>2
  <2>3. 1 \in DOMAIN queue /\ h = queue[1]
    BY <1>2
  <2>4. \A i \in DOMAIN queue' : queue'[i].op \notin waiting'
    BY <1>1, <2>1, <2>2 DEF Exclusive
  <2>5. \A i, j \in DOMAIN queue' :
          queue'[i].op = queue'[j].op /\ queue'[i].op # SendOp => i = j
    <3> SUFFICES ASSUME NEW i \in DOMAIN queue', NEW j \in DOMAIN queue',
                        queue'[i].op = queue'[j].op, queue'[i].op # SendOp
                 PROVE  i = j
        OBVIOUS
    <3>1. i + 1 = j + 1
      BY <2>1, <2>2 DEF Exclusive
    <3> QED BY <1>2, <3>1
  <2>6. \A v \in Worker : Busy(v)' => OpOf(v)' \notin waiting'
    BY <1>1, <1>3, <2>1, <2>3 DEF Exclusive, Busy, OpOf
  <2>7. \A v \in Worker : \A i \in DOMAIN queue' :
          Busy(v)' /\ OpOf(v)' # SendOp => queue'[i].op # OpOf(v)'
    BY <1>3, <2>1, <2>2, <2>3 DEF Exclusive, Busy, OpOf
  <2>8. \A u, v \in Worker :
          Busy(u)' /\ Busy(v)' /\ OpOf(u)' = OpOf(v)' /\ OpOf(u)' # SendOp => u = v
    BY <1>3, <2>1, <2>3 DEF Exclusive, Busy, OpOf
  <2> QED BY <2>4, <2>5, <2>6, <2>7, <2>8 DEF Exclusive
<1>6. OnlyStarted' /\ Fresh'
  BY <1>1, <1>2, <1>3, <1>4 DEF Round, OnlyStarted, Fresh, Busy, OpOf
<1>7. Held'
  <2> SUFFICES ASSUME NEW op \in Started
               PROVE  \/ op \in waiting
                      \/ \E i \in DOMAIN queue' : queue'[i].op = op
                      \/ \E v \in Worker : worker'[v].state = "running" /\ worker'[v].handler.op = op
      BY <1>1, <1>4 DEF Held, Busy, OpOf
  <2>1. CASE \E i \in DOMAIN queue : queue[i].op = op
    <3>1. PICK i \in DOMAIN queue : queue[i].op = op
      BY <2>1
    <3>2. CASE i = 1
      BY <1>2, <1>3, <3>1, <3>2
    <3>3. CASE i # 1
      <4>1. i - 1 \in DOMAIN queue' /\ queue'[i - 1] = queue[i]
        BY <1>2, <3>3
      <4> QED BY <3>1, <4>1
    <3> QED BY <3>2, <3>3
  <2>2. CASE \E v \in Worker : Busy(v) /\ OpOf(v) = op
    BY <1>3, <2>2 DEF Busy, OpOf
  <2> QED BY <1>1, <2>1, <2>2 DEF Round, Held
<1>8. AbortedNeverRuns'
  BY <1>1, <1>2, <1>3 DEF Round, Fresh, AbortedNeverRuns
<1> QED BY <1>1, <1>5, <1>6, <1>7, <1>8 DEF Round, Live

(* Arming an operation that waits nowhere queues no cancelled handler.     *)
LEMMA ArmKeepsQueue ==
  ASSUME TypeOK, NEW op, op \notin waiting, Arm(op)
  PROVE  queue' = queue /\ waiting' = waiting \cup {op}
<1>1. queue \in Seq(Handler) /\ queue' = queue \o <<>>
  BY DEF TypeOK, Arm, CancelledWait
<1> QED BY <1>1 DEF Arm

LEMMA RearmRound ==
  ASSUME Inv, Round, NEW w \in Worker, NEW n \in After(w), Rearm(w, n)
  PROVE  Round'
<1> DEFINE op == OpOf(w)
<1>1. /\ Busy(w) /\ op # SendOp /\ Arm(op) /\ UNCHANGED <<gui, stopped, chains>>
      /\ worker' = [worker EXCEPT ![w] = Idle]
  BY DEF Rearm, GoOn, After, IsRunning, Busy, OpOf
<1>2. /\ worker'[w].state # "running" /\ \A v \in Worker : v # w => worker'[v] = worker[v]
  BY <1>1 DEF Inv, TypeOK, Idle
<1>3. AbortedNeverRuns'
  BY <1>2 DEF Round, AbortedNeverRuns
<1>4. ASSUME Live
      PROVE  Exclusive' /\ Held' /\ OnlyStarted' /\ Fresh'
  <2>1. queue' = queue /\ waiting' = waiting \cup {op} /\ Started' = Started
    BY <1>1, <1>4, ArmKeepsQueue DEF Round, Exclusive, Inv, Started
  <2>2. \A i \in DOMAIN queue : queue[i].op # op
    BY <1>1, <1>4 DEF Round, Exclusive
  <2>3. \A v \in Worker : v # w /\ Busy(v) => OpOf(v) # op
    BY <1>1, <1>4 DEF Round, Exclusive
  <2>4. Exclusive'
    BY <1>2, <1>4, <2>1, <2>2, <2>3 DEF Round, Exclusive, Busy, OpOf
  <2>5. Held'
    BY <1>2, <1>4, <2>1 DEF Round, Held, Busy, OpOf
  <2>6. OnlyStarted' /\ Fresh'
    BY <1>1, <1>2, <1>4, <2>1 DEF Round, OnlyStarted, Fresh, Busy, OpOf
  <2> QED BY <2>4, <2>5, <2>6
<1> QED BY <1>1, <1>3, <1>4 DEF Round, Live

(* Another chain begins, of an operation that is nowhere yet.              *)
LEMMA NewChainRound ==
  ASSUME Inv, Round, chains < MaxChains, chains' = chains + 1, Arm(PunchOp(chains + 1)), stopped' = stopped,
         Live <=> Live', gui' = "destroying" => gui = "destroying",
         \A w \in Worker :
           /\ worker'[w].state = "running" <=> Busy(w)
           /\ Busy(w) => worker'[w].handler = worker[w].handler
  PROVE  Round'
<1> DEFINE op == PunchOp(chains + 1)
<1>1. AbortedNeverRuns'
  BY DEF Round, AbortedNeverRuns, Busy
<1>2. ASSUME Live
      PROVE  Exclusive' /\ Held' /\ OnlyStarted' /\ Fresh'
  <2>1. chains \in Nat /\ op \notin Started \cup {SendOp}
    BY StartedShape, BoundAssumption DEF Inv, TypeOK, Started
  <2>2. queue' = queue /\ waiting' = waiting \cup {op}
    BY <1>2, <2>1, ArmKeepsQueue DEF Round, OnlyStarted, Inv
  <2>3. /\ \A x \in Started : x \in Started'
        /\ \A x \in Started' : x \in Started \/ x = op
        /\ op \in Started'
    <3>1. chains + 1 \in 1..MaxChains /\ op \in Operation
      BY <2>1, OperationShape, BoundAssumption
    <3>2. \A c : c \in 1..chains' <=> c \in 1..chains \/ c = chains + 1
      BY <2>1
    <3> QED BY <3>1, <3>2 DEF Started
  <2>4. Exclusive'
    BY <1>2, <2>1, <2>2 DEF Round, Exclusive, OnlyStarted, Busy, OpOf
  <2>5. Held'
    BY <1>2, <2>2, <2>3 DEF Round, Held, Busy, OpOf
  <2>6. OnlyStarted' /\ Fresh'
    BY <1>2, <2>2, <2>3 DEF Round, OnlyStarted, Fresh, Busy, OpOf
  <2> QED BY <2>4, <2>5, <2>6
<1> QED BY <1>1, <1>2 DEF Round, Live

(* A handler is queued that has not been cancelled: of the operation that  *)
(* is completed, or of a send.                                             *)
LEMMA QueuedRound ==
  ASSUME Inv, Round, NEW op \in Operation,
         \/ op \in waiting /\ waiting' = waiting \ {op}
         \/ op = SendOp /\ waiting' = waiting,
         queue' = Append(queue, [op |-> op, aborted |-> FALSE]),
         UNCHANGED <<gui, alive, stopped, chains, worker, dht>>
  PROVE  Round'
<1> DEFINE last == Len(queue) + 1
           h == [op |-> op, aborted |-> FALSE]
<1>1. /\ queue \in Seq(Handler) /\ Len(queue) \in Nat /\ DOMAIN queue = 1..Len(queue)
      /\ DOMAIN queue' = 1..last /\ queue'[last] = h
      /\ \A i \in DOMAIN queue : queue'[i] = queue[i] /\ i # last
  BY DEF Inv, TypeOK
<1>2. /\ \A i \in DOMAIN queue' : i \in DOMAIN queue \/ i = last
      /\ \A i \in DOMAIN queue : i \in DOMAIN queue'
      /\ last \in DOMAIN queue' /\ h.op = op /\ ~h.aborted
  BY <1>1
<1> HIDE DEF last, h
<1>3. ASSUME Live
      PROVE  Exclusive' /\ Held' /\ OnlyStarted' /\ Fresh'
  <2>1. /\ Exclusive /\ Held /\ OnlyStarted /\ Fresh /\ Started' = Started
        /\ op \in Started \cup {SendOp} /\ SendOp \notin Started
    BY <1>3, StartedShape DEF Round, OnlyStarted, Started
  <2>2. op # SendOp => /\ op \in waiting
                       /\ \A i \in DOMAIN queue : queue[i].op # op
                       /\ \A w \in Worker : Busy(w) => OpOf(w) # op
    BY <2>1 DEF Exclusive
  <2>3. Exclusive'
    BY <1>1, <1>2, <2>1, <2>2 DEF Exclusive, OnlyStarted, Busy, OpOf
  <2>4. Held'
    BY <1>1, <1>2, <2>1 DEF Held, Busy, OpOf
  <2>5. OnlyStarted' /\ Fresh'
    BY <1>1, <1>2, <2>1 DEF OnlyStarted, Fresh, Busy, OpOf
  <2> QED BY <2>3, <2>4, <2>5
<1> QED BY <1>3 DEF Round, Live, AbortedNeverRuns

(* The constructor leaves the socket and the refresh waiting.              *)
LEMMA LogInRound ==
  ASSUME Inv, Round, LogIn, ~End("terminated")
  PROVE  Round'
<1>1. /\ gui' = "threads" /\ ~stopped' /\ waiting' = {WaitOp, RefreshOp} /\ queue' = <<>>
      /\ chains' = 0 /\ worker' = worker
  BY DEF LogIn
<1>2. \A w \in Worker : ~Busy(w)
  BY DEF LogIn, Inv, Outlived, Busy, NoThread
<1>3. Started' = {WaitOp, RefreshOp}
  <2>1. 1..chains' = {}
    BY <1>1
  <2> QED BY <2>1, OperationShape DEF Started
<1>4. Exclusive' /\ Held' /\ OnlyStarted' /\ Fresh'
  BY <1>1, <1>2, <1>3 DEF Exclusive, Held, OnlyStarted, Fresh, Busy, OpOf
<1> QED BY <1>1, <1>2, <1>4 DEF Round, AbortedNeverRuns, Busy

(* After stop() the chains no longer matter, and no handler is begun.      *)
LEMMA DyingRound ==
  ASSUME Round, ~Live', gui' = "destroying" => stopped',
         \A w \in Worker : worker'[w].state = "running" => worker'[w] = worker[w]
  PROVE  Round'
BY DEF Round, AbortedNeverRuns

LEMMA EndRound ==
  ASSUME NEW how \in {"terminated", "undefined"}, End(how)
  PROVE  Round'
BY DEF End, Round, Live, AbortedNeverRuns, NoThread

LEMMA GoOnHandler ==
  ASSUME Inv, NEW w \in Worker, NEW n \in After(w), GoOn(w, n)
  PROVE  /\ Busy(w) /\ UNCHANGED <<gui, stopped>>
         /\ \A v \in Worker : v # w => worker'[v] = worker[v]
         /\ n # "return" => worker'[w].state = "running" /\ worker'[w].handler = worker[w].handler
         /\ n = "return" => worker'[w].state # "running"
<1>1. Busy(w)
  BY DEF After, Busy
<1>2. worker[w] \in [state : {"running"}, at : Place, handler : Handler]
  BY <1>1, HandlerShape DEF Inv, Busy
<1> QED BY <1>1, <1>2 DEF GoOn, Inv, TypeOK, Idle

LEMMA WorkerRound ==
  ASSUME Inv, Round, NEW w \in Worker, WorkerStep(w)
  PROVE  Round'
<1>1. CASE UseDestroyed(w) \/ HandlerThrows(w)
  BY <1>1, EndRound DEF UseDestroyed, HandlerThrows
<1>2. CASE RunHandler(w)
  BY <1>2, RunHandlerRound
<1>3. CASE LeaveRun(w)
  <2>1. \A v \in Worker : worker'[v].state = "running" => v # w /\ worker'[v] = worker[v]
    BY <1>3 DEF LeaveRun, NoThread, Inv, TypeOK
  <2>2. ~Live
    BY <1>3 DEF LeaveRun, Round
  <2> QED BY <1>3, <2>1, <2>2, DyingRound DEF LeaveRun, Round, Live
<1>4. ASSUME NEW n \in After(w), Use(w, n) PROVE Round'
  <2>1. UNCHANGED <<gui, stopped, waiting, queue, chains>>
    BY <1>4 DEF Use, GoOn
  <2>2. n = "return" => OpOf(w) = SendOp
    BY <1>4 DEF Use, IsRunning, OpOf
  <2> QED BY <1>4, <2>1, <2>2, GoOnHandler, ChainsKept DEF Use, Live, Busy
<1>5. ASSUME NEW n \in After(w), PunchBack(w, n) PROVE Round'
  <2>1. GoOn(w, n) /\ n = "chat_history_"
    BY <1>5 DEF PunchBack, AtPunchBack, IsRunning, After, WaitOp, Then
  <2>2. /\ UNCHANGED <<gui, stopped>>
        /\ \A v \in Worker : /\ worker'[v].state = "running" <=> Busy(v)
                             /\ Busy(v) => worker'[v].handler = worker[v].handler
    BY <2>1, GoOnHandler DEF Busy
  <2>3. CASE chains < MaxChains /\ chains' = chains + 1 /\ Arm(PunchOp(chains + 1))
    BY <2>2, <2>3, NewChainRound DEF Live
  <2>4. CASE UNCHANGED <<waiting, queue, chains>>
    BY <2>2, <2>4, ChainsKept DEF Live
  <2> QED BY <1>5, <2>3, <2>4 DEF PunchBack
<1>6. ASSUME NEW n \in After(w), Rearm(w, n) PROVE Round'
  BY <1>6, RearmRound
<1> QED BY <1>1, <1>2, <1>3, <1>4, <1>5, <1>6 DEF WorkerStep

LEMMA GuiRound ==
  ASSUME Inv, Round, GuiStep \/ LogIn \/ Leave \/ CloseLogin
  PROVE  Round'
<1>1. CASE LogIn
  BY <1>1, LogInRound, EndRound
<1>2. ASSUME NEW w \in Worker, StartThread(w) PROVE Round'
  <2>1. /\ UNCHANGED <<gui, stopped, waiting, queue, chains>> /\ ~Busy(w)
        /\ worker'[w].state # "running" /\ \A v \in Worker : v # w => worker'[v] = worker[v]
    BY <1>2 DEF StartThread, Inv, TypeOK, NoThread, Idle, Busy
  <2> QED BY <2>1, ChainsKept DEF Live, Busy
<1>3. CASE PunchRelay
  <2>1. CASE End("terminated")
    BY <2>1, EndRound
  <2>2. CASE ~End("terminated")
    <3>1. gui = "threads" /\ gui' = "chat" /\ stopped' = stopped /\ worker' = worker
      BY <1>3, <2>2 DEF PunchRelay
    <3>2. CASE chains < MaxChains /\ chains' = chains + 1 /\ Arm(PunchOp(chains + 1))
      BY <3>1, <3>2, NewChainRound DEF Live, Busy
    <3>3. CASE UNCHANGED <<waiting, queue, chains>>
      BY <3>1, <3>3, ChainsKept DEF Live, Busy
    <3> QED BY <1>3, <2>2, <3>2, <3>3 DEF PunchRelay
  <2> QED BY <2>1, <2>2
<1>4. CASE Leave
  BY <1>4, ChainsKept DEF Leave, Live, Busy
<1>5. CASE CloseLogin \/ Stop \/ Leaving
  <2>1. ~Live' /\ worker' = worker /\ (gui' = "destroying" => stopped')
    BY <1>5 DEF CloseLogin, Stop, Leaving, Live
  <2> QED BY <2>1, DyingRound
<1>6. ASSUME NEW m \in Member, Destroy(m) PROVE Round'
  <2>1. ~Live' /\ worker' = worker /\ stopped'
    BY <1>6 DEF Destroy, Live, Round
  <2> QED BY <2>1, DyingRound
<1> QED BY <1>1, <1>2, <1>3, <1>4, <1>5, <1>6 DEF GuiStep

LEMMA RoundStep == Inv /\ Round /\ [Next]_vars => Round'
<1> SUFFICES ASSUME Inv, Round, [Next]_vars PROVE Round'
    OBVIOUS
<1>1. ASSUME NEW w \in Worker, WorkerStep(w) PROVE Round'
  BY <1>1, WorkerRound
<1>2. ASSUME NEW op \in Operation, Complete(op) PROVE Round'
  <2>1. /\ op \in waiting /\ waiting' = waiting \ {op}
        /\ queue' = Append(queue, [op |-> op, aborted |-> FALSE])
        /\ UNCHANGED <<gui, alive, stopped, chains, worker, dht>>
    BY <1>2 DEF Complete
  <2> QED BY <2>1, QueuedRound
<1>3. CASE PostSend
  <2>1. /\ SendOp \in Operation /\ waiting' = waiting
        /\ queue' = Append(queue, [op |-> SendOp, aborted |-> FALSE])
        /\ UNCHANGED <<gui, alive, stopped, chains, worker, dht>>
    BY <1>3, OperationShape DEF PostSend
  <2> QED BY <2>1, QueuedRound
<1>4. CASE DhtValue \/ DhtStep
  <2>1. CASE End("undefined") \/ End("terminated")
    BY <2>1, EndRound
  <2>2. CASE ~End("undefined") /\ ~End("terminated")
    <3>1. UNCHANGED <<gui, stopped, waiting, queue, chains, worker>>
      BY <1>4, <2>2 DEF DhtValue, DhtStep
    <3> QED BY <3>1, ChainsKept DEF Live, Busy
  <2> QED BY <2>1, <2>2
<1>5. CASE UNCHANGED vars
  BY <1>5, ChainsKept DEF vars, Live, Busy
<1> QED BY <1>1, <1>2, <1>3, <1>4, <1>5, GuiRound DEF Next

LEMMA AlwaysRound == Spec => []Round
<1>1. Init => Round
  BY DEF Init, Round, Live, AbortedNeverRuns, NoThread
<1> QED BY <1>1, RoundStep, AlwaysInv, PTL DEF Spec

(* No worker ever runs the handler of a wait that was cancelled, although  *)
(* put_signed and hole_punch would go on in one.                           *)
THEOREM CancelledHandlersDoNotRun == Spec => []AbortedNeverRuns
BY AlwaysRound, PTL DEF Round

(* Each chain goes round once, in any number of workers: it never splits   *)
(* in two, and never comes to an end before the session does.              *)
THEOREM ChainsGoRoundOnce == Spec => []OneOfEach
<1>1. Round => OneOfEach
  <2> SUFFICES ASSUME Round, gui \in {"threads", "chat"}, NEW op \in Started
               PROVE  \E h \in Holders(op) : Holders(op) = {h}
      BY DEF OneOfEach
  <2>1. Exclusive /\ Held /\ op # SendOp
    BY StartedShape DEF Round, Live
  <2>2. \A h : h \in Holders(op) <=> \/ op \in waiting /\ h = <<"waiting", op>>
                                     \/ \E i \in DOMAIN queue : queue[i].op = op /\ h = <<"queued", i>>
                                     \/ \E w \in Worker : Busy(w) /\ OpOf(w) = op /\ h = <<"running", w>>
    BY DEF Holders, Queued, IsRunning, Busy, OpOf
  <2>3. \E h : h \in Holders(op)
    BY <2>1, <2>2 DEF Held
  <2>4. \A g, h \in Holders(op) : g = h
    BY <2>1, <2>2 DEF Exclusive
  <2> QED BY <2>3, <2>4
<1> QED BY <1>1, AlwaysRound, PTL
=============================================================================
