-------------------------------- MODULE Session --------------------------------
(***************************************************************************)
(* The life of a P2PMessengerImpl from login to logout or to the closing   *)
(* of the window: which members exist, which handlers io_context_ holds,   *)
(* and what the workers and the DHT's thread are doing meanwhile.          *)
(***************************************************************************)
EXTENDS Naturals, Sequences, FiniteSets

CONSTANTS
  Worker,     \* threads_
  MaxChains,  \* bound: chains of hole punches in one session
  MaxSends    \* bound: sends in io_context_ at a time

ASSUME BoundAssumption == MaxChains \in Nat /\ MaxSends \in Nat

VARIABLES
  gui,      \* what the interface thread is in, or how the program has ended
  alive,    \* how many of Members are constructed and not yet destroyed
  stopped,  \* io_context_.stop() was called
  waiting,  \* asynchronous operations under way
  queue,    \* handlers io_context_ has to run
  chains,   \* chains of hole punches started
  worker,   \* what each worker is executing
  dht       \* what the thread of node_ is in

vars == <<gui, alive, stopped, waiting, queue, chains, worker, dht>>

(* Members in the order of their declaration; the last one is destroyed    *)
(* first.                                                                  *)
Members == <<"threads_", "io_context_", "work_guard_", "socket_", "message_sender_",
             "message_receiver_", "dht_ip_resolver_", "metadata_ip_resolver_",
             "chat_history_", "udp_hole_puncher_">>
Member == {Members[i] : i \in 1..Len(Members)}
Place == Member \cup {"ChatPage"}

Chain == 1..MaxChains
WaitOp == [kind |-> "wait", chain |-> 0]
SendOp == [kind |-> "send", chain |-> 0]
RefreshOp == [kind |-> "refresh", chain |-> 0]
PunchOp(c) == [kind |-> "punch", chain |-> c]
Timer == {RefreshOp} \cup {PunchOp(c) : c \in Chain}
Operation == Timer \cup {WaitOp, SendOp}
Handler == [op : Operation, aborted : BOOLEAN]

(* What a handler touches first, and after m: members of this              *)
(* P2PMessengerImpl and the ChatPage its signals are emitted from.  A      *)
(* datagram may be a message for this peer; a hole punch, a message to     *)
(* forward or one whose punching back throws; or none of these.  A send    *)
(* may find the address in one resolver, in the other or in none.          *)
First(kind) ==
  CASE kind = "wait" -> "socket_"
    [] kind = "send" -> "metadata_ip_resolver_"
    [] kind = "refresh" -> "dht_ip_resolver_"
    [] kind = "punch" -> "udp_hole_puncher_"

Then(kind, m) ==
  CASE kind = "wait" ->
         (CASE m = "socket_" -> {"metadata_ip_resolver_", "message_receiver_"}
            [] m = "metadata_ip_resolver_" -> {"udp_hole_puncher_", "message_receiver_"}
            [] m = "udp_hole_puncher_" -> {"chat_history_"}
            [] m = "chat_history_" -> {"ChatPage"}
            [] m = "ChatPage" -> {"message_receiver_"}
            [] OTHER -> {"return"})
    [] kind = "send" ->
         (CASE m = "metadata_ip_resolver_" -> {"dht_ip_resolver_", "message_sender_"}
            [] m = "dht_ip_resolver_" -> {"message_sender_", "return"}
            [] m = "message_sender_" -> {"socket_"}
            [] m = "socket_" -> {"chat_history_", "return"}
            [] m = "chat_history_" -> {"ChatPage"}
            [] OTHER -> {"return"})
    [] kind = "refresh" -> {"return"}
    [] kind = "punch" -> IF m = "socket_" THEN {"return"} ELSE {"socket_"}

NoThread == [state |-> "none", at |-> "io_context_"]
Idle == [state |-> "idle", at |-> "io_context_"]
Executing(handler, m) == [state |-> "running", at |-> m, handler |-> handler]
IsRunning(w, op) == worker[w].state = "running" /\ worker[w].handler.op = op

Queued(op) == {i \in DOMAIN queue : queue[i].op = op}

Alive(m) == \/ m = "ChatPage" /\ gui # "exit"
            \/ \E i \in 1..alive : Members[i] = m
SocketClosed == ~Alive("message_receiver_")

Init ==
  /\ gui = "login"
  /\ alive = 0 /\ stopped = FALSE
  /\ waiting = {} /\ queue = <<>> /\ chains = 0
  /\ worker = [w \in Worker |-> NoThread]
  /\ dht = "none"

-----------------------------------------------------------------------------
(* async_wait on a timer or the socket; expires_after and the destruction  *)
(* of a timer first cancel a wait that is pending, whose handler is then   *)
(* to run with an error.                                                   *)
CancelledWait(op) == IF op \in waiting THEN <<[op |-> op, aborted |-> TRUE]>> ELSE <<>>

Arm(op) ==
  /\ queue' = queue \o CancelledWait(op)
  /\ waiting' = waiting \cup {op}

Cancel(op) ==
  /\ queue' = queue \o CancelledWait(op)
  /\ waiting' = waiting \ {op}

(* A datagram arrives, or a timer expires, and a thread in run() notices.  *)
Complete(op) ==
  /\ ~stopped /\ op \in waiting
  /\ \E w \in Worker : worker[w] # NoThread
  /\ waiting' = waiting \ {op}
  /\ queue' = Append(queue, [op |-> op, aborted |-> FALSE])
  /\ UNCHANGED <<gui, alive, stopped, chains, worker, dht>>

(* The user sends a message: a lambda is posted.                           *)
PostSend ==
  /\ gui = "chat"
  /\ Cardinality(Queued(SendOp)) + Cardinality({w \in Worker : IsRunning(w, SendOp)}) < MaxSends
  /\ queue' = Append(queue, [op |-> SendOp, aborted |-> FALSE])
  /\ UNCHANGED <<gui, alive, stopped, waiting, chains, worker, dht>>

-----------------------------------------------------------------------------
(* A thread uses what is no longer there: undefined behaviour.  An         *)
(* exception leaves run() or a slot: std::terminate.  No state is left.    *)
End(how) ==
  /\ gui' = how
  /\ alive' = 0 /\ stopped' = FALSE
  /\ waiting' = {} /\ queue' = <<>> /\ chains' = 0
  /\ worker' = [w \in Worker |-> NoThread]
  /\ dht' = "none"

UseDestroyed(w) ==
  /\ worker[w] # NoThread /\ ~Alive(worker[w].at)
  /\ End("undefined")

(* Mutant (a definition of this name shows what a property would notice):  *)
(* the receive handler waits for the next datagram before it begins.       *)
RearmFirstMutant(w) ==
  /\ worker[w] = Idle /\ Alive("io_context_")
  /\ ~stopped /\ queue # <<>>
  /\ worker' = [worker EXCEPT ![w] = Executing(Head(queue), First(Head(queue).op.kind))]
  /\ queue' = Tail(queue)
  /\ waiting' = waiting \cup ({Head(queue).op} \cap {WaitOp})
  /\ UNCHANGED <<gui, alive, stopped, chains, dht>>

(* run() takes the next handler, unless stopped: then it returns.          *)
RunHandler(w) ==
  /\ worker[w] = Idle /\ Alive("io_context_")
  /\ ~stopped /\ queue # <<>>
  /\ worker' = [worker EXCEPT ![w] = Executing(Head(queue), First(Head(queue).op.kind))]
  /\ queue' = Tail(queue)
  /\ UNCHANGED <<gui, alive, stopped, waiting, chains, dht>>

LeaveRun(w) ==
  /\ worker[w] = Idle /\ Alive("io_context_") /\ stopped
  /\ worker' = [worker EXCEPT ![w] = NoThread]
  /\ UNCHANGED <<gui, alive, stopped, waiting, queue, chains, dht>>

(* A handler uses the member it is at, which exists, and goes on to n.     *)
After(w) ==
  IF worker[w].state = "running" THEN Then(worker[w].handler.op.kind, worker[w].at) ELSE {}

GoOn(w, n) ==
  /\ n \in After(w) /\ Alive(worker[w].at)
  /\ worker' = [worker EXCEPT ![w] = IF n = "return" THEN Idle ELSE [@ EXCEPT !.at = n]]
  /\ UNCHANGED <<gui, alive, stopped, dht>>

AtClosedSocket(w) == worker[w].at = "socket_" /\ SocketClosed
(* The handler of a message calls start_hole_punching.                     *)
AtPunchBack(w) == IsRunning(w, WaitOp) /\ worker[w].at = "udp_hole_puncher_"

(* A send catches what send_to throws, and returns.                        *)
Use(w, n) ==
  /\ GoOn(w, n) /\ ~AtPunchBack(w)
  /\ n # "return" \/ IsRunning(w, SendOp)
  /\ AtClosedSocket(w) => n = "return"
  /\ UNCHANGED <<waiting, queue, chains>>

PunchBack(w, n) ==
  /\ GoOn(w, n) /\ AtPunchBack(w)
  /\ IF chains < MaxChains
     THEN chains' = chains + 1 /\ Arm(PunchOp(chains + 1))
     ELSE UNCHANGED <<waiting, queue, chains>>

(* Mutant: only the receive handler starts its operation again.            *)
FireOnceMutant(w, n) ==
  /\ GoOn(w, n) /\ n = "return"
  /\ ~IsRunning(w, SendOp) /\ ~AtClosedSocket(w)
  /\ IF IsRunning(w, WaitOp) THEN Arm(WaitOp) ELSE UNCHANGED <<waiting, queue>>
  /\ UNCHANGED chains

(* Mutant: a send, too, is started again.                                  *)
RearmAllMutant(w, n) ==
  /\ GoOn(w, n) /\ n = "return" /\ ~AtClosedSocket(w)
  /\ Arm(worker[w].handler.op)
  /\ UNCHANGED chains

(* The end of all but the posted sends starts the operation again, also    *)
(* when the handler ran because it was cancelled.                          *)
Rearm(w, n) ==
  /\ GoOn(w, n) /\ n = "return"
  /\ ~IsRunning(w, SendOp) /\ ~AtClosedSocket(w)
  /\ Arm(worker[w].handler.op)
  /\ UNCHANGED chains

(* The handlers of the socket and of the timers do not catch what the      *)
(* socket throws: a closed one always, an open one that nothing can be     *)
(* sent on; nor what reading a malformed datagram throws.                  *)
HandlerThrows(w) ==
  /\ worker[w].state = "running" /\ worker[w].at = "socket_" /\ Alive("socket_")
  /\ ~IsRunning(w, SendOp)
  /\ End("terminated")

WorkerStep(w) ==
  \/ UseDestroyed(w) \/ RunHandler(w) \/ LeaveRun(w)
  \/ \E n \in After(w) : Use(w, n) \/ PunchBack(w, n) \/ Rearm(w, n)
  \/ HandlerThrows(w)

-----------------------------------------------------------------------------
(* The thread of node_ calls the listen callback: it stores an address     *)
(* and emits a signal of the page.  No call begins once ~DhtIpResolver has *)
(* cancelled the listens and is joining the node.  A value that is no      *)
(* address makes it throw.                                                 *)
JoiningNode == gui = "destroying" /\ alive > 0 /\ Members[alive] = "dht_ip_resolver_"

DhtValue ==
  /\ dht = "idle" /\ ~JoiningNode
  /\ dht' = "callback"
  /\ UNCHANGED <<gui, alive, stopped, waiting, queue, chains, worker>>

(* Mutant: the signal waits for its slot (Qt::BlockingQueuedConnection).   *)
BlockingEmitMutant ==
  /\ dht = "callback" /\ gui \notin {"threads", "stopping", "destroying"}
  /\ dht' = "idle" /\ UNCHANGED <<gui, alive, stopped, waiting, queue, chains, worker>>

DhtStep ==
  /\ dht = "callback"
  /\ IF Alive("dht_ip_resolver_") /\ Alive("ChatPage")
     THEN \/ dht' = "idle" /\ UNCHANGED <<gui, alive, stopped, waiting, queue, chains, worker>>
          \/ End("terminated")
     ELSE End("undefined")

-----------------------------------------------------------------------------
(* The interface thread.                                                   *)

(* Construction up to the end of listen(): nothing else of the session     *)
(* runs yet.  The port may be taken, the identity file missing.            *)
LogIn ==
  /\ gui = "login"
  /\ \/ End("terminated")
     \/ /\ gui' = "threads"
        /\ alive' = Len(Members) /\ stopped' = FALSE
        /\ waiting' = {WaitOp, RefreshOp} /\ queue' = <<>> /\ chains' = 0
        /\ dht' = "idle"
        /\ UNCHANGED worker

StartThread(w) ==
  /\ gui = "threads" /\ worker[w] = NoThread
  /\ worker' = [worker EXCEPT ![w] = Idle]
  /\ UNCHANGED <<gui, alive, stopped, waiting, queue, chains, dht>>

(* Punching towards the relay node, if there is one, ends the constructor. *)
(* An exception finds no handler in log_in, nor in main.                   *)
PunchRelay ==
  /\ gui = "threads" /\ \A w \in Worker : worker[w] # NoThread
  /\ \/ /\ gui' = "chat"
        /\ \/ chains < MaxChains /\ chains' = chains + 1 /\ Arm(PunchOp(chains + 1))
           \/ UNCHANGED <<waiting, queue, chains>>
        /\ UNCHANGED <<alive, stopped, worker, dht>>
     \/ End("terminated")

(* A click on logout, or the window is closed and main returns.            *)
Leave ==
  /\ gui = "chat"
  /\ gui' = "stopping"
  /\ UNCHANGED <<alive, stopped, waiting, queue, chains, worker, dht>>

CloseLogin ==
  /\ gui = "login"
  /\ gui' = "exit"
  /\ UNCHANGED <<alive, stopped, waiting, queue, chains, worker, dht>>

(* Mutant: only the work guard is reset.                                   *)
StopForgottenMutant ==
  /\ gui = "stopping"
  /\ gui' = "destroying"
  /\ UNCHANGED <<alive, stopped, waiting, queue, chains, worker, dht>>

(* The body of ~P2PMessengerImpl: work_guard_.reset(), io_context_.stop(). *)
Stop ==
  /\ gui = "stopping"
  /\ gui' = "destroying" /\ stopped' = TRUE
  /\ UNCHANGED <<alive, waiting, queue, chains, worker, dht>>

(* Mutants: node_ is not joined; the threads are detached.                 *)
NotJoinedMutant == TRUE
DetachedMutant == TRUE

(* node_.join() waits for the callback to return; a jthread is joined.     *)
NodeJoined == dht # "callback"
ThreadsJoined == \A w \in Worker : worker[w] = NoThread

(* Then the members go, the last first.                                    *)
Destroy(m) ==
  /\ gui = "destroying" /\ alive > 0 /\ m = Members[alive]
  /\ m = "dht_ip_resolver_" => NodeJoined
  /\ m = "threads_" => ThreadsJoined
  /\ alive' = alive - 1
  /\ dht' = IF m = "dht_ip_resolver_" /\ dht = "idle" THEN "none" ELSE dht
  /\ CASE m = "dht_ip_resolver_" -> Cancel(RefreshOp)
       [] m = "message_receiver_" -> Cancel(WaitOp)
       [] m = "io_context_" -> waiting' = {} /\ queue' = <<>>
       [] OTHER -> UNCHANGED <<waiting, queue>>
  /\ UNCHANGED <<gui, stopped, chains, worker>>

(* The page shown is the login page, or the page itself is destroyed.      *)
Leaving ==
  /\ gui = "destroying" /\ alive = 0
  /\ gui' \in {"login", "exit"}
  /\ UNCHANGED <<alive, stopped, waiting, queue, chains, worker, dht>>

GuiStep ==
  \/ \E w \in Worker : StartThread(w)
  \/ PunchRelay \/ Stop \/ Leaving
  \/ \E m \in Member : Destroy(m)

Next ==
  \/ \E w \in Worker : WorkerStep(w)
  \/ \E op \in Operation : Complete(op)
  \/ DhtValue \/ DhtStep
  \/ GuiStep \/ LogIn \/ Leave \/ CloseLogin \/ PostSend

Spec == Init /\ [][Next]_vars

(* Every thread goes on, and every timer expires.  The user, the DHT and   *)
(* the network owe nothing.                                                *)
FairSpec ==
  /\ Spec
  /\ \A w \in Worker : WF_vars(WorkerStep(w))
  /\ \A t \in Timer : WF_vars(Complete(t))
  /\ WF_vars(DhtStep) /\ WF_vars(GuiStep)

-----------------------------------------------------------------------------
TypeOK ==
  /\ gui \in {"login", "threads", "chat", "stopping", "destroying",
             "exit", "terminated", "undefined"}
  /\ stopped \in BOOLEAN
  /\ alive \in 0..Len(Members)
  /\ waiting \subseteq Timer \cup {WaitOp} /\ queue \in Seq(Handler)
  /\ chains \in 0..MaxChains
  /\ worker \in [Worker -> {NoThread, Idle}
                          \cup [state : {"running"}, at : Place, handler : Handler]]
  /\ dht \in {"none", "idle", "callback"}

(* The receive chain, the refresh of the DHT value and each chain of hole  *)
(* punches go round once: their operation is under way, or its handler is  *)
(* queued, or a worker executes it, and never two of these.                *)
Started == {op \in Operation : op \in {WaitOp, RefreshOp} \/ \E c \in 1..chains : op = PunchOp(c)}
Holders(op) ==
  {<<"waiting", o>> : o \in {op} \cap waiting}
  \cup {<<"queued", i>> : i \in Queued(op)}
  \cup {<<"running", w>> : w \in {v \in Worker : IsRunning(v, op)}}
OneOfEach ==
  gui \in {"threads", "chat"} => \A op \in Started : \E h \in Holders(op) : Holders(op) = {h}

(* put_signed and hole_punch go on when their wait was cancelled.  No      *)
(* worker ever gets to do that, as no wait is cancelled before stop().     *)
AbortedNeverRuns ==
  \A w \in Worker : worker[w].state = "running" => ~worker[w].handler.aborted

(* The listen callback finds the resolver, whose destructor waits for it.  *)
DhtThreadOutlived == dht = "callback" => Alive("dht_ip_resolver_")

(* No thread emits a signal of a page that is gone: the messenger, a       *)
(* member of the page, joins every thread before the page is destroyed.    *)
CallbacksFindPage ==
  gui = "exit" => dht = "none" /\ \A w \in Worker : worker[w] = NoThread

(* The destructor ends, whatever the threads it joins are doing.           *)
DestructorEnds ==
  gui \in {"stopping", "destroying"} ~> gui \in {"login", "exit", "terminated", "undefined"}

(* Each chain of hole punches and the refresh go on for as long as the     *)
(* session does, whatever happens on the other workers.                    *)
TimersKeepFiring ==
  \A t \in Timer :
    gui = "chat" /\ t \in Started ~> gui # "chat" \/ \E w \in Worker : IsRunning(w, t)

(* "Shutting down gracefully...": no thread touches a member that has been *)
(* destroyed.                                                              *)
HandlersFindMembers == gui # "undefined"
=============================================================================
