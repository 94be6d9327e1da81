------------------------------ MODULE Initiator ------------------------------
(***************************************************************************)
(* The life of a connection initiator: Daemon, Service, Peer, Initiator    *)
(* and TcpInitiator together.                                              *)
(*                                                                         *)
(* Clients start, stop and shut the service down and ask it for its        *)
(* connection; the service thread enters, takes messages from its queue    *)
(* and exits.  They meet in two monitors: the service's own ("this") and   *)
(* f_vExitMonitor.  ensureConnection holds the first while it waits for    *)
(* answers that only the service thread can give, and the service thread   *)
(* needs it for every change of state: what resolves this is the time-out  *)
(* of the request.                                                         *)
(*                                                                         *)
(* Abstractions: the gate of a connection is either free, or has clients   *)
(* inside, who close the connection when they leave (module Channel has    *)
(* the details); a reader that fails, a ping without answer and the        *)
(* peer's NotifyConnectionClosed all put one request to close into the     *)
(* queue; an address of a redirection is one more address.  Left out: the  *)
(* event dispatcher, listeners and statistics.                             *)
(***************************************************************************)
EXTENDS Naturals, Sequences, SequencesExt, FiniteSets

CONSTANTS Clients,
          Conns,      \* the connections that can be made
          Addresses,  \* how many addresses openConnection tries
          MaxCalls,   \* bound: calls of all clients together
          Usage       \* "inside": clients use the connection when it is closed
                      \* "broken": closing it throws (its channel's close exception is set)
                      \* "fatal": an exception leaves onNotify

Service == "service"
NoOne   == "no one"

ASSUME InitiatorConstants ==
    /\ Clients \cap {Service, NoOne} = {} /\ NoOne \notin Conns
    /\ Addresses \in Nat \ {0} /\ MaxCalls \in Nat
    /\ Usage \subseteq {"inside", "broken", "fatal"}

DaemonStates  == <<"initial", "starting", "running", "exiting", "exited">>
ServiceStates == <<"initial", "starting", "started", "stopping", "stopped">>

VARIABLES daemon,      \* m_nDaemonState
          state,       \* m_nServiceState
          accepting,   \* m_fAcceptingClients
          failed,      \* whether m_ohExceptionStart is not NULL
          monitor,     \* who holds the monitor of the service
          asleep,      \* who waits in it
          exitMonitor, \* who holds f_vExitMonitor
          interrupted, \* the interrupt flag of the service thread
          queue,       \* the messages to the service thread
          internal,    \* whether the internal connection and its channel are open
          conn,        \* the state of every connection
          current,     \* m_hConnection
          unanswered,  \* requests to open that the peer has not answered
          marked,      \* connections to be closed by whoever leaves their gate
          job,         \* what each client does
          svc,         \* what the service thread does
          late,        \* history: connections whose opener gave up before it knew them open
          calls        \* the calls begun

states == <<daemon, state, accepting, failed>>
locks  == <<monitor, exitMonitor>>
links  == <<conn, current, unanswered, marked>>
rest   == <<late, calls>>
vars   == <<states, locks, asleep, interrupted, queue, internal, links, job, svc, rest>>

(***************************************************************************)
(* A connection is asked for, sent (open, its request on the wire), held   *)
(* (open, the peer has accepted it), used (ensureConnection has returned   *)
(* it), cut (open, but its reader's start was interrupted) and in the end  *)
(* closed, or refused if it was never held.                                *)
(***************************************************************************)
Held(k) == conn[k] \in {"held", "used"}
Open(k) == Held(k) \/ conn[k] \in {"sent", "cut"}

Idle == [at |-> "idle", conn |-> NoOne, tries |-> 0, ask |-> "none"]
Message(kind, k, c) == [kind |-> kind, conn |-> k, who |-> c]
Nothing == Message("none", NoOne, NoOne)

Init == /\ daemon = "initial" /\ state = "initial" /\ accepting = FALSE /\ failed = FALSE
        /\ monitor = NoOne /\ asleep = {} /\ exitMonitor = NoOne /\ interrupted = FALSE
        /\ queue = <<>> /\ internal = FALSE
        /\ conn = [k \in Conns |-> "new"] /\ current = NoOne
        /\ unanswered = {} /\ marked = {}
        /\ job = [c \in Clients |-> Idle]
        /\ svc = [at |-> "none", msg |-> Nothing]
        /\ late = {} /\ calls = 0

Before(seq, s, t) == \E i, j \in DOMAIN seq : i < j /\ seq[i] = s /\ seq[j] = t
Advance(seq, s, t) == IF Before(seq, s, t) THEN t ELSE s

isStarted == daemon \in {"starting", "running", "exiting"}
isRunning == state = "started" /\ daemon # "exiting"

Free(t) == monitor \in {NoOne, t}

(***************************************************************************)
(* A step of a client: where it is next, or the end of its call.           *)
(***************************************************************************)
At(c, p) == job[c].at = p
Goes(c, p)  == job' = [job EXCEPT ![c].at = p]
Ends(c)     == job' = [job EXCEPT ![c] = Idle]

Begin(c, p) == /\ At(c, "idle") /\ calls < MaxCalls
               /\ calls' = calls + 1
               /\ job' = [job EXCEPT ![c] = [Idle EXCEPT !.at = p]]
               /\ UNCHANGED <<states, locks, asleep, interrupted, queue, internal, links, svc, late>>

(***************************************************************************)
(* Connections and the queue.                                              *)
(***************************************************************************)
Post(m) == queue' = Append(queue, m)
Queued(kind, k) == \E m \in ToSet(queue) : m.kind = kind /\ m.conn = k

\* closeInternal: at once, or by those inside when they leave.
Closed(k) == [conn EXCEPT ![k] = IF Held(k) THEN "closed" ELSE "refused"]
CloseInternal(k) ==
    \/ /\ ~ Open(k) /\ UNCHANGED links
    \/ /\ Open(k)
       /\ conn' = Closed(k)
       /\ current' = IF current = k THEN NoOne ELSE current
       /\ marked' = marked \ {k} /\ unanswered' = unanswered \ {k}
    \/ /\ conn[k] = "used" /\ "inside" \in Usage
       /\ marked' = marked \cup {k}
       /\ UNCHANGED <<conn, current, unanswered>>

\* The last one to leave the gate of a marked connection asks for its close.
Leave(k) ==
    /\ k \in marked /\ state = "started" /\ internal /\ ~ Queued("close", k)
    /\ marked' = marked \ {k}
    /\ Post(Message("close", k, NoOne))
    /\ UNCHANGED <<states, locks, asleep, interrupted, internal, conn, current, unanswered, job, svc, rest>>

\* The reader fails, a ping is not answered or the peer closes the connection.
Lose(k) ==
    /\ Open(k) /\ internal /\ ~ Queued("close", k)
    /\ Post(Message("close", k, NoOne))
    /\ UNCHANGED <<states, locks, asleep, interrupted, internal, links, job, svc, rest>>

\* The peer answers a request to open.
Answer(k) ==
    /\ k \in unanswered /\ daemon # "exited"
    /\ unanswered' = unanswered \ {k}
    /\ \E kind \in {"accept", "refuse"} : Post(Message(kind, k, NoOne))
    /\ UNCHANGED <<states, locks, asleep, interrupted, internal, conn, current, marked, job, svc, rest>>

(***************************************************************************)
(* setServiceState: only forward.  On the way to "stopping" and "stopped"  *)
(* the initiator closes its connection; everyone who waits is woken.       *)
(***************************************************************************)
\* Fault: onServiceStopped does not close the connection.
OnServiceStateForgets(s) == UNCHANGED links

OnServiceState(s) ==
    IF s \in {"stopping", "stopped"} /\ current # NoOne THEN CloseInternal(current)
                                                        ELSE UNCHANGED links

SetServiceState(s) ==
    /\ IF Before(ServiceStates, state, s)
          THEN /\ state' = s /\ accepting' = (s = "started")
               /\ OnServiceState(s)
          ELSE /\ state = s
               /\ UNCHANGED <<state, accepting, links>>
    /\ asleep' = {}

(***************************************************************************)
(* start.  A service that is stopping or stopped throws at once.           *)
(***************************************************************************)
CallStart(c) == state \notin {"stopping", "stopped"} /\ Begin(c, "start")

Starting == isStarted /\ state \in {"initial", "starting", "started"} /\ ~ accepting

StartLoop(c) == IF Starting THEN Goes(c, "accepting")
                ELSE Ends(c)

Start(c) ==
    /\ At(c, "start") /\ monitor = NoOne
    /\ IF daemon = "initial"
          THEN /\ daemon' = "starting" /\ failed' = FALSE
               /\ svc' = [svc EXCEPT !.at = "enter"]
               /\ Goes(c, "starting")
          ELSE /\ IF isStarted THEN StartLoop(c) ELSE Ends(c)
               /\ UNCHANGED <<daemon, failed, svc>>
    /\ UNCHANGED <<state, accepting, locks, asleep, interrupted, queue, internal, links, rest>>

\* The waits of start are timed: it looks again by itself.
AwaitThread(c) ==
    /\ At(c, "starting") /\ monitor = NoOne /\ daemon # "starting"
    /\ IF failed THEN Ends(c) ELSE StartLoop(c)
    /\ failed' = FALSE
    /\ UNCHANGED <<daemon, state, accepting, locks, asleep, interrupted, queue, internal, links, svc, rest>>

AwaitAccepting(c) ==
    /\ At(c, "accepting") /\ monitor = NoOne /\ ~ Starting
    /\ StartLoop(c)
    /\ UNCHANGED <<states, locks, asleep, interrupted, queue, internal, links, svc, rest>>

(***************************************************************************)
(* stop.  A service that was not started is only marked as stopped.        *)
(***************************************************************************)
CallStop(c) == Begin(c, IF isStarted THEN "stop" ELSE "settle")

Settle(c) ==
    /\ At(c, "settle") /\ monitor = NoOne
    /\ IF isStarted THEN Goes(c, "stop") /\ UNCHANGED <<state, accepting, asleep, links>>
                    ELSE SetServiceState("stopped") /\ Ends(c)
    /\ UNCHANGED <<daemon, failed, locks, interrupted, queue, internal, svc, rest>>

\* Fault: every stop goes through.
StoppedBeforeNever == FALSE
StoppedBefore == daemon = "exiting"

Stop(c) ==
    /\ At(c, "stop") /\ exitMonitor = NoOne
    /\ IF StoppedBefore THEN Ends(c) /\ UNCHANGED exitMonitor
                             ELSE exitMonitor' = c /\ Goes(c, "mark")
    /\ UNCHANGED <<states, monitor, asleep, interrupted, queue, internal, links, svc, rest>>

SetExiting(c) ==
    /\ At(c, "mark") /\ monitor = NoOne
    /\ daemon' = Advance(DaemonStates, daemon, "exiting")
    /\ interrupted' = (isStarted \/ interrupted)
    /\ exitMonitor' = NoOne
    /\ Ends(c)
    /\ UNCHANGED <<state, accepting, failed, monitor, asleep, queue, internal, links, svc, rest>>

(***************************************************************************)
(* shutdown asks the service thread to stop and waits, without a limit.    *)
(***************************************************************************)
CallShutdown(c) == Begin(c, "shutdown")

\* Fault: shutdown waits only once.
StillStoppingOnce(c) == isStarted /\ state # "stopped" /\ At(c, "shutdown")
StillStopping(c) == isStarted /\ state # "stopped"

StopLoop(c) ==
    IF StillStopping(c)
       THEN Goes(c, "stopping") /\ asleep' = asleep \cup {c} /\ UNCHANGED <<state, accepting, links>>
       ELSE /\ Ends(c)
            /\ IF state # "stopped" /\ ~ isStarted
                  THEN SetServiceState("stopped")
                  ELSE UNCHANGED <<state, accepting, links, asleep>>

Shutdown(c) ==
    /\ At(c, "shutdown") /\ monitor = NoOne
    /\ IF isStarted /\ state \notin {"stopping", "stopped"} /\ ~ internal
          THEN Ends(c) /\ UNCHANGED <<state, accepting, links, asleep, queue>>
          ELSE /\ StopLoop(c)
               /\ IF isStarted /\ state \notin {"stopping", "stopped"}
                     THEN Post(Message("shutdown", NoOne, NoOne)) ELSE UNCHANGED queue
    /\ UNCHANGED <<daemon, failed, locks, interrupted, internal, svc, rest>>

AwaitStopped(c) ==
    /\ At(c, "stopping") /\ c \notin asleep /\ monitor = NoOne
    /\ StopLoop(c)
    /\ UNCHANGED <<daemon, failed, locks, interrupted, queue, internal, svc, rest>>

(***************************************************************************)
(* ensureConnection holds the monitor from the first test to the end.      *)
(***************************************************************************)
CallEnsure(c) == Begin(c, "ensure")

Hands(c, k) == Ends(c) /\ conn' = IF Held(k) THEN [conn EXCEPT ![k] = "used"] ELSE conn

Ensure(c) ==
    /\ At(c, "ensure") /\ monitor = NoOne
    /\ \/ ~ isRunning /\ Ends(c) /\ UNCHANGED <<monitor, conn>>
       \/ isRunning /\ current # NoOne /\ Hands(c, current) /\ UNCHANGED monitor
       \/ /\ isRunning /\ current = NoOne
          /\ monitor' = c
          /\ job' = [job EXCEPT ![c].at = "connect", ![c].tries = Addresses]
          /\ UNCHANGED conn
    /\ UNCHANGED <<states, exitMonitor, asleep, interrupted, queue, internal, current, unanswered, marked, svc, rest>>

NextAddress(c) == job' = [job EXCEPT ![c] = [Idle EXCEPT !.at = "connect", !.tries = job[c].tries - 1]]
Asks(c, p, k)  == job' = [job EXCEPT ![c].at = p, ![c].conn = k, ![c].ask = "asked"]

\* Fault: one address more than there are.
ExhaustedLate(c) == job[c].tries + 1 = 0
Exhausted(c) == job[c].tries = 0

Connect(c) ==
    /\ At(c, "connect")
    /\ \/ Exhausted(c) /\ Ends(c) /\ monitor' = NoOne /\ UNCHANGED <<queue, conn>>
       \/ ~ Exhausted(c) /\ NextAddress(c) /\ UNCHANGED <<queue, conn, monitor>>   \* no socket
       \/ \E k \in Conns : /\ ~ Exhausted(c) /\ internal /\ conn[k] = "new"
                           /\ conn' = [conn EXCEPT ![k] = "asked"]
                           /\ Post(Message("open", k, c))
                           /\ Asks(c, "opening", k)
                           /\ UNCHANGED monitor
    /\ UNCHANGED <<states, exitMonitor, asleep, interrupted, internal, current, unanswered, marked, svc, rest>>

\* The service thread has executed the request, or its channel was closed.
Opening(c) ==
    /\ At(c, "opening") /\ job[c].ask \in {"answered", "failed"}
    /\ IF job[c].ask = "answered" THEN Goes(c, "connecting") ELSE NextAddress(c)
    /\ UNCHANGED <<states, locks, asleep, interrupted, queue, internal, links, svc, rest>>

\* The peer has answered, or the connection was closed before.
Connecting(c) ==
    /\ At(c, "connecting")
    /\ \/ conn[job[c].conn] \in {"held", "used", "closed"} /\ Hands(c, job[c].conn) /\ monitor' = NoOne
       \/ conn[job[c].conn] = "refused" /\ NextAddress(c) /\ UNCHANGED <<monitor, conn>>
    /\ UNCHANGED <<states, exitMonitor, asleep, interrupted, queue, internal, current, unanswered, marked, svc, rest>>

Closing(c) ==
    /\ At(c, "closing") /\ job[c].ask \in {"answered", "failed"}
    /\ NextAddress(c)
    /\ UNCHANGED <<states, locks, asleep, interrupted, queue, internal, links, svc, rest>>

\* The request to open, or to close, is not executed in time: nothing is undone.
GiveUp(c) ==
    /\ job[c].at \in {"opening", "closing"} /\ job[c].ask = "asked"
    /\ NextAddress(c)
    /\ late' = IF At(c, "opening") THEN late \cup {job[c].conn} ELSE late
    /\ UNCHANGED <<states, locks, asleep, interrupted, queue, internal, links, svc, calls>>

\* Fault: a connection whose peer does not answer in time is forgotten.
ClosesUnansweredNot(c) == FALSE
ClosesUnanswered(c) == Open(job[c].conn)

\* The peer does not answer in time: the connection is closed again.
Timeout(c) ==
    /\ At(c, "connecting") /\ conn[job[c].conn] = "sent"
    /\ IF ClosesUnanswered(c)
          THEN Post(Message("close", job[c].conn, c)) /\ Asks(c, "closing", job[c].conn)
          ELSE NextAddress(c) /\ UNCHANGED queue
    /\ UNCHANGED <<states, locks, asleep, interrupted, internal, links, svc, rest>>

(***************************************************************************)
(* The service thread: onEnter, the loop, runFinally.                      *)
(***************************************************************************)
Runs(p) == svc.at = p
Becomes(p) == svc' = [svc EXCEPT !.at = p, !.msg = IF p = "loop" THEN Nothing ELSE @]

Enter ==
    /\ Runs("enter") /\ internal' = TRUE /\ Becomes("starting")
    /\ UNCHANGED <<states, locks, asleep, interrupted, queue, links, job, rest>>

\* Someone may have called stop before the thread was started: the state is stopped.
EnterState ==
    /\ Runs("starting") /\ Free(Service)
    /\ IF state = "stopped"
          THEN failed' = TRUE /\ Becomes("throw") /\ UNCHANGED <<state, accepting, links, asleep>>
          ELSE SetServiceState("starting") /\ Becomes("startup") /\ UNCHANGED failed
    /\ UNCHANGED <<daemon, locks, interrupted, queue, internal, job, rest>>

EnterSend ==
    /\ Runs("startup") /\ Post(Message("startup", NoOne, NoOne)) /\ Becomes("ready")
    /\ UNCHANGED <<states, locks, asleep, interrupted, internal, links, job, rest>>

Ready ==
    /\ Runs("ready") /\ Free(Service)
    /\ daemon' = Advance(DaemonStates, daemon, "running") /\ asleep' = {}
    /\ Becomes("loop")
    /\ UNCHANGED <<state, accepting, failed, locks, interrupted, queue, internal, links, job, rest>>

OfConnection(m) == m.kind \in {"accept", "refuse"}
Deliverable(m)  == IF OfConnection(m) THEN Open(m.conn) ELSE internal

\* onNotify takes a message and handles it.  It is one step for those that need not
\* wait for the monitor nor for a thread: what a stop does meanwhile is the same
\* before or after them.
Taking == Runs("loop") /\ daemon # "exiting" /\ queue # <<>>
Slow(m) == m.kind \in {"startup", "shutdown", "open"}
Handles(kind) == Runs("handle") /\ svc.msg.kind = kind
Takes(kinds)  == Taking /\ Head(queue).kind \in kinds /\ Deliverable(Head(queue))

Take ==
    /\ Taking /\ (Slow(Head(queue)) \/ ~ Deliverable(Head(queue)))
    /\ queue' = Tail(queue)
    /\ svc' = IF Deliverable(Head(queue)) THEN [at |-> "handle", msg |-> Head(queue)] ELSE svc
    /\ UNCHANGED <<states, locks, asleep, interrupted, internal, links, job, rest>>

Quit ==
    /\ Runs("loop") /\ daemon = "exiting" /\ Becomes("finally")
    /\ UNCHANGED <<states, locks, asleep, interrupted, queue, internal, links, job, rest>>

Startup ==
    /\ Handles("startup") /\ Free(Service)
    /\ SetServiceState("started") /\ Becomes("loop")
    /\ UNCHANGED <<daemon, failed, locks, interrupted, queue, internal, job, rest>>

\* Fault: the handler leaves out the stop of the daemon.
AfterStoppingNothing == "loop"
AfterStopping == "stop"

NotifyShutdown ==
    /\ Handles("shutdown") /\ Free(Service)
    /\ SetServiceState("stopping") /\ Becomes(AfterStopping)
    /\ UNCHANGED <<daemon, failed, locks, interrupted, queue, internal, job, rest>>

Cancelled == [c \in Clients |-> IF job[c].ask = "asked" THEN [job[c] EXCEPT !.ask = "failed"] ELSE job[c]]

\* An exception in a handler on Channel0 closes the connection of the channel,
\* here the internal one: the service takes no further request, not even this one.
ShutdownThrows ==
    /\ Handles("shutdown") /\ Free(Service) /\ "broken" \in Usage /\ current # NoOne
    /\ state' = "stopping" /\ internal' = FALSE /\ job' = Cancelled /\ Becomes("loop")
    /\ UNCHANGED <<daemon, accepting, failed, locks, asleep, interrupted, queue, links, rest>>

\* openInternal waits for the reader to start: an interrupt of stop ends that.
OpenConnection ==
    /\ Handles("open")
    /\ LET k == svc.msg.conn
           to(s, answer) == conn' = [conn EXCEPT ![k] = s] /\ Post(Message(answer, k, svc.msg.who))
       IN IF interrupted THEN to("cut", "failed") /\ UNCHANGED unanswered
          ELSE \/ to("sent", "answered") /\ unanswered' = unanswered \cup {k}
               \/ to("refused", "failed") /\ UNCHANGED unanswered
    /\ interrupted' = FALSE /\ Becomes("loop")
    /\ UNCHANGED <<states, locks, asleep, internal, current, marked, job, rest>>

CloseConnection ==
    /\ Takes({"close"})
    /\ LET m == Head(queue)
       IN /\ CloseInternal(m.conn)
          /\ queue' = IF m.who = NoOne THEN Tail(queue)
                                       ELSE Append(Tail(queue), Message("answered", m.conn, m.who))
    /\ UNCHANGED <<states, locks, asleep, interrupted, internal, job, svc, rest>>

\* The answer to a request nobody waits for any longer is dropped.
Settles ==
    /\ Takes({"answered", "failed"})
    /\ queue' = Tail(queue)
    /\ LET m == Head(queue)
       IN job' = [c \in Clients |->
                    IF c = m.who /\ job[c].conn = m.conn /\ job[c].ask = "asked"
                       THEN [job[c] EXCEPT !.ask = m.kind] ELSE job[c]]
    /\ UNCHANGED <<states, locks, asleep, interrupted, internal, links, svc, rest>>

Accept ==
    /\ Takes({"accept"})
    /\ queue' = Tail(queue)
    /\ conn' = [conn EXCEPT ![Head(queue).conn] = "held"]
    /\ current' = IF current = NoOne THEN Head(queue).conn ELSE current
    /\ UNCHANGED <<states, locks, asleep, interrupted, internal, unanswered, marked, job, svc, rest>>

Refuse ==
    /\ Takes({"refuse"})
    /\ queue' = Tail(queue)
    /\ CloseInternal(Head(queue).conn)
    /\ UNCHANGED <<states, locks, asleep, interrupted, internal, job, svc, rest>>

\* A message of a connection does not decode, and its close throws.
Fatal ==
    /\ Takes({"accept", "refuse"}) /\ "fatal" \in Usage
    /\ queue' = Tail(queue)
    /\ svc' = [at |-> "throw", msg |-> Head(queue)]
    /\ UNCHANGED <<states, locks, asleep, interrupted, internal, links, job, rest>>

(***************************************************************************)
(* onException, and stop on the service thread.                            *)
(***************************************************************************)
Resume == IF svc.msg = Nothing THEN "ready" ELSE "loop"

OnException ==
    /\ Runs("throw")
    /\ Becomes(IF daemon = "exiting" THEN Resume ELSE "stop")
    /\ UNCHANGED <<states, locks, asleep, interrupted, queue, internal, links, job, rest>>

StopMyself ==
    /\ Runs("stop") /\ exitMonitor = NoOne
    /\ IF daemon = "exiting" THEN Becomes("settle") /\ UNCHANGED exitMonitor
                             ELSE Becomes("mark") /\ exitMonitor' = Service
    /\ UNCHANGED <<states, monitor, asleep, interrupted, queue, internal, links, job, rest>>

SetMyselfExiting ==
    /\ Runs("mark") /\ Free(Service)
    /\ daemon' = Advance(DaemonStates, daemon, "exiting")
    /\ exitMonitor' = NoOne /\ Becomes("settle")
    /\ UNCHANGED <<state, accepting, failed, monitor, asleep, interrupted, queue, internal, links, job, rest>>

SettleMyself ==
    /\ Runs("settle") /\ Free(Service)
    /\ SetServiceState("stopped") /\ Becomes(Resume)
    /\ UNCHANGED <<daemon, failed, locks, interrupted, queue, internal, job, rest>>

(***************************************************************************)
(* runFinally: the monitors in the opposite order.                         *)
(***************************************************************************)
Finally ==
    /\ Runs("finally") /\ Free(Service)
    /\ monitor' = Service /\ Becomes("exit")
    /\ UNCHANGED <<states, exitMonitor, asleep, interrupted, queue, internal, links, job, rest>>

Exit ==
    /\ Runs("exit") /\ exitMonitor = NoOne
    /\ interrupted' = FALSE
    /\ SetServiceState("stopped") /\ Becomes("closing")
    /\ UNCHANGED <<daemon, failed, locks, queue, internal, job, rest>>

Exited ==
    /\ Runs("closing")
    /\ internal' = FALSE /\ job' = Cancelled
    /\ daemon' = "exited" /\ asleep' = {} /\ monitor' = NoOne
    /\ Becomes("dead")
    /\ UNCHANGED <<state, accepting, failed, exitMonitor, interrupted, queue, links, rest>>

(***************************************************************************)
(* The specification.  Threads run and take monitors when they are free,   *)
(* and requests are answered or time out; calls need not be made, clients  *)
(* inside need not leave, the peer need not answer.                        *)
(***************************************************************************)
Call(c) == CallStart(c) \/ CallStop(c) \/ CallShutdown(c) \/ CallEnsure(c)

ClientStep(c) ==
    \/ Start(c) \/ AwaitThread(c) \/ AwaitAccepting(c)
    \/ Settle(c) \/ Stop(c) \/ SetExiting(c)
    \/ Shutdown(c) \/ AwaitStopped(c)
    \/ Ensure(c) \/ Connect(c) \/ Opening(c) \/ Connecting(c) \/ Closing(c)

ServiceStep ==
    \/ Enter \/ EnterState \/ EnterSend \/ Ready \/ Take \/ Quit
    \/ Startup \/ NotifyShutdown \/ ShutdownThrows
    \/ OpenConnection \/ CloseConnection \/ Settles \/ Accept \/ Refuse \/ Fatal
    \/ OnException \/ StopMyself \/ SetMyselfExiting \/ SettleMyself
    \/ Finally \/ Exit \/ Exited

Environment == \E k \in Conns : Leave(k) \/ Lose(k) \/ Answer(k)

Next == \/ \E c \in Clients : Call(c) \/ ClientStep(c) \/ GiveUp(c) \/ Timeout(c)
        \/ ServiceStep \/ Environment

Fairness == /\ \A c \in Clients : WF_vars(ClientStep(c)) /\ WF_vars(GiveUp(c)) /\ WF_vars(Timeout(c))
            /\ WF_vars(ServiceStep)

Spec == Init /\ [][Next]_vars /\ Fairness

(***************************************************************************)
(* Properties.                                                             *)
(***************************************************************************)
Places == {"idle", "start", "starting", "accepting", "settle", "stop", "mark", "shutdown",
           "stopping", "ensure", "connect", "opening", "connecting", "closing"}
Kinds  == {"none", "startup", "shutdown", "open", "close", "accept", "refuse", "answered", "failed"}
Messages == [kind : Kinds, conn : Conns \cup {NoOne}, who : Clients \cup {NoOne}]

\* The types; the tries of openConnection (TcpInitiator) stay within its addresses.
TypeOK ==
    /\ daemon \in ToSet(DaemonStates) /\ state \in ToSet(ServiceStates)
    /\ accepting \in BOOLEAN /\ failed \in BOOLEAN /\ interrupted \in BOOLEAN /\ internal \in BOOLEAN
    /\ monitor \in Clients \cup {Service, NoOne} /\ exitMonitor \in Clients \cup {Service, NoOne}
    /\ asleep \subseteq Clients /\ queue \in Seq(Messages)
    /\ conn \in [Conns -> {"new", "asked", "sent", "held", "used", "cut", "closed", "refused"}]
    /\ current \in Conns \cup {NoOne} /\ unanswered \subseteq Conns /\ marked \subseteq Conns
    /\ job \in [Clients -> [at : Places, conn : Conns \cup {NoOne}, tries : 0 .. Addresses,
                            ask : {"none", "asked", "answered", "failed"}]]
    /\ svc \in [at : {"none", "enter", "starting", "startup", "ready", "loop", "handle", "throw",
                      "stop", "mark", "settle", "finally", "exit", "closing", "dead"},
                msg : Messages]
    /\ late \subseteq Conns /\ calls \in 0 .. MaxCalls

\* The code takes the two monitors in one order in Daemon::stop and in the other
\* in runFinally; the threads that do never block each other.
NoEmbrace == ~ (exitMonitor \in Clients /\ monitor = Service)

\* Once the thread has exited, the state is stopped, nobody is left waiting for an
\* answer of it, and the initiator has closed its connection (or abandoned it to
\* the clients inside: onServiceStopped gives up after a second).
ExitedIsClean ==
    daemon = "exited" => /\ state = "stopped" /\ ~ accepting /\ ~ internal
                         /\ \A c \in Clients : job[c].ask # "asked"
                         /\ current # NoOne => current \in marked

\* The connection the peer has accepted is the one the initiator reports and will
\* close, provided none was opened after its opener had given it up (GiveUp).
Reported ==
    (\A k \in late : ~ Held(k) /\ conn[k] # "closed")
        => \A k \in Conns : Held(k) <=> current = k

\* When start returns or throws, the service is started or will never be, and when
\* shutdown returns (Peer::shutdown), it is stopped; the exception is a shutdown
\* during the start, which throws before the internal connection is open.
Done(c, places) == job[c].at \in places /\ job'[c].at = "idle"
Truthful ==
    [][\A c \in Clients :
          /\ Done(c, {"start", "starting", "accepting"}) =>
                state = "started" \/ daemon' \in {"exiting", "exited"} \/ state' \in {"stopping", "stopped"}
          /\ Done(c, {"shutdown", "stopping"}) /\ (internal \/ ~ isStarted) =>
                state' = "stopped"]_vars

\* The service that no longer takes requests and does not stop either, see ShutdownThrows.
Zombie == state = "stopping" /\ ~ internal

\* Every call returns, and a daemon that is to exit does so, although a client holds
\* the monitor while it waits for the service thread, which needs the monitor.
Returns == /\ \A c \in Clients : ~ At(c, "idle") ~> At(c, "idle") \/ Zombie
           /\ daemon = "exiting" ~> daemon = "exited"
=============================================================================
