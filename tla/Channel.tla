------------------------------- MODULE Channel -------------------------------
(***************************************************************************)
(* The requests of client threads over one PofChannel of one PofConnection *)
(* of an Extend client, and how channel and connection close under them.   *)
(*                                                                         *)
(* A client registers its request, passes the connection's and the         *)
(* channel's thread gate, sends, leaves both gates and waits for the       *)
(* response.  The service thread takes messages from the Peer's queue:     *)
(* responses, unsolicited messages (events) and the requests to close the  *)
(* channel or the connection.  The service never waits for a thread that   *)
(* is inside: it leaves a mark (closeOnExit), and the last thread to leave *)
(* asks for the close again.                                               *)
(*                                                                         *)
(* A program counter is a place and a step; the places "chan" and "conn"   *)
(* are the gate and the closeInternal of the channel and the connection.   *)
(* The gates are used with timeout 0, so that an operation of the gate is  *)
(* one step here (ThreadGate.tla shows what one does).  open[x] changes    *)
(* only while gate x is exclusive, so entering a gate and assertOpen are   *)
(* one step, as are registering a request under the request gate and the   *)
(* array's monitor.                                                        *)
(*                                                                         *)
(* Each client thread makes one request, which goes by the thread's name.  *)
(* Left out: Channel0 and the peer's local connection, which carry the     *)
(* requests to close (delivery of those to the queue is one step).         *)
(***************************************************************************)
EXTENDS Naturals, Sequences, FiniteSets

CONSTANTS Clients, Service, None,
          MaxCalls,   \* bound on calls of close and on unsolicited messages
          Usage       \* what callers, peer and network may do, see below

(***************************************************************************)
(* "giveup"  a waiting client may time out or be interrupted               *)
(* "cause"   a call of close may carry an exception                        *)
(* "decode"  decoding a message may fail                                   *)
(* "encode"  encoding a request may fail                                   *)
(* "socket"  writing to the socket may fail                                *)
(* "event"   the peer sends unsolicited messages, whose execution may fail *)
(***************************************************************************)
ASSUME ChannelConstants ==
    /\ Service \notin Clients /\ None \notin Clients \cup {Service}
    /\ IsFiniteSet(Clients)
    /\ MaxCalls \in Nat
    /\ Usage \subseteq {"giveup", "cause", "decode", "encode", "socket", "event"}

VARIABLES open,        \* m_fOpen of the channel and of the connection
          closeOnExit, \* m_fCloseOnExit of both
          exc,         \* whether their close exception is set
          inside,      \* the threads inside each thread gate
          owner,       \* the thread that holds each gate closed
          mapped,      \* the channel is in the connection's f_hlaChannel
          table,       \* f_hlaRequest: the registered requests
          gateClosed,  \* f_hGateRequest is closed (by the service thread)
          status,      \* the Status of each request
          sent,        \* requests at the peer, not answered yet
          queue,       \* the Peer's message queue
          calls,       \* how many external calls were made
          place, step, \* what each thread executes
          full,        \* whether a thread's gateEnter got past the channel
          svc          \* locals of the service thread

flags == <<open, closeOnExit, exc>>
gates == <<inside, owner>>
reqs  == <<table, gateClosed, status>>
net   == <<sent, queue, calls>>
pc    == <<place, step>>
ctl   == <<full, svc>>
vars  == <<flags, gates, mapped, reqs, net, pc, ctl>>

Threads  == Clients \cup {Service}
Places   == {"chan", "conn"}
Outcomes == {"response", "failure", "closed", "unsent", "gaveup"}
Closing  == {"begin", "next", "cancel", "try", "mark", "retry", "shut"}
Passing  == {"check", "enter", "exit", "last", "held"}
Calling  == {"idle", "inside", "complete", "notify", "cancel", "unregister",
             "wait", "done"}

Tasks  == [req : Clients \cup {None}, cause : BOOLEAN, event : BOOLEAN,
           nested : BOOLEAN, more : BOOLEAN, exposed : BOOLEAN, fatal : BOOLEAN]
NoTask == [req |-> None, cause |-> FALSE, event |-> FALSE,
           nested |-> FALSE, more |-> FALSE, exposed |-> FALSE, fatal |-> FALSE]

Response(c)     == [type |-> "response", req |-> c, cause |-> FALSE]
Unsolicited     == [type |-> "event", req |-> None, cause |-> FALSE]
CloseOf(x, f)   == [type |-> x, req |-> None, cause |-> f]
Messages == [type : {"response", "event"} \cup Places,
             req : Clients \cup {None}, cause : BOOLEAN]

At(t, p, s) == place[t] = p /\ step[t] = s

GatesOK ==
    /\ open \in [Places -> BOOLEAN] /\ closeOnExit \in [Places -> BOOLEAN]
    /\ exc \in [Places -> BOOLEAN]
    /\ inside \in [Places -> SUBSET Threads]
    /\ owner \in [Places -> Threads \cup {None}] /\ mapped \in BOOLEAN

RequestsOK ==
    /\ table \subseteq Clients /\ gateClosed \in BOOLEAN
    /\ status \in [Clients -> {"none", "pending"} \cup Outcomes]
    /\ sent \subseteq Clients /\ queue \in Seq(Messages) /\ calls \in Nat

ControlOK ==
    /\ place \in [Threads -> Places \cup {"call"}]
    /\ step \in [Threads -> Closing \cup Passing \cup Calling]
    /\ full \in [Threads -> BOOLEAN] /\ svc \in Tasks
    /\ At(Service, "chan", "cancel") \/ At(Service, "call", "complete") => svc.req \in Clients

\* Type correctness; when the service thread is about to complete or to cancel
\* a request there is one (the iterator of closeInternal gave it one).
TypeOK == GatesOK /\ RequestsOK /\ ControlOK

Init ==
    /\ open = [x \in Places |-> TRUE]
    /\ closeOnExit = [x \in Places |-> FALSE] /\ exc = [x \in Places |-> FALSE]
    /\ inside = [x \in Places |-> {}] /\ owner = [x \in Places |-> None]
    /\ mapped = TRUE /\ table = {} /\ gateClosed = FALSE
    /\ status = [c \in Clients |-> "none"]
    /\ sent = {} /\ queue = <<>> /\ calls = 0
    /\ place = [t \in Threads |-> "call"] /\ step = [t \in Threads |-> "idle"]
    /\ full = [t \in Threads |-> FALSE]
    /\ svc = NoTask

Goto(t, p, s) == place' = [place EXCEPT ![t] = p] /\ step' = [step EXCEPT ![t] = s]
Set(f, x)     == [f EXCEPT ![x] = TRUE]

\* Status::cancel and setResponse: the first to complete a request wins.
Settle(c, outcome) ==
    status' = [status EXCEPT ![c] = IF @ = "pending" THEN outcome ELSE @]

\* ThreadGate::close(0) and enter(0).
CanClose(x) == inside[x] = {} /\ owner[x] = None
CanEnter(x) == owner[x] = None

\* A thread's call is over.  A client whose post threw is done; receive of the
\* service thread lets a fatal exception out, which ends the daemon.
Ends(t, s) ==
    /\ Goto(t, "call", s)
    /\ full' = [full EXCEPT ![t] = FALSE]
    /\ svc' = IF t = Service THEN NoTask ELSE svc

Finishes(t) ==
    Ends(t, IF t = Service THEN (IF svc.fatal THEN "done" ELSE "idle")
            ELSE (IF full[t] THEN "wait" ELSE "done"))

-----------------------------------------------------------------------------
(* A client's request *)

\* Fault: a request is registered without entering the request gate.
RegisterUngated(c) ==
    /\ At(c, "call", "idle") /\ open["chan"]
    /\ table' = table \cup {c}
    /\ status' = [status EXCEPT ![c] = "pending"]
    /\ full' = Set(full, c)
    /\ Goto(c, "conn", "check")
    /\ UNCHANGED <<flags, gates, mapped, gateClosed, net, svc>>

Register(c) ==
    /\ At(c, "call", "idle") /\ ~gateClosed
    /\ IF open["chan"]
          THEN /\ table' = table \cup {c}
               /\ status' = [status EXCEPT ![c] = "pending"]
               /\ full' = Set(full, c)
               /\ Goto(c, "conn", "check")
          ELSE Goto(c, "call", "done") /\ UNCHANGED <<table, status, full>>
    /\ UNCHANGED <<flags, gates, mapped, gateClosed, net, svc>>

\* Peer::send.  An exception marks what must be closed when the thread leaves,
\* and PofChannel::post cancels the request.
Send(c) ==
    /\ At(c, "call", "inside")
    /\ \/ /\ sent' = sent \cup {c}
          /\ Goto(c, "chan", "exit")
          /\ UNCHANGED <<closeOnExit, exc>>
       \/ \E x \in (IF "encode" \in Usage THEN {"chan"} ELSE {}) \cup
                   (IF "socket" \in Usage THEN {"conn"} ELSE {}) :
             /\ closeOnExit' = Set(closeOnExit, x) /\ exc' = Set(exc, x)
             /\ Goto(c, "call", "cancel")
             /\ UNCHANGED sent
    /\ UNCHANGED <<open, gates, mapped, reqs, queue, calls, ctl>>

CancelUnsent(c) ==
    /\ At(c, "call", "cancel")
    /\ Settle(c, "unsent")
    /\ IF status[c] = "pending" THEN Goto(c, "call", "unregister")
                                ELSE Goto(c, "chan", "exit")
    /\ UNCHANGED <<flags, gates, mapped, table, gateClosed, net, ctl>>

\* onRequestCompleted, called once the Status has been completed.
Unregister(t) ==
    /\ At(t, "call", "unregister")
    /\ table' = table \ {IF t = Service THEN svc.req ELSE t}
    /\ IF t \in inside["chan"] THEN Goto(t, "chan", "exit") ELSE Goto(t, "call", "done")
    /\ UNCHANGED <<flags, gates, mapped, gateClosed, status, net, ctl>>

\* waitForResponse returns once the Status is completed, or completes it itself.
WaitEnds(c) ==
    /\ At(c, "call", "wait") /\ status[c] # "pending"
    /\ Goto(c, "call", "done")
    /\ UNCHANGED <<flags, gates, mapped, reqs, net, ctl>>

GiveUp(c) ==
    /\ "giveup" \in Usage
    /\ At(c, "call", "wait") /\ status[c] = "pending"
    /\ Settle(c, "gaveup")
    /\ Goto(c, "call", "unregister")
    /\ UNCHANGED <<flags, gates, mapped, table, gateClosed, net, ctl>>

-----------------------------------------------------------------------------
(* Passing the gates: gateEnter and gateExit of connection and channel *)

\* gateEnter throws: past the connection's gate, that gate is left again.  What
\* leaving it throws on the service thread, receive does not catch.
Refused(t, x) ==
    IF x = "chan" THEN /\ full' = [full EXCEPT ![t] = FALSE]
                       /\ svc' = IF t = Service THEN [svc EXCEPT !.exposed = TRUE] ELSE svc
                       /\ Goto(t, "conn", "exit")
    ELSE IF t = Service THEN Finishes(t) ELSE Ends(t, "done")

Check(t, x) ==
    /\ At(t, x, "check")
    /\ IF closeOnExit[x] THEN Refused(t, x) ELSE Goto(t, x, "enter") /\ UNCHANGED ctl
    /\ UNCHANGED <<flags, gates, mapped, reqs, net>>

\* Fault: no assertOpen after the gate was entered.
EnterUnasserted(t, x) ==
    /\ At(t, x, "enter")
    /\ IF CanEnter(x)
          THEN /\ inside' = [inside EXCEPT ![x] = @ \cup {t}]
               /\ IF x = "chan" THEN Goto(t, "call", "inside")
                  ELSE IF full[t] THEN Goto(t, "chan", "check") ELSE Goto(t, "call", "notify")
               /\ UNCHANGED ctl
          ELSE Refused(t, x) /\ UNCHANGED inside
    /\ UNCHANGED <<flags, owner, mapped, reqs, net>>

Enter(t, x) ==
    /\ At(t, x, "enter")
    /\ IF CanEnter(x) /\ open[x]
          THEN /\ inside' = [inside EXCEPT ![x] = @ \cup {t}]
               /\ IF x = "chan" THEN Goto(t, "call", "inside")
                  ELSE IF full[t] THEN Goto(t, "chan", "check") ELSE Goto(t, "call", "notify")
               /\ UNCHANGED ctl
          ELSE Refused(t, x) /\ UNCHANGED inside
    /\ UNCHANGED <<flags, owner, mapped, reqs, net>>

\* PofChannel::gateExit leaves both gates and then looks at the channel's mark;
\* PofConnection::gateExit looks at the connection's mark in between.
AfterGate(t, x) ==
    IF x = "conn" /\ full[t] THEN Goto(t, "chan", "last") /\ UNCHANGED ctl
                             ELSE Finishes(t)

Exit(t, x) ==
    /\ At(t, x, "exit")
    /\ inside' = [inside EXCEPT ![x] = @ \ {t}]
    /\ IF x = "chan" THEN Goto(t, "conn", "exit") ELSE Goto(t, "conn", "last")
    /\ UNCHANGED <<flags, owner, mapped, reqs, net, ctl>>

\* Fault: gateExit does not look at the mark.
LastBlind(t, x) ==
    /\ At(t, x, "last") /\ AfterGate(t, x)
    /\ UNCHANGED <<flags, gates, mapped, reqs, net>>

Last(t, x) ==
    /\ At(t, x, "last")
    /\ IF closeOnExit[x] /\ CanClose(x)
          THEN owner' = [owner EXCEPT ![x] = t] /\ Goto(t, x, "held") /\ UNCHANGED ctl
          ELSE AfterGate(t, x) /\ UNCHANGED owner
    /\ UNCHANGED <<flags, inside, mapped, reqs, net>>

\* The gate is reopened and close called: at once on the service thread,
\* through the queue by any other.
Held(t, x) ==
    /\ At(t, x, "held")
    /\ owner' = [owner EXCEPT ![x] = None]
    /\ \/ /\ ~open[x]
          /\ AfterGate(t, x) /\ UNCHANGED queue
       \/ /\ open[x] /\ t = Service
          /\ svc' = [svc EXCEPT !.cause = exc[x], !.nested = FALSE]
          /\ Goto(t, x, "begin") /\ UNCHANGED <<queue, full>>
       \/ /\ open[x] /\ t # Service
          /\ queue' = Append(queue, CloseOf(x, exc[x]))
          /\ AfterGate(t, x)
    /\ UNCHANGED <<flags, inside, mapped, reqs, sent, calls>>

-----------------------------------------------------------------------------
(* The service thread: Peer::onNotify and PofChannel::receive *)

Dispatch ==
    /\ At(Service, "call", "idle") /\ queue # <<>>
    /\ queue' = Tail(queue)
    /\ LET m == Head(queue) IN
       \/ /\ m.type \in Places
          /\ svc' = [svc EXCEPT !.cause = m.cause]
          /\ Goto(Service, m.type, "begin") /\ UNCHANGED full
       \/ /\ m.type \notin Places /\ ~(mapped /\ open["chan"] /\ open["conn"])
          /\ UNCHANGED <<pc, ctl>>
       \/ /\ m.type \notin Places /\ mapped /\ open["chan"] /\ open["conn"]
          /\ svc' = [svc EXCEPT !.req = m.req, !.event = (m.type = "event")]
          /\ full' = Set(full, Service)
          /\ Goto(Service, "conn", "check")
       \/ \E x \in Places :      \* onMessageDecodeException
             /\ m.type \notin Places /\ "decode" \in Usage
             /\ open[x] /\ (x = "chan" => mapped)
             /\ svc' = [svc EXCEPT !.cause = TRUE, !.exposed = TRUE]
             /\ Goto(Service, x, "begin") /\ UNCHANGED full
    /\ UNCHANGED <<flags, gates, mapped, reqs, sent, calls>>

\* A response to a request that is no longer registered is ignored.
ReceiveResponse ==
    /\ At(Service, "call", "inside") /\ ~svc.event
    /\ IF svc.req \in table THEN Goto(Service, "call", "complete")
                            ELSE Goto(Service, "chan", "exit")
    /\ UNCHANGED <<flags, gates, mapped, reqs, net, ctl>>

\* Executing an unsolicited message may throw; setCloseException throws too,
\* out of receive, if the channel has a close exception already.
ReceiveEvent ==
    /\ At(Service, "call", "inside") /\ svc.event
    /\ \/ UNCHANGED <<closeOnExit, exc, svc>>
       \/ /\ closeOnExit' = Set(closeOnExit, "chan") /\ exc' = Set(exc, "chan")
          /\ svc' = [svc EXCEPT !.fatal = exc["chan"]]
    /\ Goto(Service, "chan", "exit")
    /\ UNCHANGED <<open, gates, mapped, reqs, net, full>>

\* Fault: the outcome is stored without looking whether the request was completed.
CompleteUnchecked ==
    /\ At(Service, "call", "complete")
    /\ \E outcome \in {"response", "failure"} : status' = [status EXCEPT ![svc.req] = outcome]
    /\ Goto(Service, "call", "unregister")
    /\ UNCHANGED <<flags, gates, mapped, table, gateClosed, net, ctl>>

Complete ==
    /\ At(Service, "call", "complete")
    /\ \E outcome \in {"response", "failure"} : Settle(svc.req, outcome)
    /\ IF status[svc.req] = "pending" THEN Goto(Service, "call", "unregister")
                                      ELSE Goto(Service, "chan", "exit")
    /\ UNCHANGED <<flags, gates, mapped, table, gateClosed, net, ctl>>

-----------------------------------------------------------------------------
(* closeInternal of the channel and of the connection, on the service thread *)

\* closeInternal returns or throws to its caller; f_hGateRequest is reopened.
ChannelReturns ==
    IF svc.nested THEN Goto(Service, "conn", "try") /\ UNCHANGED ctl ELSE Finishes(Service)

\* An exception ends the closeInternal of the connection, too.  A request to
\* close and gateExit at the end of receive or send swallow it; any other caller
\* lets it out of onNotify, and the daemon terminates.
Throws == Ends(Service, IF svc.exposed \/ svc.fatal THEN "done" ELSE "idle")

BeginChannel ==
    /\ At(Service, "chan", "begin")
    /\ IF open["chan"]
          THEN /\ gateClosed' = TRUE
               /\ svc' = [svc EXCEPT !.more = (table # {})]
               /\ Goto(Service, "chan", "next") /\ UNCHANGED full
          ELSE ChannelReturns /\ UNCHANGED gateClosed
    /\ UNCHANGED <<flags, gates, mapped, table, status, net>>

\* Fault: next hands out a null element instead of throwing.
CancelNextNull ==
    /\ At(Service, "chan", "next")
    /\ \/ /\ ~svc.more
          /\ Goto(Service, "chan", "try") /\ UNCHANGED <<table, ctl>>
       \/ \E r \in (IF table = {} THEN {None} ELSE table) :
             /\ svc.more
             /\ table' = table \ {r}
             /\ svc' = [svc EXCEPT !.req = r, !.more = (table \notin {{}, {r}})]
             /\ Goto(Service, "chan", "cancel") /\ UNCHANGED full
    /\ UNCHANGED <<flags, gates, mapped, gateClosed, status, net>>

\* HashIterator::next has looked for its next element in the previous call,
\* and throws NoSuchElementException if none is left now.
CancelNext ==
    /\ At(Service, "chan", "next")
    /\ \/ /\ ~svc.more
          /\ Goto(Service, "chan", "try") /\ UNCHANGED <<table, gateClosed, ctl>>
       \/ /\ svc.more /\ table = {}
          /\ gateClosed' = FALSE /\ Throws /\ UNCHANGED table
       \/ \E r \in table :
             /\ svc.more
             /\ table' = table \ {r}
             /\ svc' = [svc EXCEPT !.req = r, !.more = (table # {r})]
             /\ Goto(Service, "chan", "cancel") /\ UNCHANGED <<gateClosed, full>>
    /\ UNCHANGED <<flags, gates, mapped, status, net>>

CancelPending ==
    /\ At(Service, "chan", "cancel")
    /\ Settle(svc.req, "closed")
    /\ Goto(Service, "chan", "next")
    /\ UNCHANGED <<flags, gates, mapped, table, gateClosed, net, ctl>>

BeginConnection ==
    /\ At(Service, "conn", "begin")
    /\ IF open["conn"]
          THEN /\ mapped' = FALSE
               /\ svc' = [svc EXCEPT !.nested = mapped]
               /\ IF mapped THEN Goto(Service, "chan", "begin") ELSE Goto(Service, "conn", "try")
               /\ UNCHANGED full
          ELSE AfterGate(Service, "conn") /\ UNCHANGED mapped
    /\ UNCHANGED <<flags, gates, reqs, net>>

Try(x) ==
    /\ At(Service, x, "try")
    /\ IF CanClose(x)
          THEN owner' = [owner EXCEPT ![x] = Service] /\ Goto(Service, x, "shut")
          ELSE Goto(Service, x, "mark") /\ UNCHANGED owner
    /\ UNCHANGED <<flags, inside, mapped, reqs, net, ctl>>

\* The channel's close exception is a FinalHolder: setting it twice throws.
Mark(x) ==
    /\ At(Service, x, "mark")
    /\ closeOnExit' = Set(closeOnExit, x)
    /\ IF x = "chan" /\ exc[x]
          THEN gateClosed' = FALSE /\ Throws /\ UNCHANGED exc
          ELSE /\ exc' = [exc EXCEPT ![x] = svc.cause]
               /\ Goto(Service, x, "retry") /\ UNCHANGED <<gateClosed, ctl>>
    /\ UNCHANGED <<open, gates, mapped, table, status, net>>

\* Fault: no double check once the mark is set.
RetryNever(x) ==
    /\ At(Service, x, "retry")
    /\ IF x = "chan" THEN gateClosed' = FALSE /\ ChannelReturns
                     ELSE AfterGate(Service, x) /\ UNCHANGED gateClosed
    /\ UNCHANGED <<flags, gates, mapped, table, status, net>>

Retry(x) ==
    /\ At(Service, x, "retry")
    /\ IF CanClose(x)
          THEN /\ owner' = [owner EXCEPT ![x] = Service]
               /\ Goto(Service, x, "shut") /\ UNCHANGED <<gateClosed, ctl>>
          ELSE /\ IF x = "chan" THEN gateClosed' = FALSE /\ ChannelReturns
                                ELSE AfterGate(Service, x) /\ UNCHANGED gateClosed
               /\ UNCHANGED owner
    /\ UNCHANGED <<flags, inside, mapped, table, status, net>>

\* The channel is closed and unregistered from the connection; unless the
\* connection closes it, the peer may be notified through Channel0, which
\* passes the gate of the connection.
ShutChannel ==
    /\ At(Service, "chan", "shut")
    /\ open' = [open EXCEPT !["chan"] = FALSE]
    /\ owner' = [owner EXCEPT !["chan"] = None]
    /\ gateClosed' = FALSE /\ mapped' = FALSE
    /\ \/ ChannelReturns
       \/ /\ ~svc.nested
          /\ full' = [full EXCEPT ![Service] = FALSE]
          /\ svc' = [svc EXCEPT !.exposed = FALSE]
          /\ Goto(Service, "conn", "check")
    /\ UNCHANGED <<closeOnExit, exc, inside, table, status, net>>

ShutConnection ==
    /\ At(Service, "conn", "shut")
    /\ open' = [open EXCEPT !["conn"] = FALSE]
    /\ owner' = [owner EXCEPT !["conn"] = None]
    /\ AfterGate(Service, "conn")
    /\ UNCHANGED <<closeOnExit, exc, inside, mapped, reqs, net>>

\* Sending NotifyChannelClosed; its exception is swallowed, its mark stays.
Notify ==
    /\ At(Service, "call", "notify")
    /\ \/ UNCHANGED <<closeOnExit, exc>>
       \/ /\ "socket" \in Usage
          /\ closeOnExit' = Set(closeOnExit, "conn") /\ exc' = Set(exc, "conn")
    /\ Goto(Service, "conn", "exit")
    /\ UNCHANGED <<open, gates, mapped, reqs, net, ctl>>

-----------------------------------------------------------------------------
(* The peer and other callers *)

Answer(c) ==
    /\ c \in sent /\ open["conn"]
    /\ sent' = sent \ {c}
    /\ queue' = Append(queue, Response(c))
    /\ UNCHANGED <<flags, gates, mapped, reqs, calls, pc, ctl>>

SendEvent ==
    /\ "event" \in Usage /\ calls < MaxCalls /\ open["conn"]
    /\ calls' = calls + 1 /\ queue' = Append(queue, Unsolicited)
    /\ UNCHANGED <<flags, gates, mapped, reqs, sent, pc, ctl>>

\* close of the channel or the connection by a thread of its own.
CallClose(x, f) ==
    /\ calls < MaxCalls /\ open[x] /\ (f => "cause" \in Usage)
    /\ calls' = calls + 1 /\ queue' = Append(queue, CloseOf(x, f))
    /\ UNCHANGED <<flags, gates, mapped, reqs, sent, pc, ctl>>

-----------------------------------------------------------------------------
Pass(t) == \E x \in Places :
    Check(t, x) \/ Enter(t, x) \/ Exit(t, x) \/ Last(t, x) \/ Held(t, x)

ClientStep(c) == Send(c) \/ CancelUnsent(c) \/ WaitEnds(c) \/ Unregister(c) \/ Pass(c)

ServiceStep ==
    \/ Dispatch \/ ReceiveResponse \/ ReceiveEvent \/ Complete \/ Unregister(Service)
    \/ BeginChannel \/ CancelNext \/ CancelPending \/ BeginConnection
    \/ \E x \in Places : Try(x) \/ Mark(x) \/ Retry(x)
    \/ ShutChannel \/ ShutConnection \/ Notify \/ Pass(Service)

Environment ==
    \/ \E c \in Clients : Register(c) \/ GiveUp(c) \/ Answer(c)
    \/ SendEvent
    \/ \E x \in Places, f \in BOOLEAN : CallClose(x, f)

Next == ServiceStep \/ (\E c \in Clients : ClientStep(c)) \/ Environment

Spec == Init /\ [][Next]_vars

\* The threads run: nothing else is assumed, not even that the peer answers.
FairSpec == Spec /\ WF_vars(ServiceStep) /\ \A c \in Clients : WF_vars(ClientStep(c))

-----------------------------------------------------------------------------
\* Nobody is inside a channel or a connection that is closed: closeInternal never
\* closes it under a thread that checked assertOpen and is sending.
NoneInsideClosed == \A x \in Places : ~open[x] => inside[x] = {}

\* Once a channel is closed none of its requests is pending or registered:
\* closeInternal has cancelled every request that was registered before, also
\* those whose post was refused, and none slips in behind it.
ClosedMeansSettled ==
    ~open["chan"] => table = {} /\ \A c \in Clients : status[c] # "pending"

\* No step changes the outcome of a completed request.
OutcomesKept == \A c \in Clients : status[c] \in Outcomes => status'[c] = status[c]

\* A request is completed once: by its response, its cancellation, its timeout or
\* the close of the channel, whichever comes first.
OutcomeIsFinal == [][OutcomesKept]_vars

(***************************************************************************)
(* The parts of the inductive invariant behind these properties.           *)
(***************************************************************************)

\* Who holds a gate closed, and that nobody is inside meanwhile.
GateHeld ==
    \A x \in Places :
        /\ owner[x] # None => inside[x] = {}
        /\ \A t \in Threads : At(t, x, "held") => owner[x] = t
        /\ At(Service, x, "shut") => owner[x] = Service

Cancels == place[Service] = "chan" /\ step[Service] \in {"next", "cancel"}
Shuts   == place[Service] = "chan" /\ step[Service] \in {"try", "mark", "retry", "shut"}

\* The request gate is closed while closeInternal cancels the requests, so that
\* the array only shrinks, and is empty when it goes on to the thread gate.
RequestsHeld ==
    /\ Cancels \/ Shuts => gateClosed /\ open["chan"]
    /\ Cancels => svc.more \/ table = {}
    /\ Shuts => table = {}

\* A pending request can be found: it is registered, or is the one that
\* closeInternal has just taken out and is about to cancel.
PendingFound ==
    \A c \in Clients :
        /\ status[c] = "pending" =>
              c \in table \/ (At(Service, "chan", "cancel") /\ svc.req = c)
        /\ At(c, "call", "idle") => status[c] = "none"
        /\ At(c, "call", "unregister") => status[c] \in Outcomes
        /\ At(Service, "call", "unregister") /\ svc.req = c => status[c] \in Outcomes

ChannelInv ==
    /\ TypeOK /\ GateHeld /\ RequestsHeld /\ PendingFound
    /\ NoneInsideClosed /\ ClosedMeansSettled

\* The threads that still have to look at the mark of x when they leave.
Leaving(x) ==
    inside[x] \cup {t \in Threads : place[t] = x /\ step[t] \in {"last", "held"}} \cup
    {t \in Threads : x = "chan" /\ full[t] /\ place[t] = "conn" /\ step[t] \in {"exit", "last", "held"}}

CloseUnderWay(x) ==
    \/ \E i \in 1..Len(queue) : queue[i].type = x
    \/ place[Service] = x /\ step[Service] \in Closing
    \/ place[Service] \in Places /\ step[Service] \in Closing /\ (svc.nested \/ full[Service])

\* A marked channel or connection is not forgotten: as long as it is open a
\* thread is still to look at the mark, or a close is under way.  This is what
\* the second gateClose(0) of closeInternal is for.
MarkIsHonoured ==
    \A x \in Places : closeOnExit[x] /\ open[x] => Leaving(x) # {} \/ CloseUnderWay(x)

\* A close that has been asked for takes effect, unless the service terminates.
CloseTakesEffect ==
    \A x \in Places :
        (\E i \in 1..Len(queue) : queue[i].type = x)
            ~> (~open[x] \/ At(Service, "call", "done"))
=============================================================================
