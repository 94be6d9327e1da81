--------------------------- MODULE InitiatorProofs ---------------------------
(***************************************************************************)
(* Theorems about Initiator, for any number of clients, connections,       *)
(* addresses and calls, and every usage.                                   *)
(***************************************************************************)
EXTENDS Initiator, SequenceTheorems, TLAPS

(***************************************************************************)
(* The parts of the inductive invariant, in layers of which each rests on  *)
(* the one before: Sound is the types with Holds and Lives, Settled adds   *)
(* Fresh and Current, Whole adds Fate.                                     *)
(***************************************************************************)
\* A message about a connection names one, and so does a call that waits for one; it
\* still has the address it tries.
Linked == {"open", "close", "accept", "refuse", "answered", "failed"}
Posted == {m \in Messages : m.kind \in Linked => m.conn \in Conns}
Waiting == {"opening", "connecting", "closing"}

Addressed ==
    /\ queue \in Seq(Posted)
    /\ svc.msg \in Posted
    /\ \A c \in Clients : job[c].at \in Waiting => job[c].conn \in Conns /\ job[c].tries >= 1
    /\ \A c \in Clients : job[c].ask = "asked" => job[c].at \in {"opening", "closing"}

\* Who holds the two monitors is known from what the threads do, and nobody begins to
\* stop a daemon that is exiting.
Holds ==
    /\ \A c \in Clients : monitor = c <=> job[c].at \in Waiting \cup {"connect"}
    /\ monitor = Service <=> svc.at \in {"exit", "closing"}
    /\ \A c \in Clients : exitMonitor = c <=> job[c].at = "mark"
    /\ exitMonitor = Service <=> svc.at = "mark"
    /\ exitMonitor # NoOne => daemon # "exiting"

\* How far the thread is and what the states are.
Lives ==
    /\ daemon = "initial" <=> svc.at = "none"
    /\ daemon = "exited" <=> svc.at = "dead"
    /\ svc.at \in {"settle", "finally", "exit", "closing"} => daemon = "exiting"
    /\ \A c \in Clients : job[c].at \in {"stop", "mark", "starting", "accepting"} => daemon # "initial"
    /\ accepting => state \in {"started", "stopping"}
    /\ svc.at \in {"closing", "dead"} => state = "stopped"
    /\ state = "stopped" => \/ daemon \in {"initial", "exiting", "exited"}
                            \/ svc.at \in {"enter", "starting", "throw", "stop", "mark"}
    /\ svc.at = "handle" => state # "stopped" /\ internal
    /\ svc.at = "dead" => ~ internal /\ monitor = NoOne
    /\ failed => state = "stopped"

\* A request to open is executed once, for a connection nobody knows yet.
Fresh ==
    /\ \A i \in DOMAIN queue : queue[i].kind = "open" => conn[queue[i].conn] = "asked"
    /\ \A i, j \in DOMAIN queue :
          queue[i].kind = "open" /\ queue[j].kind = "open" /\ queue[i].conn = queue[j].conn => i = j
    /\ Handles("open") => /\ conn[svc.msg.conn] = "asked"
                          /\ ~ Queued("open", svc.msg.conn)

\* The connection that is reported is held, until the service has stopped.
Current ==
    /\ current # NoOne => Held(current)
    /\ state = "stopped" => current = NoOne \/ current \in marked

\* One of those that were given up before they were known to be open was accepted.
Spoiled == \E k \in late : Held(k) \/ conn[k] = "closed"
Live(k) == k \notin late /\ conn[k] \in {"sent", "held", "used"}
Owned(k) == \E c \in Clients : job[c].at \in {"opening", "connecting"} /\ job[c].conn = k

\* What has been said of a connection was said after it was asked for.
Past ==
    /\ \A i \in DOMAIN queue :
          /\ queue[i].kind \in Linked \ {"open"} => conn[queue[i].conn] \notin {"new", "asked"}
          /\ queue[i].kind = "accept" => conn[queue[i].conn] # "cut"
          /\ queue[i].kind = "failed" => conn[queue[i].conn] \in {"cut", "refused"}
    /\ \A k \in unanswered : conn[k] \notin {"new", "asked", "cut"}
    /\ \A k \in marked : conn[k] \notin {"new", "asked"}

\* Nothing is asked for before the internal connection is open.
Nascent ==
    svc.at \in {"none", "enter"} =>
        /\ ~ internal /\ \A k \in Conns : conn[k] = "new"
        /\ \A c \in Clients : job[c].at \notin Waiting

\* Only one connection is asked for at a time, unless a caller has given one up.
Opener ==
    \A k \in Conns : conn[k] = "asked" /\ k \notin late /\ internal =>
        \E c \in Clients : job[c].at = "opening" /\ job[c].conn = k /\ job[c].ask = "asked"

Refusal ==
    \A c \in Clients : job[c].at = "opening" /\ job[c].ask = "failed" =>
        ~ internal \/ conn[job[c].conn] \in {"cut", "refused"}

\* The close of a connection that was not accepted in time is on its way.
Abandoned ==
    \A k \in Conns : Live(k) /\ ~ Owned(k) /\ (conn[k] = "sent" \/ monitor \in Clients) /\ internal =>
        conn[k] # "used" /\ Queued("close", k)

\* ... and it comes before the next one is opened.
Turn ==
    /\ \A i \in DOMAIN queue : queue[i].kind = "open" /\ queue[i].conn \notin late /\ internal =>
          \A k \in Conns : Live(k) =>
              \E j \in DOMAIN queue : j < i /\ queue[j].kind = "close" /\ queue[j].conn = k
    /\ Handles("open") /\ svc.msg.conn \notin late => \A k \in Conns : ~ Live(k)

Single == \A k, l \in Conns : Live(k) /\ Live(l) => k = l

Fate == Past /\ Nascent /\ Opener /\ Refusal /\ (~ Spoiled => Abandoned /\ Turn /\ Single /\ Reported)

\* The states of the daemon and of the service, in the order in which they follow.
LEMMA StateOrder ==
    /\ ToSet(ServiceStates) = {"initial", "starting", "started", "stopping", "stopped"}
    /\ ToSet(DaemonStates) = {"initial", "starting", "running", "exiting", "exited"}
    /\ \A s \in ToSet(ServiceStates) : ~ Before(ServiceStates, "stopped", s)
    /\ \A s \in ToSet(ServiceStates) \ {"stopped"} : Before(ServiceStates, s, "stopped")
BY DEF ToSet, ServiceStates, DaemonStates, Before

(***************************************************************************)
(* The steps of a call and the messages.                                   *)
(***************************************************************************)
Jobs == [at : Places, conn : Conns \cup {NoOne}, tries : 0 .. Addresses,
         ask : {"none", "asked", "answered", "failed"}]
Others(c) == \A d \in Clients \ {c} : job'[d] = job[d]

LEMMA IdleJob == /\ Idle \in Jobs
                 /\ Idle.at = "idle" /\ Idle.conn = NoOne /\ Idle.tries = 0 /\ Idle.ask = "none"
BY InitiatorConstants DEF Idle, Jobs, Places

LEMMA GoesJob ==
    ASSUME TypeOK, NEW c \in Clients, NEW p \in Places, Goes(c, p)
    PROVE  /\ job' \in [Clients -> Jobs] /\ Others(c)
           /\ job'[c].at = p /\ job'[c].conn = job[c].conn /\ job'[c].tries = job[c].tries
           /\ job'[c].ask = job[c].ask
BY DEF TypeOK, Jobs, Goes, Others

LEMMA EndsJob ==
    ASSUME TypeOK, NEW c \in Clients, Ends(c)
    PROVE  job' \in [Clients -> Jobs] /\ Others(c) /\ job'[c] = Idle
BY IdleJob DEF TypeOK, Jobs, Ends, Others

LEMMA BeginJob ==
    ASSUME TypeOK, NEW c \in Clients, NEW p \in Places, Begin(c, p)
    PROVE  /\ job' \in [Clients -> Jobs] /\ Others(c)
           /\ job'[c].at = p /\ job'[c].conn = NoOne /\ job'[c].ask = "none"
           /\ job[c].at = "idle"
<1>1. [Idle EXCEPT !.at = p] \in Jobs
  BY IdleJob DEF Jobs
<1>2. /\ [Idle EXCEPT !.at = p].at = p /\ [Idle EXCEPT !.at = p].conn = NoOne
      /\ [Idle EXCEPT !.at = p].ask = "none"
  BY DEF Idle
<1> QED
  BY <1>1, <1>2 DEF TypeOK, Jobs, Begin, At, Others

LEMMA SearchJob ==
    ASSUME TypeOK, NEW c \in Clients, job' = [job EXCEPT ![c].at = "connect", ![c].tries = Addresses]
    PROVE  /\ job' \in [Clients -> Jobs] /\ Others(c)
           /\ job'[c].at = "connect" /\ job'[c].conn = job[c].conn /\ job'[c].ask = job[c].ask
<1>1. Addresses \in 0 .. Addresses /\ "connect" \in Places
  BY InitiatorConstants DEF Places
<1> DEFINE j == [job[c] EXCEPT !.at = "connect", !.tries = Addresses]
<1>2. job \in [Clients -> Jobs]
  BY DEF TypeOK, Jobs
<1>3. j \in Jobs /\ j.at = "connect" /\ j.conn = job[c].conn /\ j.ask = job[c].ask
  BY <1>1, <1>2 DEF Jobs
<1>4. job' = [job EXCEPT ![c] = j]
  BY <1>2
<1> HIDE DEF j
<1> QED
  BY <1>2, <1>3, <1>4 DEF Others

LEMMA NextAddressJob ==
    ASSUME TypeOK, NEW c \in Clients, job[c].tries >= 1, NextAddress(c)
    PROVE  /\ job' \in [Clients -> Jobs] /\ Others(c)
           /\ job'[c].at = "connect" /\ job'[c].conn = NoOne /\ job'[c].ask = "none"
<1>1. job[c].tries - 1 \in 0 .. Addresses
  BY InitiatorConstants DEF TypeOK
<1> DEFINE j == [Idle EXCEPT !.at = "connect", !.tries = job[c].tries - 1]
<1>2. j \in Jobs /\ j.at = "connect" /\ j.conn = NoOne /\ j.ask = "none"
  BY <1>1 DEF Idle, Jobs, Places
<1>3. job' = [job EXCEPT ![c] = j]
  BY DEF NextAddress
<1> QED
  BY <1>2, <1>3 DEF TypeOK, Jobs, Others

LEMMA AsksJob ==
    ASSUME TypeOK, NEW c \in Clients, NEW p \in Places, NEW k \in Conns, Asks(c, p, k)
    PROVE  /\ job' \in [Clients -> Jobs] /\ Others(c)
           /\ job'[c].at = p /\ job'[c].conn = k /\ job'[c].tries = job[c].tries
           /\ job'[c].ask = "asked"
<1> DEFINE j == [job[c] EXCEPT !.at = p, !.conn = k, !.ask = "asked"]
<1>1. job \in [Clients -> Jobs]
  BY DEF TypeOK, Jobs
<1>2. j \in Jobs /\ j.at = p /\ j.conn = k /\ j.tries = job[c].tries /\ j.ask = "asked"
  BY <1>1 DEF Jobs
<1>3. job' = [job EXCEPT ![c] = j]
  BY <1>1 DEF Asks
<1> HIDE DEF j
<1> QED
  BY <1>1, <1>2, <1>3 DEF Others

\* When the internal connection closes, those who wait for an answer get a failure.
LEMMA CancelledJob ==
    ASSUME TypeOK, job' = Cancelled
    PROVE  /\ job' \in [Clients -> Jobs]
           /\ \A c \in Clients : /\ job'[c].at = job[c].at /\ job'[c].conn = job[c].conn
                                 /\ job'[c].tries = job[c].tries
                                 /\ job'[c].ask = IF job[c].ask = "asked" THEN "failed" ELSE job[c].ask
<1>1. job \in [Clients -> Jobs]
  BY DEF TypeOK, Jobs
<1>2. ASSUME NEW c \in Clients
      PROVE  /\ job'[c] \in Jobs
             /\ job'[c].at = job[c].at /\ job'[c].conn = job[c].conn /\ job'[c].tries = job[c].tries
             /\ job'[c].ask = IF job[c].ask = "asked" THEN "failed" ELSE job[c].ask
  <2>1. job'[c] = IF job[c].ask = "asked" THEN [job[c] EXCEPT !.ask = "failed"] ELSE job[c]
    BY DEF Cancelled
  <2> QED
    BY <1>1, <2>1 DEF Jobs
<1>3. job' \in [Clients -> Jobs]
  BY <1>2 DEF Cancelled
<1> QED
  BY <1>2, <1>3

LEMMA PostedQueue ==
    ASSUME Addressed
    PROVE  /\ queue \in Seq(Messages)
           /\ \A m \in Posted : Append(queue, m) \in Seq(Posted)
           /\ queue # <<>> => Head(queue) \in Posted /\ Tail(queue) \in Seq(Posted)
<1>1. Posted \subseteq Messages
  BY DEF Posted
<1> QED
  BY <1>1, SeqMonotonic, AppendProperties, HeadTailProperties DEF Addressed

LEMMA PostedMessages ==
    /\ Nothing \in Posted
    /\ \A kind \in Kinds, k \in Conns, w \in Clients \cup {NoOne} : Message(kind, k, w) \in Posted
    /\ \A kind \in Kinds \ Linked : Message(kind, NoOne, NoOne) \in Posted
    /\ \A kind, k, w : /\ Message(kind, k, w).kind = kind /\ Message(kind, k, w).conn = k
                       /\ Message(kind, k, w).who = w
BY DEF Nothing, Message, Posted, Messages, Kinds, Linked

-----------------------------------------------------------------------------
(***************************************************************************)
(* Types.                                                                  *)
(***************************************************************************)
\* TypeOK and Addressed together, in the form in which steps establish them.
TypedJobs == /\ job \in [Clients -> Jobs]
             /\ \A c \in Clients : job[c].at \in Waiting => job[c].conn \in Conns /\ job[c].tries >= 1
             /\ \A c \in Clients : job[c].ask = "asked" => job[c].at \in {"opening", "closing"}
TypedLinks ==
    /\ conn \in [Conns -> {"new", "asked", "sent", "held", "used", "cut", "closed", "refused"}]
    /\ current \in Conns \cup {NoOne} /\ unanswered \subseteq Conns /\ marked \subseteq Conns
TypedService ==
    /\ svc.msg \in Posted
    /\ svc \in [at : {"none", "enter", "starting", "startup", "ready", "loop", "handle", "throw",
                      "stop", "mark", "settle", "finally", "exit", "closing", "dead"},
                msg : Messages]
TypedStates ==
    /\ daemon \in ToSet(DaemonStates) /\ state \in ToSet(ServiceStates)
    /\ accepting \in BOOLEAN /\ failed \in BOOLEAN /\ interrupted \in BOOLEAN /\ internal \in BOOLEAN
TypedRest ==
    /\ monitor \in Clients \cup {Service, NoOne} /\ exitMonitor \in Clients \cup {Service, NoOne}
    /\ asleep \subseteq Clients
    /\ late \subseteq Conns /\ calls \in 0 .. MaxCalls
Typed == TypedStates /\ TypedRest /\ TypedLinks /\ TypedJobs /\ TypedService /\ queue \in Seq(Posted)

LEMMA TypedIs == TypeOK /\ Addressed <=> Typed
<1>1. Posted \subseteq Messages
  BY DEF Posted
<1>2. queue \in Seq(Posted) => queue \in Seq(Messages)
  BY <1>1, SeqMonotonic
<1> QED
  BY <1>2 DEF TypeOK, Addressed, Typed, TypedStates, TypedRest, TypedLinks, TypedJobs, TypedService, Jobs

\* Every call begins with nothing in its hands.
LEMMA BeginTyped ==
    ASSUME Typed, NEW c \in Clients, Call(c)
    PROVE  Typed'
<1>1. TypeOK
  BY TypedIs
<1>2. PICK p \in Places : Begin(c, p) /\ p \notin Waiting
  BY DEF Call, CallStart, CallStop, CallShutdown, CallEnsure, Places, Waiting
<1>3. TypedJobs'
  BY <1>1, <1>2, BeginJob DEF Typed, TypedJobs, Others
<1>4. calls' \in 0 .. MaxCalls
  BY <1>2, InitiatorConstants DEF Begin, Typed, TypedRest
<1> QED
  BY <1>2, <1>3, <1>4 DEF Begin, Typed, TypedStates, TypedRest, TypedLinks, TypedService,
                          states, locks, links

LEMMA StatesTyped ==
    ASSUME Typed, NEW s \in {"starting", "started", "stopping", "stopped"}, SetServiceState(s)
    PROVE  /\ state' \in ToSet(ServiceStates) /\ accepting' \in BOOLEAN /\ asleep' \subseteq Clients
           /\ TypedLinks'
<1>1. ASSUME NEW k \in Conns, CloseInternal(k) PROVE TypedLinks'
  BY <1>1 DEF CloseInternal, Closed, Held, Typed, TypedLinks, links
<1>2. UNCHANGED links => TypedLinks'
  BY DEF Typed, TypedLinks, links
<1>3. OnServiceState(s) => TypedLinks'
  BY <1>1, <1>2 DEF OnServiceState, Typed, TypedLinks
<1>4. TypedLinks'
  BY <1>2, <1>3 DEF SetServiceState, links
<1>5. /\ state' \in ToSet(ServiceStates) /\ accepting' \in BOOLEAN /\ asleep' \subseteq Clients
  BY StateOrder DEF SetServiceState, Typed, TypedStates
<1> QED
  BY <1>4, <1>5

\* A step that lets a call go to another place, or end, keeps its other parts.
LEMMA MovesTyped ==
    ASSUME Typed, NEW c \in Clients, Ends(c) \/ \E p \in Places \ Waiting : Goes(c, p) /\ job[c].ask # "asked"
    PROVE  TypedJobs'
<1>1. TypeOK
  BY TypedIs
<1>2. CASE Ends(c)
  BY <1>1, <1>2, EndsJob, IdleJob DEF Typed, TypedJobs, Others, Waiting
<1>3. ASSUME NEW p \in Places \ Waiting, Goes(c, p), job[c].ask # "asked" PROVE TypedJobs'
  BY <1>1, <1>3, GoesJob DEF Typed, TypedJobs, Others
<1> QED
  BY <1>2, <1>3

LEMMA ClosesTyped ==
    ASSUME Typed, NEW k \in Conns, CloseInternal(k)
    PROVE  TypedLinks'
BY DEF CloseInternal, Closed, Held, Typed, TypedLinks, links

LEMMA PostsTyped ==
    ASSUME Typed, NEW m \in Posted, Post(m)
    PROVE  queue' \in Seq(Posted)
BY AppendProperties DEF Typed, Post

LEMMA ClientTyped ==
    ASSUME Typed, NEW c \in Clients, ClientStep(c) \/ GiveUp(c) \/ Timeout(c)
    PROVE  Typed'
<1>0. TypeOK /\ job[c] \in Jobs
  BY TypedIs DEF Typed, TypedJobs
<1>a. /\ {"start", "starting", "accepting", "settle", "stop", "mark", "shutdown", "stopping", "ensure",
          "connect", "idle"} \subseteq Places \ Waiting
      /\ {"opening", "connecting", "closing"} \subseteq Places
  BY DEF Places, Waiting
<1>b. job[c].at \notin {"opening", "closing"} => job[c].ask # "asked"
  BY DEF Typed, TypedJobs
<1>1. CASE Start(c)
  <2>1. TypedJobs'
    BY <1>1, <1>a, <1>b, MovesTyped DEF Start, StartLoop, At
  <2>2. TypedStates' /\ TypedService'
    BY <1>1, StateOrder DEF Start, Typed, TypedStates, TypedService
  <2> QED
    BY <1>1, <2>1, <2>2 DEF Start, Typed, TypedRest, TypedLinks, locks, links, rest
<1>2. CASE AwaitThread(c) \/ AwaitAccepting(c)
  <2>1. TypedJobs'
    BY <1>2, <1>a, <1>b, MovesTyped DEF AwaitThread, AwaitAccepting, StartLoop, At
  <2>2. TypedStates'
    BY <1>2 DEF AwaitThread, AwaitAccepting, Typed, TypedStates, states
  <2> QED
    BY <1>2, <2>1, <2>2 DEF AwaitThread, AwaitAccepting, Typed, TypedRest, TypedLinks, TypedService, locks, links, rest
<1>3. CASE Settle(c)
  <2>1. TypedJobs'
    BY <1>3, <1>a, <1>b, MovesTyped DEF Settle, At
  <2>2. state' \in ToSet(ServiceStates) /\ accepting' \in BOOLEAN /\ asleep' \subseteq Clients /\ TypedLinks'
    BY <1>3, StatesTyped DEF Settle, Typed, TypedStates, TypedRest, TypedLinks, links
  <2> QED
    BY <1>3, <2>1, <2>2 DEF Settle, Typed, TypedStates, TypedRest, TypedService, locks, rest
<1>4. CASE Stop(c)
  <2>1. TypedJobs'
    BY <1>4, <1>a, <1>b, MovesTyped DEF Stop, At
  <2> QED
    BY <1>4, <2>1 DEF Stop, Typed, TypedStates, TypedRest, TypedLinks, TypedService, states, links, rest
<1>5. CASE SetExiting(c)
  <2>1. TypedJobs'
    BY <1>5, <1>b, MovesTyped DEF SetExiting, At
  <2>2. TypedStates'
    BY <1>5, StateOrder DEF SetExiting, Advance, isStarted, Typed, TypedStates
  <2> QED
    BY <1>5, <2>1, <2>2 DEF SetExiting, Typed, TypedRest, TypedLinks, TypedService, links, rest
<1>6. CASE Shutdown(c) \/ AwaitStopped(c)
  <2>1. TypedJobs'
    BY <1>6, <1>a, <1>b, MovesTyped DEF Shutdown, AwaitStopped, StopLoop, At
  <2>2. state' \in ToSet(ServiceStates) /\ accepting' \in BOOLEAN /\ asleep' \subseteq Clients /\ TypedLinks'
    <3>1. CASE UNCHANGED <<state, accepting, links>> /\ (UNCHANGED asleep \/ asleep' = asleep \cup {c})
      BY <3>1 DEF Typed, TypedStates, TypedRest, TypedLinks, links
    <3>2. CASE SetServiceState("stopped")
      BY <3>2, StatesTyped
    <3> QED
      BY <1>6, <3>1, <3>2 DEF Shutdown, AwaitStopped, StopLoop
  <2>3. queue' \in Seq(Posted)
    BY <1>6, PostsTyped, PostedMessages DEF Shutdown, AwaitStopped, Typed, Kinds, Linked
  <2> QED
    BY <1>6, <2>1, <2>2, <2>3 DEF Shutdown, AwaitStopped, Typed, TypedStates, TypedRest, TypedService, locks, rest
<1>7. ASSUME NEW k, Hands(c, k) PROVE TypedJobs' /\ (UNCHANGED <<current, unanswered, marked>> => TypedLinks')
  <2>1. TypedJobs'
    BY <1>7, MovesTyped DEF Hands
  <2> QED
    BY <1>7, <2>1 DEF Hands, Typed, TypedLinks
<1>8. CASE Ensure(c)
  <2>1. CASE Ends(c) /\ UNCHANGED <<monitor, conn>>
    <3>1. TypedJobs'
      BY <2>1, MovesTyped
    <3> QED
      BY <1>8, <2>1, <3>1 DEF Ensure, Typed, TypedStates, TypedRest, TypedLinks, TypedService, states, rest
  <2>2. CASE Hands(c, current) /\ UNCHANGED monitor
    <3>1. TypedJobs' /\ TypedLinks'
      BY <1>7, <1>8, <2>2 DEF Ensure
    <3> QED
      BY <1>8, <2>2, <3>1 DEF Ensure, Typed, TypedStates, TypedRest, TypedService, states, rest
  <2>3. CASE monitor' = c /\ job' = [job EXCEPT ![c].at = "connect", ![c].tries = Addresses] /\ UNCHANGED conn
    <3>1. TypedJobs'
      <4>1. job[c].ask # "asked" /\ "connect" \in Places \ Waiting
        BY <1>8, <1>a, <1>b DEF Ensure, At
      <4>2. job' \in [Clients -> Jobs]
        BY <1>0, <2>3, SearchJob
      <4>3. \A d \in Clients : job'[d] = job[d] \/ (job'[d].at \notin Waiting /\ job'[d].ask # "asked")
        BY <1>0, <2>3, <4>1, SearchJob DEF Others
      <4> QED
        BY <4>2, <4>3 DEF Typed, TypedJobs
    <3> QED
      BY <1>8, <2>3, <3>1 DEF Ensure, Typed, TypedStates, TypedRest, TypedLinks, TypedService, states, rest
  <2> QED
    BY <1>8, <2>1, <2>2, <2>3 DEF Ensure
<1>9. ASSUME NextAddress(c), job[c].tries >= 1 PROVE TypedJobs'
  BY <1>0, <1>9, NextAddressJob DEF Typed, TypedJobs, Others, Waiting
<1>10. ASSUME NEW k \in Conns, NEW p \in {"opening", "closing"}, Asks(c, p, k), job[c].tries >= 1 PROVE TypedJobs'
  BY <1>0, <1>a, <1>10, AsksJob DEF Typed, TypedJobs, Others
<1>11. CASE Connect(c)
  <2>1. job[c].tries \in 0 .. Addresses
    BY <1>0 DEF Jobs
  <2>2. TypedJobs'
    <3>1. ~ Exhausted(c) => job[c].tries >= 1
      BY <2>1, InitiatorConstants DEF Exhausted
    <3> QED
      BY <1>11, <3>1, <1>9, <1>10, MovesTyped DEF Connect
  <2>3. TypedLinks' /\ queue' \in Seq(Posted) /\ monitor' \in Clients \cup {Service, NoOne}
    <3>1. ASSUME NEW k \in Conns, conn' = [conn EXCEPT ![k] = "asked"], Post(Message("open", k, c))
          PROVE  conn' \in [Conns -> {"new", "asked", "sent", "held", "used", "cut", "closed", "refused"}]
                 /\ queue' \in Seq(Posted)
      BY <3>1, PostsTyped, PostedMessages DEF Typed, TypedLinks, Kinds
    <3> QED
      BY <1>11, <3>1 DEF Connect, Typed, TypedLinks, TypedRest
  <2> QED
    BY <1>11, <2>2, <2>3 DEF Connect, Typed, TypedStates, TypedRest, TypedService, states, rest
<1>12. CASE Opening(c) \/ Closing(c)
  <2>1. job[c].at \in Waiting /\ job[c].ask # "asked" /\ job[c].conn \in Conns /\ job[c].tries >= 1
    BY <1>12 DEF Opening, Closing, At, Waiting, Typed, TypedJobs
  <2>2. CASE Goes(c, "connecting")
    <3>1. TypedJobs'
      BY <1>0, <1>a, <2>1, <2>2, GoesJob DEF Typed, TypedJobs, Others
    <3> QED
      BY <1>12, <3>1 DEF Opening, Closing, Typed, TypedStates, TypedRest, TypedLinks, TypedService, states, locks, links, rest
  <2>3. CASE NextAddress(c)
    <3>1. TypedJobs'
      BY <1>9, <2>1, <2>3
    <3> QED
      BY <1>12, <3>1 DEF Opening, Closing, Typed, TypedStates, TypedRest, TypedLinks, TypedService, states, locks, links, rest
  <2> QED
    BY <1>12, <2>2, <2>3 DEF Opening, Closing
<1>13. CASE Connecting(c)
  <2>1. job[c].tries >= 1
    BY <1>13 DEF Connecting, At, Waiting, Typed, TypedJobs
  <2>2. CASE Hands(c, job[c].conn) /\ monitor' = NoOne
    <3>1. TypedJobs' /\ TypedLinks'
      BY <1>7, <1>13, <2>2 DEF Connecting
    <3> QED
      BY <1>13, <2>2, <3>1 DEF Connecting, Typed, TypedStates, TypedRest, TypedService, states, rest
  <2>3. CASE NextAddress(c) /\ UNCHANGED <<monitor, conn>>
    <3>1. TypedJobs'
      BY <1>9, <2>1, <2>3
    <3> QED
      BY <1>13, <2>3, <3>1 DEF Connecting, Typed, TypedStates, TypedRest, TypedLinks, TypedService, states, rest
  <2> QED
    BY <1>13, <2>2, <2>3 DEF Connecting
<1>14. CASE GiveUp(c)
  <2>1. job[c].tries >= 1 /\ job[c].conn \in Conns
    BY <1>14 DEF GiveUp, Waiting, Typed, TypedJobs
  <2>2. TypedJobs' /\ late' \subseteq Conns
    BY <1>9, <1>14, <2>1 DEF GiveUp, Typed, TypedRest
  <2> QED
    BY <1>14, <2>2 DEF GiveUp, Typed, TypedStates, TypedRest, TypedLinks, TypedService, states, locks, links
<1>15. CASE Timeout(c)
  <2>1. job[c].tries >= 1 /\ job[c].conn \in Conns
    BY <1>15 DEF Timeout, At, Waiting, Typed, TypedJobs
  <2>2. TypedJobs'
    BY <1>9, <1>10, <1>15, <2>1 DEF Timeout
  <2>3. queue' \in Seq(Posted)
    BY <1>15, <2>1, PostsTyped, PostedMessages DEF Timeout, Typed, Kinds
  <2> QED
    BY <1>15, <2>2, <2>3 DEF Timeout, Typed, TypedStates, TypedRest, TypedLinks, TypedService, states, locks, links, rest
<1> QED
  BY <1>1, <1>2, <1>3, <1>4, <1>5, <1>6, <1>8, <1>11, <1>12, <1>13, <1>14, <1>15 DEF ClientStep

LEMMA BecomesTyped ==
    ASSUME Typed, NEW p \in {"starting", "startup", "ready", "loop", "throw", "stop", "mark", "settle",
                             "finally", "exit", "closing", "dead"}, Becomes(p)
    PROVE  TypedService'
BY PostedMessages DEF Becomes, Typed, TypedService, Posted

LEMMA ServiceTyped ==
    ASSUME Typed, ServiceStep
    PROVE  Typed'
<1>0. TypeOK /\ (queue # <<>> => Head(queue) \in Posted /\ Tail(queue) \in Seq(Posted))
  BY TypedIs, PostedQueue
<1>1. CASE Enter
  BY <1>1, BecomesTyped DEF Enter, Typed, TypedStates, TypedRest, TypedLinks, TypedJobs, states, locks, links, rest
<1>2. CASE EnterState \/ Startup \/ NotifyShutdown \/ SettleMyself
  <2>1. TypedService'
    BY <1>2, BecomesTyped DEF EnterState, Startup, NotifyShutdown, SettleMyself, AfterStopping, Resume
  <2>2. state' \in ToSet(ServiceStates) /\ accepting' \in BOOLEAN /\ asleep' \subseteq Clients /\ TypedLinks'
    <3>1. CASE UNCHANGED <<state, accepting, links, asleep>>
      BY <3>1 DEF Typed, TypedStates, TypedRest, TypedLinks, links
    <3>2. ASSUME NEW s \in {"starting", "started", "stopping", "stopped"}, SetServiceState(s)
          PROVE  state' \in ToSet(ServiceStates) /\ accepting' \in BOOLEAN /\ asleep' \subseteq Clients /\ TypedLinks'
      BY <3>2, StatesTyped
    <3> QED
      BY <1>2, <3>1, <3>2 DEF EnterState, Startup, NotifyShutdown, SettleMyself
  <2> QED
    BY <1>2, <2>1, <2>2 DEF EnterState, Startup, NotifyShutdown, SettleMyself, Typed, TypedStates, TypedRest,
                            TypedJobs, locks, rest
<1>3. CASE EnterSend
  <2>1. queue' \in Seq(Posted)
    BY <1>3, PostsTyped, PostedMessages DEF EnterSend, Kinds, Linked
  <2> QED
    BY <1>3, <2>1, BecomesTyped DEF EnterSend, Typed, TypedStates, TypedRest, TypedLinks, TypedJobs,
                                    states, locks, links, rest
<1>4. CASE Ready \/ SetMyselfExiting
  <2>1. daemon' \in ToSet(DaemonStates)
    BY <1>4, StateOrder DEF Ready, SetMyselfExiting, Advance, Typed, TypedStates
  <2> QED
    BY <1>4, <2>1, BecomesTyped DEF Ready, SetMyselfExiting, Typed, TypedStates, TypedRest, TypedLinks, TypedJobs,
                                    locks, links, rest
<1>5. CASE Take
  <2>1. TypedService'
    BY <1>0, <1>5 DEF Take, Taking, Typed, TypedService, Posted
  <2> QED
    BY <1>0, <1>5, <2>1 DEF Take, Taking, Typed, TypedStates, TypedRest, TypedLinks, TypedJobs,
                            states, locks, links, rest
<1>6. CASE Quit \/ OnException \/ StopMyself \/ Finally
  <2>1. TypedService'
    BY <1>6, BecomesTyped DEF Quit, OnException, StopMyself, Finally, Resume
  <2> QED
    BY <1>6, <2>1 DEF Quit, OnException, StopMyself, Finally, Typed, TypedStates, TypedRest, TypedLinks, TypedJobs,
                      states, locks, links, rest
<1>7. CASE ShutdownThrows \/ Exited
  <2>1. TypedJobs'
    BY <1>0, <1>7, CancelledJob DEF ShutdownThrows, Exited, Typed, TypedJobs
  <2>2. TypedStates'
    BY <1>7, StateOrder DEF ShutdownThrows, Exited, Typed, TypedStates
  <2> QED
    BY <1>7, <2>1, <2>2, BecomesTyped DEF ShutdownThrows, Exited, Typed, TypedRest, TypedLinks, locks, links, rest
<1>8. CASE OpenConnection
  <2>1. svc.msg.conn \in Conns /\ svc.msg.who \in Clients \cup {NoOne}
    BY <1>8 DEF OpenConnection, Handles, Typed, TypedService, Posted, Messages, Linked
  <2>2. ASSUME NEW a \in {"answered", "failed"}, Post(Message(a, svc.msg.conn, svc.msg.who))
        PROVE  queue' \in Seq(Posted)
    BY <2>1, <2>2, PostsTyped, PostedMessages DEF Kinds
  <2>3. queue' \in Seq(Posted) /\ TypedLinks'
    BY <1>8, <2>1, <2>2 DEF OpenConnection, Typed, TypedLinks
  <2> QED
    BY <1>8, <2>3, BecomesTyped DEF OpenConnection, Typed, TypedStates, TypedRest, TypedJobs, states, locks, rest
<1>9. CASE CloseConnection
  <2>1. Head(queue) \in Posted /\ Tail(queue) \in Seq(Posted) /\ Head(queue).conn \in Conns
        /\ Head(queue).who \in Clients \cup {NoOne}
    BY <1>0, <1>9 DEF CloseConnection, Takes, Taking, Posted, Messages, Linked
  <2>2. TypedLinks'
    BY <1>9, <2>1, ClosesTyped DEF CloseConnection
  <2>3. Message("answered", Head(queue).conn, Head(queue).who) \in Posted
    BY <2>1, PostedMessages DEF Kinds
  <2>4. queue' \in Seq(Posted)
    BY <1>9, <2>1, <2>3, AppendProperties DEF CloseConnection
  <2> QED
    BY <1>9, <2>2, <2>4 DEF CloseConnection, Typed, TypedStates, TypedRest, TypedJobs, TypedService,
                            states, locks, rest
<1>10. CASE Settles
  <2>1. Head(queue).kind \in {"answered", "failed"} /\ Tail(queue) \in Seq(Posted)
    BY <1>0, <1>10 DEF Settles, Takes, Taking
  <2>2. \A c \in Clients : \/ job'[c] = job[c]
                           \/ job'[c] = [job[c] EXCEPT !.ask = Head(queue).kind]
    BY <1>10 DEF Settles
  <2>3. TypedJobs'
    <3>1. job' \in [Clients -> Jobs]
      <4>1. ASSUME NEW c \in Clients PROVE job'[c] \in Jobs
        <5>1. job[c] \in Jobs
          BY DEF Typed, TypedJobs
        <5>2. [job[c] EXCEPT !.ask = Head(queue).kind] \in Jobs
          BY <2>1, <5>1 DEF Jobs
        <5> QED
          BY <2>2, <5>1, <5>2
      <4>2. job' = [c \in Clients |-> job'[c]]
        BY <1>10 DEF Settles
      <4> QED
        BY <4>1, <4>2
    <3>2. ASSUME NEW c \in Clients
          PROVE  /\ job'[c].at = job[c].at /\ job'[c].conn = job[c].conn
                 /\ job'[c].tries = job[c].tries
                 /\ job'[c].ask = "asked" => job[c].ask = "asked"
      <4>1. job[c] \in Jobs
        BY DEF Typed, TypedJobs
      <4> QED
        BY <2>1, <2>2, <4>1 DEF Jobs
    <3> QED
      BY <3>1, <3>2 DEF Typed, TypedJobs
  <2> QED
    BY <1>10, <2>1, <2>3 DEF Settles, Typed, TypedStates, TypedRest, TypedLinks, TypedService, states, locks, links, rest
<1>11. CASE Accept
  <2>1. Head(queue).conn \in Conns /\ Tail(queue) \in Seq(Posted)
    BY <1>0, <1>11 DEF Accept, Takes, Taking, Posted, Linked
  <2> QED
    BY <1>11, <2>1 DEF Accept, Typed, TypedStates, TypedRest, TypedLinks, TypedJobs, TypedService, states, locks, rest
<1>12. CASE Refuse
  <2>1. Head(queue).conn \in Conns /\ Tail(queue) \in Seq(Posted)
    BY <1>0, <1>12 DEF Refuse, Takes, Taking, Posted, Linked
  <2>2. TypedLinks'
    BY <1>12, <2>1, ClosesTyped DEF Refuse
  <2> QED
    BY <1>12, <2>1, <2>2 DEF Refuse, Typed, TypedStates, TypedRest, TypedJobs, TypedService, states, locks, rest
<1>13. CASE Fatal
  <2>1. Head(queue) \in Posted /\ Tail(queue) \in Seq(Posted)
    BY <1>0, <1>13 DEF Fatal, Takes, Taking
  <2>2. TypedService'
    BY <1>13, <2>1 DEF Fatal, Typed, TypedService, Posted
  <2> QED
    BY <1>13, <2>1, <2>2 DEF Fatal, Typed, TypedStates, TypedRest, TypedLinks, TypedJobs, states, locks, links, rest
<1>14. CASE Exit
  <2>1. state' \in ToSet(ServiceStates) /\ accepting' \in BOOLEAN /\ asleep' \subseteq Clients /\ TypedLinks'
    BY <1>14, StatesTyped DEF Exit
  <2> QED
    BY <1>14, <2>1, BecomesTyped DEF Exit, Typed, TypedStates, TypedRest, TypedJobs, locks, rest
<1> QED
  BY <1>1, <1>2, <1>3, <1>4, <1>5, <1>6, <1>7, <1>8, <1>9, <1>10, <1>11, <1>12, <1>13, <1>14 DEF ServiceStep

LEMMA EnvironmentTyped ==
    ASSUME Typed, Environment
    PROVE  Typed'
<1>1. PICK k \in Conns : Leave(k) \/ Lose(k) \/ Answer(k)
  BY DEF Environment
<1>2. queue' \in Seq(Posted)
  <2>1. \A kind \in {"close", "accept", "refuse"} : Message(kind, k, NoOne) \in Posted
    BY PostedMessages DEF Kinds
  <2> QED
    BY <1>1, <2>1, PostsTyped DEF Leave, Lose, Answer
<1> QED
  BY <1>1, <1>2 DEF Leave, Lose, Answer, Typed, TypedStates, TypedRest, TypedLinks, TypedJobs, TypedService,
                    states, locks, links, rest

LEMMA InitTyped == Init => Typed
<1> SUFFICES ASSUME Init PROVE Typed
  OBVIOUS
<1>1. TypedJobs
  BY IdleJob DEF Init, TypedJobs, Waiting
<1>2. TypedService
  BY PostedMessages DEF Init, TypedService, Posted
<1>3. TypedStates
  BY StateOrder DEF Init, TypedStates
<1>4. TypedLinks /\ TypedRest /\ queue \in Seq(Posted)
  BY InitiatorConstants, EmptySeq DEF Init, TypedLinks, TypedRest
<1> QED
  BY <1>1, <1>2, <1>3, <1>4 DEF Typed

LEMMA StepTyped ==
    ASSUME Typed, [Next]_vars
    PROVE  Typed'
<1>1. CASE UNCHANGED vars
  BY <1>1 DEF vars, Typed, TypedStates, TypedRest, TypedLinks, TypedJobs, TypedService, states, locks, links, rest
<1> QED
  BY <1>1, BeginTyped, ClientTyped, ServiceTyped, EnvironmentTyped DEF Next

\* The types, whatever the order of calls and messages; openConnection never tries more
\* addresses than there are, and what waits for a connection has one.
THEOREM TypeCorrect == Spec => []TypeOK
<1>1. Init => Typed
  BY InitTyped
<1>2. Typed /\ [Next]_vars => Typed'
  BY StepTyped
<1>3. Typed => TypeOK
  BY TypedIs
<1> QED
  BY <1>1, <1>2, <1>3, PTL DEF Spec

-----------------------------------------------------------------------------
(***************************************************************************)
(* Monitors.                                                               *)
(***************************************************************************)
\* The states go forward; a daemon is exiting once, and never exits before.
LEMMA Advances ==
    ASSUME NEW d \in ToSet(DaemonStates)
    PROVE  /\ Advance(DaemonStates, d, "exiting") = IF d = "exited" THEN d ELSE "exiting"
           /\ Advance(DaemonStates, d, "running") = IF d \in {"initial", "starting"} THEN "running" ELSE d
BY DEF Advance, Before, DaemonStates, ToSet

\* A call that moves between places where it holds nothing.
LEMMA HoldsMove ==
    ASSUME Typed, Holds, NEW c \in Clients, Others(c),
           job[c].at \notin Waiting \cup {"connect", "mark"}, job'[c].at \notin Waiting \cup {"connect", "mark"},
           UNCHANGED <<locks, daemon, svc>> \/ (UNCHANGED locks /\ daemon' # "exiting" /\ svc' = [svc EXCEPT !.at = "enter"] /\ svc.at = "none")
    PROVE  Holds'
BY DEF Holds, Others, locks, Typed, TypedService

LEMMA ClientHolds ==
    ASSUME Typed, Holds, NEW c \in Clients, Call(c) \/ ClientStep(c) \/ GiveUp(c) \/ Timeout(c),
           daemon = "initial" => svc.at = "none"
    PROVE  Holds'
<1>0. TypeOK /\ (\A d \in Clients : d # Service /\ d # NoOne) /\ Service # NoOne
  BY TypedIs, InitiatorConstants DEF Service, NoOne
<1>a. job[c].at \in Waiting => job[c].conn \in Conns /\ job[c].tries >= 1
  BY DEF Typed, TypedJobs
<1>b. \A p \in {"start", "starting", "accepting", "settle", "stop", "mark", "shutdown", "stopping", "ensure",
                "connect", "opening", "connecting", "closing", "idle"} : p \in Places
  BY DEF Places
<1> USE DEF Waiting
<1>1. CASE Call(c)
  <2>1. PICK p \in Places : Begin(c, p) /\ p \notin Waiting \cup {"connect", "mark"}
    BY <1>1 DEF Call, CallStart, CallStop, CallShutdown, CallEnsure, Places
  <2>2. Others(c) /\ job'[c].at = p /\ job[c].at = "idle" /\ UNCHANGED <<locks, daemon, svc>>
    BY <1>0, <2>1, BeginJob DEF Begin, states, locks
  <2> QED
    BY <2>1, <2>2, HoldsMove
<1>2. ASSUME NEW p \in Places \ (Waiting \cup {"connect", "mark"}), Goes(c, p) \/ Ends(c),
             job[c].at \notin Waiting \cup {"connect", "mark"}
      PROVE  Others(c) /\ job'[c].at \notin Waiting \cup {"connect", "mark"}
  BY <1>0, <1>2, GoesJob, EndsJob, IdleJob
<1>3. CASE Start(c)
  <2>1. Others(c) /\ job'[c].at \notin Waiting \cup {"connect", "mark"}
    BY <1>2, <1>3, <1>b DEF Start, StartLoop, At
  <2> QED
    BY <1>3, <2>1, HoldsMove DEF Start, At, locks
<1>4. CASE AwaitThread(c) \/ AwaitAccepting(c)
  <2>1. Others(c) /\ job'[c].at \notin Waiting \cup {"connect", "mark"}
    BY <1>2, <1>4, <1>b DEF AwaitThread, AwaitAccepting, StartLoop, At
  <2> QED
    BY <1>4, <2>1, HoldsMove DEF AwaitThread, AwaitAccepting, At, states
<1>5. CASE Settle(c)
  <2>1. Others(c) /\ job'[c].at \notin Waiting \cup {"connect", "mark"}
    BY <1>2, <1>5, <1>b DEF Settle, At
  <2> QED
    BY <1>5, <2>1, HoldsMove DEF Settle, At
<1>6. CASE Stop(c)
  <2>1. CASE StoppedBefore
    <3>1. Others(c) /\ job'[c].at \notin Waiting \cup {"connect", "mark"}
      BY <1>2, <1>6, <1>b, <2>1 DEF Stop, At
    <3> QED
      BY <1>6, <2>1, <3>1, HoldsMove DEF Stop, At, states, locks
  <2>2. CASE ~ StoppedBefore
    <3>1. Others(c) /\ job'[c].at = "mark"
      BY <1>0, <1>6, <1>b, <2>2, GoesJob DEF Stop
    <3> QED
      BY <1>0, <1>6, <2>2, <3>1 DEF Stop, At, Holds, Others, states, StoppedBefore
  <2> QED
    BY <2>1, <2>2
<1>7. CASE SetExiting(c)
  <2>1. Others(c) /\ job'[c].at = "idle"
    BY <1>0, <1>7, EndsJob, IdleJob DEF SetExiting
  <2> QED
    BY <1>0, <1>7, <2>1 DEF SetExiting, At, Holds, Others
<1>8. CASE Shutdown(c) \/ AwaitStopped(c)
  <2>1. Others(c) /\ job'[c].at \notin Waiting \cup {"connect", "mark"}
    BY <1>2, <1>8, <1>b DEF Shutdown, AwaitStopped, StopLoop, At
  <2> QED
    BY <1>8, <2>1, HoldsMove DEF Shutdown, AwaitStopped, At
<1>9. CASE Ensure(c)
  <2>1. CASE Ends(c) /\ UNCHANGED monitor
    <3>1. Others(c) /\ job'[c].at \notin Waiting \cup {"connect", "mark"}
      BY <1>2, <1>9, <1>b, <2>1 DEF Ensure, At
    <3> QED
      BY <1>9, <2>1, <3>1, HoldsMove DEF Ensure, At, states, locks
  <2>2. CASE monitor' = c /\ job' = [job EXCEPT ![c].at = "connect", ![c].tries = Addresses]
    <3>1. Others(c) /\ job'[c].at = "connect"
      BY <1>0, <2>2, SearchJob
    <3> QED
      BY <1>0, <1>9, <2>2, <3>1 DEF Ensure, At, Holds, Others, states
  <2> QED
    BY <1>9, <2>1, <2>2 DEF Ensure, Hands
<1>10. ASSUME job[c].at \in Waiting \cup {"connect"}, Others(c), UNCHANGED <<exitMonitor, daemon, svc>>,
              \/ job'[c].at \in Waiting \cup {"connect"} /\ UNCHANGED monitor
              \/ job'[c].at = "idle" /\ monitor' = NoOne
       PROVE  Holds'
  BY <1>0, <1>10 DEF Holds, Others
<1>11. CASE Connect(c)
  <2>1. CASE Ends(c) /\ monitor' = NoOne
    BY <1>0, <1>10, <1>11, <2>1, EndsJob, IdleJob DEF Connect, At, states
  <2>2. CASE NextAddress(c) /\ ~ Exhausted(c) /\ UNCHANGED monitor
    <3>1. job[c].tries >= 1
      BY <2>2, InitiatorConstants DEF Exhausted, Typed, TypedJobs, Jobs
    <3> QED
      BY <1>0, <1>10, <1>11, <2>2, <3>1, NextAddressJob DEF Connect, At, states
  <2>3. ASSUME NEW k \in Conns, Asks(c, "opening", k), UNCHANGED monitor PROVE Holds'
    BY <1>0, <1>b, <1>10, <1>11, <2>3, AsksJob DEF Connect, At, states
  <2> QED
    BY <1>11, <2>1, <2>2, <2>3 DEF Connect
<1>12. CASE Opening(c) \/ Closing(c) \/ GiveUp(c)
  BY <1>0, <1>a, <1>b, <1>10, <1>12, GoesJob, NextAddressJob DEF Opening, Closing, GiveUp, At, states, locks
<1>13. CASE Connecting(c)
  BY <1>0, <1>a, <1>10, <1>13, EndsJob, IdleJob, NextAddressJob DEF Connecting, Hands, At, states
<1>14. CASE Timeout(c)
  BY <1>0, <1>a, <1>b, <1>10, <1>14, AsksJob, NextAddressJob DEF Timeout, At, states, locks
<1> QED
  BY <1>1, <1>3, <1>4, <1>5, <1>6, <1>7, <1>8, <1>9, <1>11, <1>12, <1>13, <1>14 DEF ClientStep

LEMMA ServiceHolds ==
    ASSUME Typed, Holds, Lives, ServiceStep
    PROVE  Holds'
<1>0. TypeOK /\ (\A d \in Clients : d # Service /\ d # NoOne) /\ Service # NoOne
  BY TypedIs, InitiatorConstants DEF Service, NoOne
<1>a. \A p : Becomes(p) => svc'.at = p
  BY DEF Typed, TypedService, Becomes
<1>1. ASSUME UNCHANGED <<monitor, exitMonitor, daemon, job>>,
             svc'.at \in {"mark", "exit", "closing"} \/ svc.at \in {"mark", "exit", "closing"} => svc'.at = svc.at
      PROVE  Holds'
  BY <1>1 DEF Holds
<1> USE DEF states, locks
<1>2. CASE Enter \/ EnterSend \/ Quit \/ OnException
  BY <1>1, <1>2, <1>a DEF Enter, EnterSend, Quit, OnException, Runs, Resume
<1>3. CASE EnterState \/ Startup \/ NotifyShutdown \/ SettleMyself
  BY <1>1, <1>3, <1>a DEF EnterState, Startup, NotifyShutdown, SettleMyself, Runs, Handles, Resume, AfterStopping
<1>4. CASE Take \/ Fatal
  BY <1>1, <1>4 DEF Take, Fatal, Takes, Taking, Runs
<1>5. CASE CloseConnection \/ Accept \/ Refuse
  BY <1>1, <1>5 DEF CloseConnection, Accept, Refuse
<1>6. CASE Settles
  <2>1. \A c \in Clients : job'[c].at = job[c].at
    BY <1>6 DEF Settles, Typed, TypedJobs, Jobs
  <2> QED
    BY <1>6, <2>1 DEF Settles, Holds
<1>7. CASE OpenConnection
  BY <1>1, <1>7, <1>a DEF OpenConnection, Handles, Runs
<1>8. CASE Ready
  <2>1. daemon' = "exiting" => daemon = "exiting"
    BY <1>8, Advances DEF Ready, Typed, TypedStates
  <2> QED
    BY <1>8, <1>a, <2>1 DEF Ready, Runs, Holds
<1>9. CASE ShutdownThrows
  <2>1. \A c \in Clients : job'[c].at = job[c].at
    BY <1>0, <1>9, CancelledJob DEF ShutdownThrows
  <2> QED
    BY <1>9, <1>a, <2>1 DEF ShutdownThrows, Handles, Runs, Holds
<1>10. CASE StopMyself
  BY <1>0, <1>10, <1>a DEF StopMyself, Runs, Holds, Resume
<1>11. CASE SetMyselfExiting
  BY <1>0, <1>11, <1>a DEF SetMyselfExiting, Runs, Holds
<1>12. CASE Finally
  BY <1>0, <1>12, <1>a DEF Finally, Free, Runs, Holds
<1>13. CASE Exit
  BY <1>0, <1>13, <1>a DEF Exit, Runs, Holds
<1>14. CASE Exited
  <2>1. \A c \in Clients : job'[c].at = job[c].at
    BY <1>0, <1>14, CancelledJob DEF Exited
  <2> QED
    BY <1>0, <1>14, <1>a, <2>1 DEF Exited, Runs, Holds
<1> QED
  BY <1>2, <1>3, <1>4, <1>5, <1>6, <1>7, <1>8, <1>9, <1>10, <1>11, <1>12, <1>13, <1>14 DEF ServiceStep

LEMMA EnvironmentHolds ==
    ASSUME Holds, Environment
    PROVE  Holds'
BY DEF Environment, Leave, Lose, Answer, Holds, states, locks

-----------------------------------------------------------------------------
(***************************************************************************)
(* The states of the daemon and of the service.                            *)
(***************************************************************************)
\* setServiceState: the state is s now, and a service that has stopped stays so.
LEMMA StatesMove ==
    ASSUME Typed, NEW s \in {"starting", "started", "stopping", "stopped"}, SetServiceState(s)
    PROVE  /\ state' = s /\ (state = "stopped" => s = "stopped")
           /\ accepting' => s = "started" \/ (state = s /\ accepting)
BY StateOrder DEF SetServiceState, Typed, TypedStates

Begun == {"stop", "mark", "starting", "accepting"}

\* A step of a call that leaves the states alone.
LEMMA LivesMove ==
    ASSUME Lives, NEW c \in Clients, Others(c), UNCHANGED <<daemon, state, accepting, svc, internal>>,
           failed' => failed,
           monitor' \in {monitor, NoOne} \/ state # "stopped",
           job'[c].at \in Begun => job[c].at \in Begun \/ daemon # "initial"
    PROVE  Lives'
BY DEF Lives, Others, Begun

LEMMA ClientLives ==
    ASSUME Typed, Lives, NEW c \in Clients, Call(c) \/ ClientStep(c) \/ GiveUp(c) \/ Timeout(c)
    PROVE  Lives'
<1>0. TypeOK
  BY TypedIs
<1>a. job[c].at \in Waiting => job[c].conn \in Conns /\ job[c].tries >= 1
  BY DEF Typed, TypedJobs
<1>b. \A p \in {"start", "starting", "accepting", "settle", "stop", "mark", "shutdown", "stopping", "ensure",
                "connect", "opening", "connecting", "closing", "idle"} : p \in Places
  BY DEF Places
<1>c. isStarted => daemon # "initial"
  BY DEF isStarted
<1> USE DEF Waiting, states, locks
<1>1. CASE Call(c)
  <2>1. PICK p \in Places : Begin(c, p) /\ (p \in Begun => daemon # "initial")
    BY <1>1, <1>c DEF Call, CallStart, CallStop, CallShutdown, CallEnsure, Places, Begun
  <2> QED
    BY <1>0, <2>1, BeginJob, LivesMove DEF Begin
<1>2. CASE Start(c)
  <2>1. CASE daemon = "initial"
    <3>1. Others(c) /\ job'[c].at = "starting"
      BY <1>0, <1>2, <1>b, <2>1, GoesJob DEF Start
    <3>2. svc.at = "none" /\ svc'.at = "enter" /\ daemon' = "starting"
      BY <1>2, <2>1 DEF Start, Lives, Typed, TypedService
    <3> QED
      BY <1>2, <2>1, <3>1, <3>2 DEF Start, Lives, Others
  <2>2. CASE daemon # "initial"
    <3>1. Others(c)
      BY <1>0, <1>2, <1>b, <2>2, GoesJob, EndsJob DEF Start, StartLoop
    <3> QED
      BY <1>2, <2>2, <3>1, LivesMove DEF Start
  <2> QED
    BY <2>1, <2>2
<1>3. CASE AwaitThread(c) \/ AwaitAccepting(c)
  <2>1. Others(c) /\ (job'[c].at \in Begun => job[c].at \in Begun)
    BY <1>0, <1>3, <1>b, GoesJob, EndsJob, IdleJob DEF AwaitThread, AwaitAccepting, StartLoop, At, Begun
  <2> QED
    BY <1>3, <2>1, LivesMove DEF AwaitThread, AwaitAccepting
<1>4. CASE Settle(c)
  <2>1. CASE isStarted
    <3>1. Others(c)
      BY <1>0, <1>4, <1>b, <2>1, GoesJob DEF Settle
    <3> QED
      BY <1>c, <1>4, <2>1, <3>1, LivesMove DEF Settle
  <2>2. CASE ~ isStarted
    <3>1. Others(c) /\ job'[c].at = "idle"
      BY <1>0, <1>4, <2>2, EndsJob, IdleJob DEF Settle
    <3>2. state' = "stopped" /\ ~ accepting'
      BY <1>4, <2>2, StatesMove DEF Settle, Lives
    <3>3. daemon \in {"initial", "exited"}
      BY <2>2, StateOrder DEF isStarted, Typed, TypedStates
    <3>4. svc.at # "handle"
      BY <3>3 DEF Lives
    <3> QED
      BY <1>4, <3>1, <3>2, <3>3, <3>4 DEF Settle, Lives, Others
  <2> QED
    BY <2>1, <2>2
<1>5. CASE Stop(c)
  <2>1. Others(c) /\ job[c].at \in Begun
    BY <1>0, <1>5, <1>b, GoesJob, EndsJob DEF Stop, At, Begun
  <2> QED
    BY <1>5, <2>1, LivesMove DEF Stop
<1>6. CASE SetExiting(c)
  <2>1. Others(c) /\ job'[c].at = "idle" /\ daemon # "initial"
    BY <1>0, <1>6, EndsJob, IdleJob DEF SetExiting, At, Lives
  <2>2. daemon' = IF daemon = "exited" THEN daemon ELSE "exiting"
    BY <1>6, Advances DEF SetExiting, Typed, TypedStates
  <2> QED
    BY <1>6, <2>1, <2>2 DEF SetExiting, Lives, Others
<1>7. CASE Shutdown(c) \/ AwaitStopped(c)
  <2>1. Others(c) /\ job'[c].at \notin Begun
    BY <1>0, <1>7, <1>b, GoesJob, EndsJob, IdleJob DEF Shutdown, AwaitStopped, StopLoop, Begun
  <2>2. CASE UNCHANGED <<state, accepting>>
    BY <1>7, <2>1, <2>2, LivesMove DEF Shutdown, AwaitStopped
  <2>3. CASE SetServiceState("stopped") /\ ~ isStarted
    <3>2. state' = "stopped" /\ ~ accepting'
      BY <2>3, StatesMove DEF Lives
    <3>3. daemon \in {"initial", "exited"}
      BY <2>3, StateOrder DEF isStarted, Typed, TypedStates
    <3>4. svc.at # "handle"
      BY <3>3 DEF Lives
    <3> QED
      BY <1>7, <2>1, <3>2, <3>3, <3>4 DEF Shutdown, AwaitStopped, Lives, Others, Begun
  <2> QED
    BY <1>7, <2>2, <2>3 DEF Shutdown, AwaitStopped, StopLoop
<1>8. CASE Ensure(c)
  <2>1. Others(c) /\ job'[c].at \notin Begun
    BY <1>0, <1>8, EndsJob, IdleJob, SearchJob DEF Ensure, Hands, Begun
  <2>2. monitor' = monitor \/ state # "stopped"
    BY <1>8 DEF Ensure, isRunning
  <2> QED
    BY <1>8, <2>1, <2>2, LivesMove DEF Ensure
<1>9. CASE Connect(c)
  <2>1. ~ Exhausted(c) => job[c].tries >= 1
    BY InitiatorConstants DEF Exhausted, Typed, TypedJobs, Jobs
  <2>2. Others(c) /\ job'[c].at \notin Begun
    BY <1>0, <1>9, <1>b, <2>1, EndsJob, IdleJob, NextAddressJob, AsksJob DEF Connect, Begun
  <2> QED
    BY <1>9, <2>2, LivesMove DEF Connect
<1>10. CASE Opening(c) \/ Closing(c) \/ GiveUp(c) \/ Timeout(c)
  <2>1. Others(c) /\ job'[c].at \notin Begun
    BY <1>0, <1>a, <1>b, <1>10, GoesJob, NextAddressJob, AsksJob DEF Opening, Closing, GiveUp, Timeout, At, Begun
  <2> QED
    BY <1>10, <2>1, LivesMove DEF Opening, Closing, GiveUp, Timeout
<1>11. CASE Connecting(c)
  <2>1. Others(c) /\ job'[c].at \notin Begun
    BY <1>0, <1>a, <1>11, EndsJob, IdleJob, NextAddressJob DEF Connecting, Hands, At, Begun
  <2> QED
    BY <1>11, <2>1, LivesMove DEF Connecting
<1> QED
  BY <1>1, <1>2, <1>3, <1>4, <1>5, <1>6, <1>7, <1>8, <1>9, <1>10, <1>11 DEF ClientStep

LEMMA ServiceLives ==
    ASSUME Typed, Holds, Lives, ServiceStep
    PROVE  Lives'
<1>0. TypeOK /\ daemon \in {"initial", "starting", "running", "exiting", "exited"}
  BY TypedIs, StateOrder DEF Typed, TypedStates
<1>a. \A p : Becomes(p) => svc'.at = p
  BY DEF Typed, TypedService, Becomes
<1> USE DEF states, locks
<1>1. CASE Enter \/ EnterSend \/ Quit \/ StopMyself \/ OnException
  <2>1. UNCHANGED <<daemon, state, accepting, failed, monitor, job>> /\ (internal' = internal \/ svc.at = "enter")
    BY <1>1 DEF Enter, EnterSend, Quit, StopMyself, OnException, Runs
  <2>2. svc.at \notin {"none", "dead", "exit", "closing"}
        /\ svc'.at \notin {"none", "dead", "handle", "exit", "closing"}
    BY <1>1, <1>a DEF Enter, EnterSend, Quit, StopMyself, OnException, Runs, Resume
  <2>3. /\ svc'.at \in {"settle", "finally"} => daemon = "exiting"
        /\ svc.at \in {"enter", "starting", "throw", "stop", "mark"} =>
              daemon = "exiting" \/ svc'.at \in {"enter", "starting", "throw", "stop", "mark"}
    BY <1>1, <1>a DEF Enter, EnterSend, Quit, StopMyself, OnException, Runs, Resume
  <2> QED
    BY <2>1, <2>2, <2>3 DEF Lives
<1>2. CASE EnterState
  <2>1. CASE state = "stopped"
    BY <1>2, <1>a, <2>1 DEF EnterState, Runs, Lives
  <2>2. CASE state # "stopped"
    <3>1. SetServiceState("starting") /\ Becomes("startup")
      BY <1>2, <2>2 DEF EnterState
    <3>2. state' = "starting" /\ ~ accepting'
      BY <3>1, StatesMove DEF Lives
    <3> QED
      BY <1>2, <1>a, <2>2, <3>1, <3>2 DEF EnterState, Runs, Lives
  <2> QED
    BY <2>1, <2>2
<1>3. CASE Startup
  <2>1. state' = "started"
    BY <1>3, StatesMove DEF Startup
  <2> QED
    BY <1>3, <1>a, <2>1 DEF Startup, Handles, Runs, Lives
<1>4. CASE NotifyShutdown
  <2>1. state' = "stopping"
    BY <1>4, StatesMove DEF NotifyShutdown
  <2> QED
    BY <1>4, <1>a, <2>1 DEF NotifyShutdown, Handles, Runs, Lives, AfterStopping
<1>5. CASE SettleMyself
  <2>1. state' = "stopped" /\ ~ accepting' /\ daemon = "exiting"
    BY <1>5, StatesMove DEF SettleMyself, Runs, Lives
  <2> QED
    BY <1>5, <1>a, <2>1 DEF SettleMyself, Runs, Lives, Resume
<1>6. CASE Ready
  <2>1. daemon' = IF daemon \in {"initial", "starting"} THEN "running" ELSE daemon
    BY <1>6, Advances DEF Ready, Typed, TypedStates
  <2>2. svc.at = "ready" /\ svc'.at = "loop"
    BY <1>6, <1>a DEF Ready, Runs
  <2> QED
    BY <1>0, <1>6, <2>1, <2>2 DEF Ready, Lives
<1>7. CASE Take \/ Fatal
  <2>1. svc.at = "loop" /\ (svc'.at \in {"loop", "throw"} \/ (svc'.at = "handle" /\ internal)) /\ daemon # "exiting"
    BY <1>7 DEF Take, Fatal, Takes, Taking, Runs, Deliverable, Slow, OfConnection
  <2> QED
    BY <1>0, <1>7, <2>1 DEF Take, Fatal, Lives
<1>8. CASE CloseConnection \/ Accept \/ Refuse
  BY <1>8 DEF CloseConnection, Accept, Refuse, Lives
<1>9. CASE Settles
  <2>1. \A c \in Clients : job'[c].at = job[c].at
    BY <1>9 DEF Settles, Typed, TypedJobs, Jobs
  <2> QED
    BY <1>9, <2>1 DEF Settles, Lives
<1>10. CASE OpenConnection
  BY <1>10, <1>a DEF OpenConnection, Handles, Runs, Lives
<1>11. CASE ShutdownThrows
  <2>1. \A c \in Clients : job'[c].at = job[c].at
    BY <1>0, <1>11, CancelledJob DEF ShutdownThrows
  <2> QED
    BY <1>11, <1>a, <2>1 DEF ShutdownThrows, Handles, Runs, Lives
<1>12. CASE SetMyselfExiting
  <2>1. svc.at = "mark" /\ svc'.at = "settle"
    BY <1>12, <1>a DEF SetMyselfExiting, Runs
  <2>2. daemon' = "exiting"
    BY <1>12, <2>1, Advances DEF SetMyselfExiting, Typed, TypedStates, Lives
  <2> QED
    BY <1>12, <2>1, <2>2 DEF SetMyselfExiting, Lives
<1>13. CASE Finally
  BY <1>13, <1>a DEF Finally, Runs, Lives
<1>14. CASE Exit
  <2>1. state' = "stopped" /\ ~ accepting'
    BY <1>14, StatesMove DEF Exit, Lives
  <2> QED
    BY <1>14, <1>a, <2>1 DEF Exit, Runs, Lives
<1>15. CASE Exited
  <2>1. \A c \in Clients : job'[c].at = job[c].at
    BY <1>0, <1>15, CancelledJob DEF Exited
  <2> QED
    BY <1>15, <1>a, <2>1 DEF Exited, Runs, Lives
<1> QED
  BY <1>1, <1>2, <1>3, <1>4, <1>5, <1>6, <1>7, <1>8, <1>9, <1>10, <1>11, <1>12, <1>13, <1>14, <1>15 DEF ServiceStep

LEMMA EnvironmentLives ==
    ASSUME Lives, Environment
    PROVE  Lives'
BY DEF Environment, Leave, Lose, Answer, Lives, states, locks

\* The part of the invariant that is inductive by itself.
Sound == Typed /\ Holds /\ Lives

LEMMA InitSound == Init => Sound
<1> SUFFICES ASSUME Init PROVE Sound
  OBVIOUS
<1> USE DEF Init
<1>1. Typed
  BY InitTyped
<1>2. Holds
  BY InitiatorConstants, IdleJob DEF Holds, Waiting, Service, NoOne
<1>3. Lives
  BY IdleJob DEF Lives
<1> QED
  BY <1>1, <1>2, <1>3 DEF Sound

LEMMA StepSound == Sound /\ [Next]_vars => Sound'
<1> SUFFICES ASSUME Sound, [Next]_vars PROVE Sound'
  OBVIOUS
<1> USE DEF Sound
<1>1. Typed'
  BY StepTyped
<1>2. (\A c \in Clients : ~ (Call(c) \/ ClientStep(c) \/ GiveUp(c) \/ Timeout(c))) /\ ~ ServiceStep /\ ~ Environment
      => UNCHANGED vars
  BY DEF Next
<1>3. Holds'
  <2>1. CASE UNCHANGED vars
    BY <2>1 DEF vars, states, locks, Holds
  <2> QED
    BY <1>2, <2>1, ClientHolds, ServiceHolds, EnvironmentHolds DEF Lives
<1>4. Lives'
  <2>1. CASE UNCHANGED vars
    BY <2>1 DEF vars, states, locks, Lives
  <2> QED
    BY <1>2, <2>1, ClientLives, ServiceLives, EnvironmentLives
<1> QED
  BY <1>1, <1>3, <1>4

LEMMA AlwaysSound == Spec => []Sound
BY InitSound, StepSound, PTL DEF Spec

\* A client that holds f_vExitMonitor in Daemon::stop never meets the service thread
\* that holds the monitor of the service in runFinally.
THEOREM NoEmbraceHolds == Spec => []NoEmbrace
<1>1. Sound => NoEmbrace
  BY InitiatorConstants DEF Sound, Holds, Lives, NoEmbrace
<1> QED
  BY <1>1, AlwaysSound, PTL

\* Only a step of the call itself can end it.
LEMMA EndsItself ==
    ASSUME Sound, [Next]_vars, NEW c \in Clients, job[c].at # "idle", job'[c].at = "idle"
    PROVE  ClientStep(c)
<1>0. TypeOK
  BY TypedIs DEF Sound
<1>1. ASSUME NEW d \in Clients, Call(d) \/ ClientStep(d) \/ GiveUp(d) \/ Timeout(d) PROVE Others(d)
  <2>1. /\ \A p : Begin(d, p) \/ Goes(d, p) => Others(d)
        /\ \A p, k : Asks(d, p, k) => Others(d)
        /\ Ends(d) \/ NextAddress(d) => Others(d)
        /\ job' = [job EXCEPT ![d].at = "connect", ![d].tries = Addresses] => Others(d)
    BY <1>0 DEF TypeOK, Begin, Goes, Asks, Ends, NextAddress, Others
  <2>2. Call(d) \/ GiveUp(d) \/ Timeout(d) => Others(d)
    BY <2>1 DEF Call, CallStart, CallStop, CallShutdown, CallEnsure, GiveUp, Timeout
  <2>3. Start(d) \/ AwaitThread(d) \/ AwaitAccepting(d) \/ Settle(d) \/ Stop(d) \/ SetExiting(d) => Others(d)
    BY <2>1 DEF Start, AwaitThread, AwaitAccepting, StartLoop, Settle, Stop, SetExiting
  <2>4. Shutdown(d) \/ AwaitStopped(d) \/ Ensure(d) \/ Connect(d) \/ Opening(d) \/ Connecting(d) \/ Closing(d) => Others(d)
    BY <2>1 DEF Shutdown, AwaitStopped, StopLoop, Ensure, Hands, Connect, Opening, Connecting, Closing
  <2> QED
    BY <1>1, <2>2, <2>3, <2>4 DEF ClientStep
<1>2. ASSUME ServiceStep \/ Environment \/ UNCHANGED vars PROVE job'[c].at = job[c].at
  <2>1. job' = Cancelled => job'[c].at = job[c].at
    BY <1>0, CancelledJob
  <2>2. Settles => job'[c].at = job[c].at
    BY DEF Settles, Sound, Typed, TypedJobs, Jobs
  <2> QED
    BY <1>2, <2>1, <2>2 DEF ServiceStep, Enter, EnterState, EnterSend, Ready, Take, Quit, Startup, NotifyShutdown,
           ShutdownThrows, OpenConnection, CloseConnection, Accept, Refuse, Fatal, OnException,
           StopMyself, SetMyselfExiting, SettleMyself, Finally, Exit, Exited, Environment, Leave, Lose, Answer, vars
<1>3. Call(c) \/ ClientStep(c) \/ GiveUp(c) \/ Timeout(c)
  BY <1>1, <1>2 DEF Next, Others
<1>4. ~ Call(c)
  BY DEF Call, CallStart, CallStop, CallShutdown, CallEnsure, Begin, At
<1>5. job[c].at \in Waiting => job[c].tries >= 1 /\ job[c].conn \in Conns
  BY DEF Sound, Typed, TypedJobs
<1>6. ~ GiveUp(c)
  BY <1>0, <1>5, NextAddressJob DEF GiveUp, Waiting
<1>7. ~ Timeout(c)
  BY <1>0, <1>5, NextAddressJob, AsksJob DEF Timeout, At, Waiting, Places
<1> QED
  BY <1>3, <1>4, <1>6, <1>7

\* start returns when the service takes clients, or the daemon or the service is on
\* its way out; shutdown (Peer, Daemon) returns when the service has stopped, unless
\* the internal connection was not open.
THEOREM TruthfulHolds == Spec => Truthful
<1> DEFINE Truth(c) ==
              /\ Done(c, {"start", "starting", "accepting"}) =>
                    state = "started" \/ daemon' \in {"exiting", "exited"} \/ state' \in {"stopping", "stopped"}
              /\ Done(c, {"shutdown", "stopping"}) /\ (internal \/ ~ isStarted) => state' = "stopped"
<1>1. ASSUME Sound, [Next]_vars, NEW c \in Clients PROVE Truth(c)
  <2>0. TypeOK /\ daemon \in {"initial", "starting", "running", "exiting", "exited"}
    BY <1>1, TypedIs, StateOrder DEF Sound, Typed, TypedStates
  <2>a. \A p \in {"starting", "accepting", "stopping"} : p \in Places /\ p # "idle"
    BY DEF Places
  <2>1. ASSUME Done(c, {"start", "starting", "accepting"})
        PROVE  state = "started" \/ daemon' \in {"exiting", "exited"} \/ state' \in {"stopping", "stopped"}
    <3>1. ClientStep(c)
      BY <1>1, <2>1, EndsItself DEF Done
    <3>2. Start(c) \/ AwaitThread(c) \/ AwaitAccepting(c)
      BY <2>1, <3>1 DEF Done, ClientStep, At, Settle, Stop, SetExiting, Shutdown, AwaitStopped, Ensure, Connect,
                        Opening, Connecting, Closing
    <3>3. \A p \in {"starting", "accepting"} : ~ Goes(c, p)
      BY <2>0, <2>a, <2>1, GoesJob DEF Done
    <3>4. job[c].at \in {"starting", "accepting"} => daemon # "initial"
      BY <1>1 DEF Sound, Lives
    <3>5. accepting => state \in {"started", "stopping"}
      BY <1>1 DEF Sound, Lives
    <3>6. (failed => state = "stopped") /\ state \in {"initial", "starting", "started", "stopping", "stopped"}
      BY <1>1, StateOrder DEF Sound, Lives, Typed, TypedStates
    <3> QED
      BY <2>0, <3>2, <3>3, <3>4, <3>5, <3>6 DEF Start, AwaitThread, AwaitAccepting, StartLoop, Starting, isStarted, At, states
  <2>2. ASSUME Done(c, {"shutdown", "stopping"}), internal \/ ~ isStarted
        PROVE  state' = "stopped"
    <3>1. ClientStep(c)
      BY <1>1, <2>2, EndsItself DEF Done
    <3>2. Shutdown(c) \/ AwaitStopped(c)
      BY <2>2, <3>1 DEF Done, ClientStep, At, Settle, Stop, SetExiting, Start, AwaitThread, AwaitAccepting, Ensure,
                        Connect, Opening, Connecting, Closing
    <3>3. ~ Goes(c, "stopping")
      BY <2>0, <2>a, <2>2, GoesJob DEF Done
    <3>4. SetServiceState("stopped") => state' = "stopped"
      BY <1>1, StatesMove DEF Sound
    <3>5. StopLoop(c)
      BY <2>2, <3>2 DEF Shutdown, AwaitStopped
    <3> QED
      BY <3>3, <3>4, <3>5 DEF StopLoop, StillStopping
  <2> QED
    BY <2>1, <2>2
<1>2. Sound /\ [Next]_vars => [\A c \in Clients : Truth(c)]_vars
  BY <1>1
<1> QED
  BY <1>2, AlwaysSound, PTL DEF Spec, Truthful

-----------------------------------------------------------------------------
(***************************************************************************)
(* The queue and the connections.                                          *)
(***************************************************************************)
\* The first s messages are gone, and those of M have come, at the end.
Comes(s, M) ==
    /\ \A i \in DOMAIN queue' : \/ i + s \in DOMAIN queue /\ queue'[i] = queue[i + s]
                                \/ i = Len(queue) - s + 1 /\ queue'[i] \in M
    /\ \A i \in DOMAIN queue : i > s => i - s \in DOMAIN queue' /\ queue'[i - s] = queue[i]
    /\ M # {} => Len(queue) - s + 1 \in DOMAIN queue' /\ queue'[Len(queue) - s + 1] \in M

LEMMA QueueIs ==
    ASSUME Typed
    PROVE  /\ DOMAIN queue = 1 .. Len(queue) /\ Len(queue) \in Nat
           /\ queue # <<>> => Len(queue) >= 1 /\ Head(queue) = queue[1] /\ Head(queue) \in Posted
<1>1. queue \in Seq(Posted)
  BY DEF Typed
<1> QED
  BY <1>1, HeadTailProperties

LEMMA QueueStays ==
    ASSUME Typed, UNCHANGED queue
    PROVE  Comes(0, {})
BY QueueIs DEF Comes

LEMMA QueueGrows ==
    ASSUME Typed, NEW m \in Posted, Post(m)
    PROVE  Comes(0, {m})
<1>1. queue \in Seq(Posted)
  BY DEF Typed
<1>2. /\ Len(queue') = Len(queue) + 1 /\ DOMAIN queue' = 1 .. Len(queue) + 1
      /\ \A i \in 1 .. Len(queue) : queue'[i] = queue[i]
      /\ queue'[Len(queue) + 1] = m
  BY <1>1 DEF Post
<1> QED
  BY QueueIs, <1>2 DEF Comes

LEMMA TailIs ==
    ASSUME Typed, queue # <<>>
    PROVE  /\ Tail(queue) \in Seq(Posted) /\ Len(Tail(queue)) = Len(queue) - 1
           /\ \A i \in 1 .. Len(queue) - 1 : Tail(queue)[i] = queue[i + 1]
<1>1. queue \in Seq(Posted)
  BY DEF Typed
<1> QED
  BY <1>1, QueueIs, HeadTailProperties

LEMMA QueueShrinks ==
    ASSUME Typed, queue # <<>>, queue' = Tail(queue)
    PROVE  Comes(1, {})
<1>1. DOMAIN queue' = 1 .. Len(queue) - 1 /\ \A i \in 1 .. Len(queue) - 1 : queue'[i] = queue[i + 1]
  BY TailIs
<1> QED
  BY QueueIs, <1>1 DEF Comes

LEMMA QueueTurns ==
    ASSUME Typed, NEW m \in Posted, queue # <<>>, queue' = Append(Tail(queue), m)
    PROVE  Comes(1, {m})
<1>1. /\ DOMAIN queue' = 1 .. Len(queue)
      /\ \A i \in 1 .. Len(queue) - 1 : queue'[i] = Tail(queue)[i]
      /\ queue'[Len(queue)] = m
  BY QueueIs, TailIs
<1> QED
  BY QueueIs, TailIs, <1>1 DEF Comes

\* closeInternal touches the one connection, which is open; or those inside will.
LEMMA ClosesLinks ==
    ASSUME Typed, NEW k \in Conns, CloseInternal(k)
    PROVE  /\ \A l \in Conns : \/ conn'[l] = conn[l]
                               \/ /\ l = k /\ Open(k) /\ current' # k
                                  /\ conn'[k] = IF Held(k) THEN "closed" ELSE "refused"
           /\ current' = current \/ (current = k /\ current' = NoOne /\ Open(k))
           /\ \A l \in marked : l # k => l \in marked'
           /\ unanswered' \subseteq unanswered
           /\ Open(k) => conn'[k] \in {"closed", "refused"} \/ (k \in marked' /\ UNCHANGED <<conn, current>>)
BY InitiatorConstants DEF CloseInternal, Closed, Open, Held, Typed, TypedLinks, links

LEMMA StatesLinks ==
    ASSUME Typed, NEW s, SetServiceState(s)
    PROVE  \/ UNCHANGED links /\ (s = "stopped" => state = "stopped" \/ current = NoOne)
           \/ current \in Conns /\ CloseInternal(current)
BY DEF SetServiceState, OnServiceState, Typed, TypedLinks, links

\* A connection that is asked for stays so until the request is executed.
Keeps == \A k \in Conns : conn[k] = "asked" => conn'[k] = "asked"

LEMMA ClosesKeeps ==
    ASSUME Typed
    PROVE  /\ \A k \in Conns : CloseInternal(k) => Keeps
           /\ \A s : SetServiceState(s) => Keeps
           /\ UNCHANGED conn => Keeps
<1>1. ASSUME NEW k \in Conns, CloseInternal(k) PROVE Keeps
  BY <1>1, ClosesLinks DEF Keeps, Open, Held
<1>2. UNCHANGED conn => Keeps
  BY DEF Keeps
<1> QED
  BY <1>1, <1>2, StatesLinks DEF links

\* A step that asks for no connection and takes no request from the queue.
LEMMA FreshMove ==
    ASSUME Typed, Typed', Fresh, Keeps, NEW s \in {0, 1}, NEW M, Comes(s, M), \A m \in M : m.kind # "open",
           Handles("open")' => Handles("open") /\ svc'.msg = svc.msg
    PROVE  Fresh'
<1>0. DOMAIN queue = 1 .. Len(queue) /\ Len(queue) \in Nat /\ queue \in Seq(Posted) /\ queue' \in Seq(Posted)
      /\ DOMAIN queue' = 1 .. Len(queue') /\ Len(queue') \in Nat /\ svc.msg \in Posted /\ svc'.msg \in Posted
  BY QueueIs DEF Typed, TypedService
<1>1. \A i \in DOMAIN queue' : queue'[i].kind = "open" => i + s \in DOMAIN queue /\ queue'[i] = queue[i + s]
  BY DEF Comes
<1>2. \A i \in DOMAIN queue : queue[i].kind = "open" => queue[i].conn \in Conns
  BY <1>0 DEF Posted, Linked
<1>3. \A i \in DOMAIN queue' : queue'[i].kind = "open" => conn'[queue'[i].conn] = "asked"
  BY <1>1, <1>2 DEF Fresh, Keeps
<1>4. \A i, j \in DOMAIN queue' :
         queue'[i].kind = "open" /\ queue'[j].kind = "open" /\ queue'[i].conn = queue'[j].conn => i = j
  <2> SUFFICES ASSUME NEW i \in DOMAIN queue', NEW j \in DOMAIN queue', queue'[i].kind = "open",
                      queue'[j].kind = "open", queue'[i].conn = queue'[j].conn
               PROVE  i = j
    OBVIOUS
  <2>1. i + s = j + s
    BY <1>1 DEF Fresh
  <2> QED
    BY <1>0, <2>1
<1>5. ASSUME Handles("open")' PROVE conn'[svc'.msg.conn] = "asked" /\ ~ Queued("open", svc.msg.conn)'
  <2>1. Handles("open") /\ svc'.msg = svc.msg /\ svc.msg.conn \in Conns
    BY <1>0, <1>5 DEF Posted, Linked, Handles
  <2>2. \A i \in DOMAIN queue : ~ (queue[i].kind = "open" /\ queue[i].conn = svc.msg.conn)
    BY <2>1 DEF Fresh, Queued, ToSet
  <2>3. \A i \in DOMAIN queue' : ~ (queue'[i].kind = "open" /\ queue'[i].conn = svc'.msg.conn)
    BY <1>1, <2>1, <2>2
  <2> QED
    BY <2>1, <2>3 DEF Fresh, Keeps, Queued, ToSet
<1> QED
  BY <1>3, <1>4, <1>5 DEF Fresh, Queued, Handles, Runs

LEMMA FreshStays ==
    ASSUME Typed, Typed', Fresh, Keeps, UNCHANGED queue, UNCHANGED svc \/ svc'.at # "handle"
    PROVE  Fresh'
<1>1. Handles("open")' => Handles("open") /\ svc'.msg = svc.msg
  BY DEF Handles, Runs
<1>2. Comes(0, {})
  BY QueueStays
<1> QED
  BY <1>1, <1>2, FreshMove

LEMMA FreshGrows ==
    ASSUME Typed, Typed', Fresh, Keeps, NEW m \in Posted, m.kind # "open", Post(m),
           UNCHANGED svc \/ svc'.at # "handle"
    PROVE  Fresh'
<1>1. Handles("open")' => Handles("open") /\ svc'.msg = svc.msg
  BY DEF Handles, Runs
<1>2. Comes(0, {m})
  BY QueueGrows
<1> QED
  BY <1>1, <1>2, FreshMove

LEMMA FreshShrinks ==
    ASSUME Typed, Typed', Fresh, Keeps, queue # <<>>, queue' = Tail(queue),
           UNCHANGED svc \/ svc'.at # "handle" \/ svc'.msg.kind # "open"
    PROVE  Fresh'
<1>1. Handles("open")' => Handles("open") /\ svc'.msg = svc.msg
  BY DEF Handles, Runs
<1>2. Comes(1, {})
  BY QueueShrinks
<1> QED
  BY <1>1, <1>2, FreshMove

LEMMA ClientFresh ==
    ASSUME Typed, Typed', Fresh, NEW c \in Clients, Call(c) \/ ClientStep(c) \/ GiveUp(c) \/ Timeout(c)
    PROVE  Fresh'
<1>0. job[c].at \in Waiting => job[c].conn \in Conns
  BY DEF Typed, TypedJobs
<1>1. ASSUME UNCHANGED <<queue, svc>>, Keeps PROVE Fresh'
  BY <1>1, FreshStays
<1> USE DEF states, locks, links, rest
<1>2. CASE \/ Call(c) \/ Start(c) \/ AwaitThread(c) \/ AwaitAccepting(c) \/ Stop(c) \/ SetExiting(c)
           \/ Opening(c) \/ Closing(c) \/ GiveUp(c)
  <2>1. UNCHANGED <<queue, conn>> /\ (UNCHANGED svc \/ svc' = [svc EXCEPT !.at = "enter"])
    BY <1>2 DEF Call, CallStart, CallStop, CallShutdown, CallEnsure, Begin, Start, AwaitThread,
          AwaitAccepting, Stop, SetExiting, Opening, Closing, GiveUp
  <2>2. UNCHANGED svc \/ svc'.at # "handle"
    BY <2>1 DEF Typed, TypedService
  <2> QED
    BY <2>1, <2>2, ClosesKeeps, FreshStays
<1>3. CASE Settle(c) \/ AwaitStopped(c)
  <2>1. Keeps
    BY <1>3, ClosesKeeps DEF Settle, AwaitStopped, StopLoop
  <2> QED
    BY <1>1, <1>3, <2>1 DEF Settle, AwaitStopped
<1>4. CASE Shutdown(c)
  <2>1. Keeps
    BY <1>4, ClosesKeeps DEF Shutdown, StopLoop
  <2>2. Message("shutdown", NoOne, NoOne) \in Posted /\ Message("shutdown", NoOne, NoOne).kind = "shutdown"
    BY PostedMessages DEF Kinds, Linked
  <2>3. UNCHANGED queue \/ Post(Message("shutdown", NoOne, NoOne))
    BY <1>4 DEF Shutdown
  <2>4. UNCHANGED svc
    BY <1>4 DEF Shutdown
  <2> QED
    BY <1>1, <2>1, <2>2, <2>3, <2>4, FreshGrows
<1>5. ASSUME NEW k \in Conns, Hands(c, k) PROVE Keeps
  BY <1>5 DEF Hands, Held, Keeps, Typed, TypedLinks
<1>6. CASE Ensure(c)
  <2>1. Keeps
    BY <1>5, <1>6, ClosesKeeps DEF Ensure, Typed, TypedLinks
  <2> QED
    BY <1>1, <1>6, <2>1 DEF Ensure
<1>7. CASE Connecting(c)
  <2>1. Keeps
    BY <1>0, <1>5, <1>7, ClosesKeeps DEF Connecting, Waiting, At
  <2> QED
    BY <1>1, <1>7, <2>1 DEF Connecting
<1>8. CASE Timeout(c)
  <2>1. Message("close", job[c].conn, c) \in Posted /\ Message("close", job[c].conn, c).kind = "close"
    BY <1>0, <1>8, PostedMessages DEF Timeout, At, Waiting, Kinds
  <2>2. UNCHANGED queue \/ Post(Message("close", job[c].conn, c))
    BY <1>8 DEF Timeout
  <2>3. UNCHANGED svc /\ Keeps
    BY <1>8, ClosesKeeps DEF Timeout
  <2> QED
    BY <1>1, <2>1, <2>2, <2>3, FreshGrows
<1>9. CASE Connect(c)
  <2>1. CASE UNCHANGED <<queue, conn>>
    BY <1>1, <1>9, <2>1, ClosesKeeps DEF Connect
  <2>2. ASSUME NEW k \in Conns, conn[k] = "new", conn' = [conn EXCEPT ![k] = "asked"], Post(Message("open", k, c))
        PROVE  Fresh'
    <3> DEFINE m == Message("open", k, c)
    <3>1. m \in Posted /\ m.kind = "open" /\ m.conn = k
      BY PostedMessages DEF Kinds
    <3>2. Comes(0, {m}) /\ DOMAIN queue = 1 .. Len(queue) /\ Len(queue) \in Nat
      BY <2>2, <3>1, QueueIs, QueueGrows
    <3>2a. DOMAIN queue' = 1 .. Len(queue') /\ Len(queue') \in Nat
      BY DEF Typed
    <3> HIDE DEF m
    <3>3. Keeps /\ conn'[k] = "asked"
      BY <2>2 DEF Keeps, Typed, TypedLinks
    <3>4. /\ \A i \in DOMAIN queue' : (i \in DOMAIN queue /\ queue'[i] = queue[i]) \/ (i = Len(queue) + 1 /\ queue'[i] = m)
      BY <3>2, <3>2a DEF Comes
    <3>5. \A i \in DOMAIN queue : queue[i].kind = "open" => queue[i].conn \in Conns \ {k} /\ conn'[queue[i].conn] = "asked"
      <4>1. \A i \in DOMAIN queue : queue[i].kind = "open" => queue[i].conn \in Conns
        BY DEF Typed, Posted, Linked
      <4> QED
        BY <2>2, <3>3, <4>1 DEF Fresh, Keeps
    <3>6. UNCHANGED svc
      BY <1>9 DEF Connect
    <3>7. ASSUME Handles("open") PROVE conn'[svc.msg.conn] = "asked" /\ svc.msg.conn # k
      <4>1. svc.msg.conn \in Conns
        BY <3>7 DEF Handles, Typed, TypedService, Posted, Linked
      <4> QED
        BY <2>2, <3>3, <3>7, <4>1 DEF Fresh, Keeps
    <3>8. \A i \in DOMAIN queue' : queue'[i].kind = "open" => conn'[queue'[i].conn] = "asked"
      BY <3>1, <3>3, <3>4, <3>5
    <3>9. \A i, j \in DOMAIN queue' :
             queue'[i].kind = "open" /\ queue'[j].kind = "open" /\ queue'[i].conn = queue'[j].conn => i = j
      BY <3>1, <3>4, <3>5 DEF Fresh
    <3>10. Handles("open") => ~ Queued("open", svc.msg.conn)'
      BY <3>1, <3>4, <3>6, <3>7 DEF Fresh, Queued, ToSet
    <3> QED
      BY <3>6, <3>7, <3>8, <3>9, <3>10 DEF Fresh, Handles, Runs, Queued
  <2> QED
    BY <1>9, <2>1, <2>2 DEF Connect
<1> QED
  BY <1>2, <1>3, <1>4, <1>6, <1>7, <1>8, <1>9 DEF ClientStep

LEMMA ServiceFresh ==
    ASSUME Typed, Typed', Fresh, ServiceStep
    PROVE  Fresh'
<1>0. \A p : Becomes(p) => svc'.at = p
  BY DEF Typed, TypedService, Becomes
<1>1. ASSUME UNCHANGED queue, Keeps, UNCHANGED svc \/ svc'.at # "handle" PROVE Fresh'
  BY <1>1, FreshStays
<1> USE DEF states, locks, links, rest
<1>2. CASE \/ Enter \/ Ready \/ Quit \/ ShutdownThrows \/ OnException \/ StopMyself \/ SetMyselfExiting
           \/ Finally \/ Exited
  BY <1>0, <1>1, <1>2, ClosesKeeps DEF Enter, Ready, Quit, ShutdownThrows, OnException, Resume, StopMyself,
        SetMyselfExiting, Finally, Exited
<1>3. CASE EnterState \/ Startup \/ NotifyShutdown \/ SettleMyself \/ Exit
  <2>1. Keeps
    BY <1>3, ClosesKeeps DEF EnterState, Startup, NotifyShutdown, SettleMyself, Exit
  <2>2. UNCHANGED queue /\ svc'.at # "handle"
    BY <1>0, <1>3 DEF EnterState, Startup, NotifyShutdown, SettleMyself, Exit, Resume, AfterStopping
  <2> QED
    BY <1>1, <2>1, <2>2
<1>4. CASE EnterSend
  <2>1. Message("startup", NoOne, NoOne) \in Posted /\ Message("startup", NoOne, NoOne).kind = "startup"
    BY PostedMessages DEF Kinds, Linked
  <2>2. svc'.at # "handle" /\ Keeps /\ Post(Message("startup", NoOne, NoOne))
    BY <1>0, <1>4, ClosesKeeps DEF EnterSend
  <2> QED
    BY <2>1, <2>2, FreshGrows
<1>6. CASE Settles \/ Fatal
  BY <1>6, ClosesKeeps, FreshShrinks DEF Settles, Fatal, Takes, Taking
<1>7. CASE Refuse \/ Accept
  <2>1. queue # <<>> /\ Head(queue).kind \in {"refuse", "accept"} /\ Deliverable(Head(queue))
    BY <1>7 DEF Refuse, Accept, Takes, Taking
  <2>2. Head(queue).conn \in Conns /\ Open(Head(queue).conn)
    BY <2>1, QueueIs DEF Posted, Linked, Deliverable, OfConnection
  <2>3. Keeps
    BY <1>7, <2>2, ClosesKeeps DEF Refuse, Accept, Keeps, Open, Held, Typed, TypedLinks
  <2> QED
    BY <1>7, <2>1, <2>3, FreshShrinks DEF Refuse, Accept
<1>8. CASE CloseConnection
  <2>1. queue # <<>> /\ Head(queue).kind = "close" /\ Head(queue).conn \in Conns /\ Head(queue) \in Posted
    BY <1>8, QueueIs DEF CloseConnection, Takes, Taking, Posted, Linked
  <2>2. Keeps /\ UNCHANGED svc
    BY <1>8, <2>1, ClosesKeeps DEF CloseConnection
  <2> DEFINE m == Message("answered", Head(queue).conn, Head(queue).who)
  <2>3. m \in Posted /\ m.kind = "answered"
    BY <2>1, PostedMessages DEF Posted, Messages, Kinds
  <2>4. queue' = Tail(queue) \/ queue' = Append(Tail(queue), m)
    BY <1>8 DEF CloseConnection
  <2>5. CASE queue' = Append(Tail(queue), m)
    <3>1. Comes(1, {m}) /\ \A n \in {m} : n.kind # "open"
      BY <2>1, <2>3, <2>5, QueueTurns
    <3>2. Handles("open")' => Handles("open") /\ svc'.msg = svc.msg
      BY <2>2 DEF Handles, Runs
    <3> HIDE DEF m
    <3> QED
      BY <2>2, <3>1, <3>2, FreshMove
  <2> QED
    BY <2>1, <2>2, <2>4, <2>5, FreshShrinks
<1>9. CASE OpenConnection
  <2> DEFINE k == svc.msg.conn
             m(a) == Message(a, k, svc.msg.who)
  <2>1. k \in Conns /\ svc.msg.who \in Clients \cup {NoOne}
    BY <1>9 DEF OpenConnection, Handles, Typed, TypedService, Posted, Messages, Linked
  <2>2. PICK a \in {"answered", "failed"}, s \in {"cut", "sent", "refused"} : Post(m(a)) /\ conn' = [conn EXCEPT ![k] = s]
    BY <1>9 DEF OpenConnection
  <2>3. m(a) \in Posted /\ m(a).kind = a
    BY <2>1, PostedMessages DEF Kinds
  <2>4. Comes(0, {m(a)}) /\ DOMAIN queue = 1 .. Len(queue) /\ Len(queue) \in Nat
    BY <2>2, <2>3, QueueIs, QueueGrows
  <2>5. svc'.at # "handle" /\ Handles("open")
    BY <1>0, <1>9 DEF OpenConnection
  <2>6. DOMAIN queue' = 1 .. Len(queue') /\ Len(queue') \in Nat
    BY DEF Typed
  <2> HIDE DEF m
  <2>7. \A i \in DOMAIN queue' : queue'[i].kind = "open" => i \in DOMAIN queue /\ queue'[i] = queue[i]
    BY <2>3, <2>4, <2>6 DEF Comes
  <2>8. \A i \in DOMAIN queue : queue[i].kind = "open" => queue[i].conn \in Conns \ {k}
    BY <2>5 DEF Fresh, Queued, ToSet, Typed, Posted, Linked
  <2>9. \A i \in DOMAIN queue' : queue'[i].kind = "open" => conn'[queue'[i].conn] = "asked"
    BY <2>2, <2>7, <2>8 DEF Fresh, Typed, TypedLinks
  <2> QED
    BY <2>5, <2>7, <2>9 DEF Fresh, Handles, Runs
<1>10. CASE Take
  <2>1. queue # <<>> /\ queue' = Tail(queue) /\ Keeps
    BY <1>10, ClosesKeeps DEF Take, Taking
  <2>2. CASE UNCHANGED svc
    BY <2>1, <2>2, FreshShrinks
  <2>3. CASE svc' = [at |-> "handle", msg |-> Head(queue)]
    <3>1. CASE Head(queue).kind # "open"
      BY <2>1, <2>3, <3>1, FreshShrinks
    <3>2. CASE Head(queue).kind = "open"
      <4> DEFINE k == Head(queue).conn
      <4>1. /\ DOMAIN queue = 1 .. Len(queue) /\ Len(queue) \in Nat /\ Len(queue) >= 1 /\ Head(queue) = queue[1]
            /\ Comes(1, {})
        BY <2>1, QueueIs, QueueShrinks
      <4>2. DOMAIN queue' = 1 .. Len(queue') /\ Len(queue') \in Nat
        BY DEF Typed
      <4>3. \A i \in DOMAIN queue' : i + 1 \in DOMAIN queue /\ queue'[i] = queue[i + 1]
        BY <4>1 DEF Comes
      <4>4. conn[k] = "asked" /\ UNCHANGED conn
        BY <1>10, <3>2, <4>1 DEF Take, Fresh
      <4>5. \A i \in DOMAIN queue' : ~ (queue'[i].kind = "open" /\ queue'[i].conn = k)
        BY <3>2, <4>1, <4>2, <4>3 DEF Fresh
      <4>6. \A i, j \in DOMAIN queue' :
               queue'[i].kind = "open" /\ queue'[j].kind = "open" /\ queue'[i].conn = queue'[j].conn => i = j
        <5> SUFFICES ASSUME NEW i \in DOMAIN queue', NEW j \in DOMAIN queue', queue'[i].kind = "open",
                            queue'[j].kind = "open", queue'[i].conn = queue'[j].conn
                     PROVE  i = j
          OBVIOUS
        <5>1. i + 1 = j + 1
          BY <4>3 DEF Fresh
        <5> QED
          BY <4>2, <5>1
      <4>7. svc'.msg.conn = k
        BY <2>3
      <4> QED
        BY <4>3, <4>4, <4>5, <4>6, <4>7 DEF Fresh, Queued, ToSet
    <3> QED
      BY <3>1, <3>2
  <2> QED
    BY <1>10, <2>2, <2>3 DEF Take
<1> QED
  BY <1>2, <1>3, <1>4, <1>6, <1>7, <1>8, <1>9, <1>10 DEF ServiceStep

LEMMA EnvironmentFresh ==
    ASSUME Typed, Typed', Fresh, Environment
    PROVE  Fresh'
<1>1. PICK k \in Conns, kind \in {"close", "accept", "refuse"} : Post(Message(kind, k, NoOne))
  BY DEF Environment, Leave, Lose, Answer
<1>2. Message(kind, k, NoOne) \in Posted /\ Message(kind, k, NoOne).kind = kind
  BY PostedMessages DEF Kinds
<1>3. UNCHANGED svc /\ Keeps
  BY ClosesKeeps DEF Environment, Leave, Lose, Answer, links
<1> QED
  BY <1>1, <1>2, <1>3, FreshGrows

-----------------------------------------------------------------------------
(***************************************************************************)
(* The connection that is reported.                                        *)
(***************************************************************************)
LEMMA ClosesCurrent ==
    ASSUME Typed, Current, NEW k \in Conns, CloseInternal(k), UNCHANGED state
    PROVE  Current'
BY ClosesLinks DEF Current, Held, Open, Typed, TypedLinks

LEMMA StatesCurrent ==
    ASSUME Typed, Current, NEW s \in {"starting", "started", "stopping", "stopped"}, SetServiceState(s)
    PROVE  Current'
<1>1. state' = s /\ (state = "stopped" => s = "stopped")
  BY StatesMove
<1>2. CASE UNCHANGED links /\ (s = "stopped" => state = "stopped" \/ current = NoOne)
  BY <1>1, <1>2 DEF Current, Held, links
<1>3. CASE current \in Conns /\ CloseInternal(current)
  BY <1>1, <1>3, ClosesLinks, InitiatorConstants DEF Current, Held, Open, Typed, TypedLinks
<1> QED
  BY <1>2, <1>3, StatesLinks

LEMMA SameCurrent ==
    ASSUME Current, UNCHANGED links, UNCHANGED state \/ state' # "stopped"
    PROVE  Current'
BY DEF Current, Held, links

LEMMA ClientCurrent ==
    ASSUME Typed, Current, NEW c \in Clients, Call(c) \/ ClientStep(c) \/ GiveUp(c) \/ Timeout(c)
    PROVE  Current'
<1> USE DEF states, locks, links
<1>1. CASE \/ Call(c) \/ Start(c) \/ AwaitThread(c) \/ AwaitAccepting(c) \/ Stop(c) \/ SetExiting(c)
           \/ Opening(c) \/ Closing(c) \/ GiveUp(c) \/ Timeout(c)
  BY <1>1, SameCurrent DEF Call, CallStart, CallStop, CallShutdown, CallEnsure, Begin, Start, AwaitThread,
        AwaitAccepting, Stop, SetExiting, Opening, Closing, GiveUp, Timeout
<1>2. CASE Settle(c) \/ Shutdown(c) \/ AwaitStopped(c)
  BY <1>2, SameCurrent, StatesCurrent DEF Settle, Shutdown, AwaitStopped, StopLoop
<1>3. ASSUME NEW k \in Conns, Hands(c, k), UNCHANGED <<state, current, marked>> PROVE Current'
  BY <1>3 DEF Current, Hands, Held, Typed, TypedLinks
<1>4. CASE Ensure(c)
  BY <1>3, <1>4, SameCurrent DEF Ensure, Typed, TypedLinks
<1>5. CASE Connecting(c)
  <2>1. job[c].conn \in Conns
    BY <1>5 DEF Connecting, At, Waiting, Typed, TypedJobs
  <2> QED
    BY <1>3, <1>5, <2>1, SameCurrent DEF Connecting
<1>6. CASE Connect(c)
  <2>1. CASE UNCHANGED conn
    BY <1>6, <2>1, SameCurrent DEF Connect
  <2>2. ASSUME NEW k \in Conns, conn[k] = "new", conn' = [conn EXCEPT ![k] = "asked"] PROVE Current'
    BY <1>6, <2>2 DEF Connect, Current, Held, Typed, TypedLinks
  <2> QED
    BY <1>6, <2>1, <2>2 DEF Connect
<1> QED
  BY <1>1, <1>2, <1>4, <1>5, <1>6 DEF ClientStep

LEMMA ServiceCurrent ==
    ASSUME Typed, Lives, Fresh, Current, ServiceStep
    PROVE  Current'
<1> USE DEF states, locks, links
<1>1. CASE \/ Enter \/ EnterSend \/ Ready \/ Take \/ Quit \/ ShutdownThrows \/ Settles \/ Fatal \/ OnException
           \/ StopMyself \/ SetMyselfExiting \/ Finally \/ Exited
  BY <1>1, SameCurrent DEF Enter, EnterSend, Ready, Take, Quit, ShutdownThrows, Settles, Fatal, OnException,
        StopMyself, SetMyselfExiting, Finally, Exited
<1>2. CASE EnterState \/ Startup \/ NotifyShutdown \/ SettleMyself \/ Exit
  BY <1>2, SameCurrent, StatesCurrent DEF EnterState, Startup, NotifyShutdown, SettleMyself, Exit
<1>3. CASE CloseConnection \/ Refuse
  <2>1. Head(queue).conn \in Conns
    BY <1>3, QueueIs DEF CloseConnection, Refuse, Takes, Taking, Posted, Linked
  <2> QED
    BY <1>3, <2>1, ClosesCurrent DEF CloseConnection, Refuse
<1>4. CASE Accept
  <2>1. Head(queue).conn \in Conns
    BY <1>4, QueueIs DEF Accept, Takes, Taking, Posted, Linked
  <2>2. svc.at = "loop" /\ daemon # "exiting"
    BY <1>4 DEF Accept, Takes, Taking, Runs
  <2>3. state # "stopped"
    BY <2>2 DEF Lives
  <2> QED
    BY <1>4, <2>1, <2>3 DEF Accept, Current, Held, Typed, TypedLinks
<1>5. CASE OpenConnection
  <2>1. svc.msg.conn \in Conns /\ conn[svc.msg.conn] = "asked"
    BY <1>5 DEF OpenConnection, Fresh, Handles, Typed, TypedService, Posted, Linked
  <2>2. current # svc.msg.conn /\ current \in Conns \cup {NoOne}
    BY <2>1, InitiatorConstants DEF Current, Held, Typed, TypedLinks
  <2>3. \E s : conn' = [conn EXCEPT ![svc.msg.conn] = s]
    BY <1>5 DEF OpenConnection
  <2>4. current # NoOne => conn'[current] = conn[current]
    BY <2>1, <2>2, <2>3 DEF Typed, TypedLinks
  <2> QED
    BY <1>5, <2>4 DEF OpenConnection, Current, Held
<1> QED
  BY <1>1, <1>2, <1>3, <1>4, <1>5 DEF ServiceStep

LEMMA EnvironmentCurrent ==
    ASSUME Current, Environment
    PROVE  Current'
BY DEF Environment, Leave, Lose, Answer, Current, Held, states, links

\* The part of the invariant that says what the service thread leaves behind.
Settled == Sound /\ Fresh /\ Current

LEMMA InitSettled == Init => Settled
<1> SUFFICES ASSUME Init PROVE Settled
  OBVIOUS
<1>1. Fresh
  BY DEF Init, Fresh, Handles, Runs
<1>2. Current
  BY DEF Init, Current
<1> QED
  BY <1>1, <1>2, InitSound DEF Settled

LEMMA StepSettled == Settled /\ [Next]_vars => Settled'
<1> SUFFICES ASSUME Settled, [Next]_vars PROVE Settled'
  OBVIOUS
<1>1. Sound' /\ Typed /\ Typed' /\ Lives /\ Fresh /\ Current
  BY StepSound DEF Settled, Sound
<1>2. CASE UNCHANGED vars
  BY <1>1, <1>2 DEF vars, links, states, Fresh, Current, Handles, Runs, Queued, Held, Settled
<1>3. ASSUME NEW c \in Clients, Call(c) \/ ClientStep(c) \/ GiveUp(c) \/ Timeout(c) PROVE Settled'
  BY <1>1, <1>3, ClientFresh, ClientCurrent DEF Settled
<1>4. CASE ServiceStep
  BY <1>1, <1>4, ServiceFresh, ServiceCurrent DEF Settled
<1>5. CASE Environment
  BY <1>1, <1>5, EnvironmentFresh, EnvironmentCurrent DEF Settled
<1> QED
  BY <1>2, <1>3, <1>4, <1>5 DEF Next

LEMMA AlwaysSettled == Spec => []Settled
BY InitSettled, StepSettled, PTL DEF Spec

\* After runFinally the service is stopped, no caller waits for an answer, and the
\* connection was closed by onServiceStopped, or is left to the clients inside.
THEOREM ExitedIsCleanHolds == Spec => []ExitedIsClean
<1>1. Settled => ExitedIsClean
  <2> SUFFICES ASSUME Settled, daemon = "exited"
               PROVE  /\ state = "stopped" /\ ~ accepting /\ ~ internal
                      /\ \A c \in Clients : job[c].ask # "asked"
                      /\ current # NoOne => current \in marked
    BY DEF ExitedIsClean
  <2>1. svc.at = "dead" /\ monitor = NoOne /\ state = "stopped" /\ ~ accepting /\ ~ internal
    BY DEF Settled, Sound, Lives
  <2>2. ASSUME NEW c \in Clients PROVE job[c].ask # "asked"
    <3>1. monitor # c
      BY <2>1, InitiatorConstants
    <3>2. job[c].at \notin Waiting
      BY <3>1 DEF Settled, Sound, Holds
    <3> QED
      BY <3>2 DEF Settled, Sound, Typed, TypedJobs, Waiting
  <2> QED
    BY <2>1, <2>2 DEF Settled, Current
<1> QED
  BY <1>1, AlwaysSettled, PTL

-----------------------------------------------------------------------------
(***************************************************************************)
(* What a step may do to a connection, and what that leaves as it was.     *)
(***************************************************************************)
\* A connection does not go back: not to before it was asked for, and not from one
\* that was cut or refused to one that was accepted, nor the other way.
Ages ==
    \A k \in Conns :
        /\ conn[k] \notin {"new", "asked"} => conn'[k] \notin {"new", "asked"}
        /\ conn[k] \notin {"new", "asked", "cut"} => conn'[k] # "cut"
        /\ conn[k] \in {"cut", "refused"} => conn'[k] \in {"cut", "refused"}
        /\ conn[k] \in {"held", "used", "closed"} => conn'[k] \in {"held", "used", "closed"}

LEMMA HandsLinks ==
    ASSUME Typed, NEW c \in Clients, NEW k \in Conns, Hands(c, k)
    PROVE  /\ Ages /\ \A l \in Conns : Held(l)' <=> Held(l)
           /\ \A l \in Conns : conn'[l] \in {"new", "asked", "sent", "cut", "closed"}
                               \/ conn[l] \in {"new", "asked", "sent", "cut", "closed"} => conn'[l] = conn[l]
BY DEF Hands, Held, Ages, Typed, TypedLinks

LEMMA ClosesAges ==
    ASSUME Typed
    PROVE  /\ \A k \in Conns : CloseInternal(k) => Ages
           /\ UNCHANGED conn => Ages
<1>1. ASSUME NEW k \in Conns, CloseInternal(k) PROVE Ages
  BY <1>1, ClosesLinks DEF Ages, Open, Held
<1>2. UNCHANGED conn => Ages
  BY DEF Ages
<1> QED
  BY <1>1, <1>2

\* A message that may be sent: it tells of a connection what has happened to it.
Tells(m) == /\ m.kind # "open"
            /\ m.kind \in Linked => conn'[m.conn] \notin {"new", "asked"}
            /\ m.kind = "accept" => conn'[m.conn] # "cut"
            /\ m.kind = "failed" => conn'[m.conn] \in {"cut", "refused"}

LEMMA PastMove ==
    ASSUME Typed, Typed', Past, Ages, NEW s \in {0, 1}, NEW M, Comes(s, M), \A m \in M : m.kind = "open" \/ Tells(m),
           \A k \in unanswered' : k \in unanswered \/ conn'[k] = "sent",
           \A k \in marked' : k \in marked \/ conn'[k] = "used"
    PROVE  Past'
<1>1. /\ DOMAIN queue = 1 .. Len(queue) /\ Len(queue) \in Nat /\ DOMAIN queue' = 1 .. Len(queue') /\ Len(queue') \in Nat
      /\ \A i \in DOMAIN queue : queue[i] \in Posted
  BY DEF Typed
<1>2. \A i \in DOMAIN queue : queue[i].kind \in Linked => queue[i].conn \in Conns
  BY <1>1 DEF Posted
<1>3. ASSUME NEW i \in DOMAIN queue'
      PROVE  /\ queue'[i].kind \in Linked \ {"open"} => conn'[queue'[i].conn] \notin {"new", "asked"}
             /\ queue'[i].kind = "accept" => conn'[queue'[i].conn] # "cut"
             /\ queue'[i].kind = "failed" => conn'[queue'[i].conn] \in {"cut", "refused"}
  <2>1. CASE i + s \in DOMAIN queue /\ queue'[i] = queue[i + s]
    BY <1>2, <2>1 DEF Past, Ages, Linked
  <2>2. CASE queue'[i] \in M
    BY <2>2 DEF Tells
  <2> QED
    BY <2>1, <2>2 DEF Comes
<1>4. \A k \in unanswered' : conn'[k] \notin {"new", "asked", "cut"}
  BY DEF Past, Ages, Typed, TypedLinks
<1>5. \A k \in marked' : conn'[k] \notin {"new", "asked"}
  BY DEF Past, Ages, Typed, TypedLinks
<1> QED
  BY <1>3, <1>4, <1>5 DEF Past

LEMMA OpenerMove ==
    ASSUME Opener, Typed, internal' => internal, late \subseteq late',
           \A k \in Conns : conn'[k] = "asked" => conn[k] = "asked",
           \A c \in Clients : job[c].at = "opening" /\ job[c].ask = "asked" /\ conn'[job[c].conn] = "asked" =>
               \/ job'[c].at = "opening" /\ job'[c].ask = "asked" /\ job'[c].conn = job[c].conn
               \/ job[c].conn \in late' \/ ~ internal'
    PROVE  Opener'
BY DEF Opener

LEMMA RefusalMove ==
    ASSUME Refusal, Typed, Ages, internal' => internal,
           \A c \in Clients : job'[c].at = "opening" /\ job'[c].ask = "failed" =>
               \/ job[c].at = "opening" /\ job[c].ask = "failed" /\ job'[c].conn = job[c].conn
               \/ ~ internal' \/ conn'[job'[c].conn] \in {"cut", "refused"}
    PROVE  Refusal'
BY DEF Refusal, Ages, Typed, TypedJobs, Waiting

LEMMA SpoiledMove ==
    ASSUME Spoiled, Typed, Ages, late \subseteq late'
    PROVE  Spoiled'
BY DEF Spoiled, Ages, Held, Typed, TypedRest

\* No connection is sent.
Wanes == \A k \in Conns : Live(k)' => Live(k)

LEMMA SingleMove == ASSUME Single, Wanes PROVE Single'
BY DEF Single, Wanes

LEMMA QueuedMove ==
    ASSUME Typed, Typed', NEW s \in {0, 1}, NEW M, Comes(s, M), NEW kind, NEW k, Queued(kind, k),
           s = 1 => queue[1].kind # kind \/ queue[1].conn # k
    PROVE  Queued(kind, k)'
<1>1. DOMAIN queue = 1 .. Len(queue) /\ Len(queue) \in Nat
  BY QueueIs
<1>2. PICK i \in DOMAIN queue : queue[i].kind = kind /\ queue[i].conn = k
  BY DEF Queued, ToSet
<1>3. i > s
  BY <1>1, <1>2
<1>4. i - s \in DOMAIN queue' /\ queue'[i - s] = queue[i]
  BY <1>3 DEF Comes
<1> QED
  BY <1>2, <1>4 DEF Queued, ToSet

LEMMA AbandonedMove ==
    ASSUME Typed, Typed', Abandoned, internal' => internal, NEW s \in {0, 1}, NEW M, Comes(s, M),
           s = 1 /\ internal => queue[1].kind # "close",
           \A k \in Conns : Live(k)' /\ ~ Owned(k)' /\ (conn'[k] = "sent" \/ monitor' \in Clients) =>
               /\ Live(k) /\ ~ Owned(k) /\ (conn[k] = "sent" \/ monitor \in Clients)
               /\ conn[k] # "used" => conn'[k] # "used"
    PROVE  Abandoned'
BY QueuedMove DEF Abandoned

LEMMA TurnMove ==
    ASSUME Typed, Typed', Turn, Wanes, internal' => internal, late \subseteq late',
           NEW s \in {0, 1}, NEW M, Comes(s, M),
           s = 1 /\ internal => queue[1].kind # "close", \A m \in M : m.kind # "open",
           Handles("open")' => Handles("open") /\ svc'.msg = svc.msg
    PROVE  Turn'
<1>1. /\ DOMAIN queue = 1 .. Len(queue) /\ Len(queue) \in Nat /\ DOMAIN queue' = 1 .. Len(queue') /\ Len(queue') \in Nat
  BY DEF Typed
<1>2. ASSUME NEW i \in DOMAIN queue', queue'[i].kind = "open", queue'[i].conn \notin late', internal',
             NEW k \in Conns, Live(k)'
      PROVE  \E j \in DOMAIN queue' : j < i /\ queue'[j].kind = "close" /\ queue'[j].conn = k
  <2>1. i + s \in DOMAIN queue /\ queue'[i] = queue[i + s]
    BY <1>2 DEF Comes
  <2>2. PICK j \in DOMAIN queue : j < i + s /\ queue[j].kind = "close" /\ queue[j].conn = k
    BY <1>2, <2>1 DEF Turn, Wanes
  <2>3. j > s
    BY <1>1, <1>2, <2>2
  <2>4. j - s \in DOMAIN queue' /\ queue'[j - s] = queue[j] /\ j - s < i
    BY <1>1, <2>2, <2>3 DEF Comes
  <2> QED
    BY <2>2, <2>4
<1>3. ASSUME Handles("open")', svc'.msg.conn \notin late', NEW k \in Conns PROVE ~ Live(k)'
  BY <1>3 DEF Turn, Wanes
<1> QED
  BY <1>2, <1>3 DEF Turn, Handles, Runs

\* What the invariant promises as long as nobody who gave up was answered.
Promise == Abandoned /\ Turn /\ Single /\ Reported

LEMMA FateIs == Fate <=> Past /\ Nascent /\ Opener /\ Refusal /\ (~ Spoiled => Promise)
BY DEF Fate, Promise

(***************************************************************************)
(* Steps that neither open nor accept a connection, and that no caller of  *)
(* openConnection takes.                                                   *)
(***************************************************************************)
CalmLinks == \/ \E k \in Conns : CloseInternal(k)
             \/ UNCHANGED <<conn, current>> /\ unanswered' \subseteq unanswered /\ marked' \subseteq marked

CalmJobs ==
    \A c \in Clients :
        /\ {job[c].at, job'[c].at} \cap {"opening", "connecting"} # {} =>
              job'[c].at = job[c].at /\ job'[c].conn = job[c].conn
        /\ job'[c].at \in Waiting => job[c].at \in Waiting
        /\ job[c].at = "opening" /\ job[c].ask = "asked" =>
              job'[c].ask = "asked" \/ conn[job[c].conn] # "asked" \/ ~ internal'
        /\ job[c].at = "opening" /\ job'[c].ask = "failed" =>
              job[c].ask = "failed" \/ ~ internal' \/ conn[job[c].conn] \in {"cut", "refused"}

CalmRest == /\ late' = late /\ (internal' => internal)
            /\ monitor' \in Clients => monitor' = monitor
            /\ Handles("open")' => Handles("open") /\ svc'.msg = svc.msg
            /\ svc'.at \in {"none", "enter"} => svc.at \in {"none", "enter"}

LEMMA CalmConns ==
    ASSUME Typed, CalmLinks
    PROVE  /\ Ages
           /\ \A k \in Conns : conn'[k] = conn[k] \/ (Open(k) /\ conn'[k] \in {"closed", "refused"})
           /\ \A k \in Conns : (conn'[k] = conn[k] /\ (current' = k <=> current = k)) \/ (~ Held(k)' /\ current' # k)
           /\ \A k \in unanswered' : k \in unanswered \/ conn'[k] = "sent"
           /\ \A k \in marked' : k \in marked \/ conn'[k] = "used"
<1>1. CASE UNCHANGED <<conn, current>> /\ unanswered' \subseteq unanswered /\ marked' \subseteq marked
  BY <1>1, ClosesAges
<1>2. ASSUME NEW k \in Conns, CloseInternal(k)
      PROVE  /\ \A l \in Conns : conn'[l] = conn[l] \/ (Open(l) /\ conn'[l] \in {"closed", "refused"})
             /\ \A l \in Conns : (conn'[l] = conn[l] /\ (current' = l <=> current = l)) \/ (~ Held(l)' /\ current' # l)
             /\ unanswered' \subseteq unanswered
             /\ \A l \in marked' : l \in marked \/ conn'[l] = "used"
             /\ Ages
  <2>1. Ages
    BY <1>2, ClosesAges
  <2>2. unanswered' \subseteq unanswered /\ \A l \in marked' : l \in marked \/ conn'[l] = "used"
    BY <1>2 DEF CloseInternal, links
  <2>3. \A l \in Conns : conn'[l] = conn[l] \/ (Open(l) /\ conn'[l] \in {"closed", "refused"})
    BY <1>2, ClosesLinks
  <2>4. \A l \in Conns : (conn'[l] = conn[l] /\ (current' = l <=> current = l)) \/ (~ Held(l)' /\ current' # l)
    <3>1. CASE UNCHANGED <<conn, current>>
      BY <3>1
    <3>2. CASE conn' = Closed(k) /\ current' = IF current = k THEN NoOne ELSE current
      BY <3>2, InitiatorConstants DEF Closed, Held, Typed, TypedLinks
    <3> QED
      BY <1>2, <3>1, <3>2 DEF CloseInternal, links
  <2> QED
    BY <2>1, <2>2, <2>3, <2>4
<1> QED
  BY <1>1, <1>2 DEF CalmLinks

LEMMA CalmParts ==
    ASSUME Typed, Typed', Fate, CalmLinks, CalmJobs, CalmRest, NEW s \in {0, 1}, NEW M, Comes(s, M),
           \A m \in M : Tells(m)
    PROVE  /\ Past' /\ Nascent' /\ Opener' /\ Refusal'
           /\ ~ Spoiled' => ~ Spoiled /\ Promise /\ Wanes /\ Single' /\ Reported'
           /\ \A k \in Conns : Live(k)' => conn'[k] = conn[k]
           /\ \A k \in Conns : Owned(k) => Owned(k)'
<1>0. /\ Past /\ Nascent /\ Opener /\ Refusal /\ (~ Spoiled => Promise)
      /\ Ages /\ \A k \in Conns : conn'[k] = conn[k] \/ (Open(k) /\ conn'[k] \in {"closed", "refused"})
  BY FateIs, CalmConns
<1>1. Past'
  BY <1>0, CalmConns, PastMove
<1>2. Nascent'
  BY <1>0 DEF Nascent, CalmJobs, CalmRest, Open, Held
<1>3. Opener'
  <2>1. ASSUME NEW c \in Clients, job[c].at = "opening", job[c].ask = "asked", conn'[job[c].conn] = "asked"
        PROVE  \/ job'[c].at = "opening" /\ job'[c].ask = "asked" /\ job'[c].conn = job[c].conn
               \/ ~ internal'
    <3>1. job[c].conn \in Conns
      BY <2>1 DEF Waiting, Typed, TypedJobs
    <3>2. conn[job[c].conn] = "asked"
      BY <1>0, <2>1, <3>1
    <3> QED
      BY <2>1, <3>2 DEF CalmJobs, Waiting
  <2>2. \A k \in Conns : conn'[k] = "asked" => conn[k] = "asked"
    BY <1>0
  <2> QED
    BY <1>0, <2>1, <2>2, OpenerMove DEF CalmRest
<1>4. Refusal'
  <2>1. ASSUME NEW c \in Clients, job'[c].at = "opening", job'[c].ask = "failed"
        PROVE  \/ job[c].at = "opening" /\ job[c].ask = "failed" /\ job'[c].conn = job[c].conn
               \/ ~ internal' \/ conn'[job'[c].conn] \in {"cut", "refused"}
    <3>1. job[c].at = "opening" /\ job'[c].conn = job[c].conn /\ job[c].conn \in Conns
      BY <2>1 DEF CalmJobs, Waiting, Typed, TypedJobs
    <3> QED
      BY <1>0, <2>1, <3>1 DEF CalmJobs, Ages
  <2> QED
    BY <1>0, <2>1, RefusalMove DEF CalmRest
<1>5. ASSUME ~ Spoiled' PROVE ~ Spoiled /\ Promise /\ Wanes /\ Single' /\ Reported'
  <2>1. ~ Spoiled /\ Promise
    BY <1>0, <1>5, SpoiledMove DEF CalmRest
  <2>2. Wanes
    BY <1>0 DEF Wanes, Live, CalmRest, Open, Held
  <2>3. Single'
    BY <2>1, <2>2, SingleMove DEF Promise
  <2>4. Reported'
    <3>1. \A k \in Conns : Held(k) <=> current = k
      BY <2>1 DEF Promise, Reported, Spoiled, Typed, TypedRest
    <3>2. \A k \in Conns : Held(k)' <=> current' = k
      BY <3>1, CalmConns DEF Held
    <3> QED
      BY <3>2 DEF Reported
  <2> QED
    BY <2>1, <2>2, <2>3, <2>4
<1>6. \A k \in Conns : Live(k)' => conn'[k] = conn[k]
  BY <1>0 DEF Live
<1>7. \A k \in Conns : Owned(k) => Owned(k)'
  BY DEF Owned, CalmJobs, Waiting
<1> QED
  BY <1>1, <1>2, <1>3, <1>4, <1>5, <1>6, <1>7

LEMMA CalmFate ==
    ASSUME Typed, Typed', Fate, CalmLinks, CalmJobs, CalmRest, NEW s \in {0, 1}, NEW M, Comes(s, M),
           \A m \in M : Tells(m), s = 1 /\ internal => queue[1].kind # "close"
    PROVE  Fate'
<1>1. Past' /\ Nascent' /\ Opener' /\ Refusal'
  BY CalmParts
<1>2. ASSUME ~ Spoiled' PROVE Promise'
  <2>1. ~ Spoiled /\ Promise /\ Wanes /\ Single' /\ Reported'
    BY <1>2, CalmParts
  <2>2. Turn'
    BY <2>1, TurnMove DEF Promise, CalmRest, Tells
  <2>3. Abandoned'
    <3>1. ASSUME NEW k \in Conns, Live(k)', ~ Owned(k)', conn'[k] = "sent" \/ monitor' \in Clients
          PROVE  /\ Live(k) /\ ~ Owned(k) /\ (conn[k] = "sent" \/ monitor \in Clients)
                 /\ conn[k] # "used" => conn'[k] # "used"
      <4>1. conn'[k] = conn[k] /\ ~ Owned(k)
        BY <3>1, CalmParts
      <4> QED
        BY <2>1, <3>1, <4>1 DEF CalmRest, Wanes
    <3> QED
      BY <2>1, <3>1, AbandonedMove DEF Promise, CalmRest
  <2> QED
    BY <2>1, <2>2, <2>3 DEF Promise
<1> QED
  BY <1>1, <1>2 DEF Fate, Promise

LEMMA QuietJobs ==
    ASSUME NEW c \in Clients, Others(c), job[c].at \notin {"opening", "connecting"}, job'[c].at \notin Waiting
    PROVE  CalmJobs
BY DEF CalmJobs, Others, Waiting

LEMMA StatesCalm ==
    ASSUME Typed, NEW s, SetServiceState(s)
    PROVE  CalmLinks
BY StatesLinks DEF CalmLinks, links

LEMMA QuietFate ==
    ASSUME Sound, Sound', Fate, NEW c \in Clients,
           \/ Call(c) \/ Start(c) \/ AwaitThread(c) \/ AwaitAccepting(c) \/ Settle(c) \/ Stop(c) \/ SetExiting(c)
           \/ Shutdown(c) \/ AwaitStopped(c) \/ Closing(c) \/ (GiveUp(c) /\ At(c, "closing"))
    PROVE  Fate'
<1>0. TypeOK /\ Typed /\ Typed'
  BY TypedIs DEF Sound
<1>a. /\ {"start", "starting", "accepting", "settle", "stop", "mark", "shutdown", "stopping", "ensure"} \subseteq Places
      /\ {"start", "starting", "accepting", "settle", "stop", "mark", "shutdown", "stopping", "ensure", "idle"}
            \cap Waiting = {}
  BY DEF Places, Waiting
<1>b. \A m : m \in Posted /\ m.kind \notin Linked => Tells(m)
  BY DEF Tells, Linked
<1> USE DEF states, locks, rest
<1>1. Others(c) /\ job[c].at \notin {"opening", "connecting"} /\ job'[c].at \notin Waiting
  <2>1. ASSUME NEW p \in Places \ Waiting, Goes(c, p) \/ Begin(c, p) PROVE Others(c) /\ job'[c].at = p
    BY <1>0, <2>1, GoesJob, BeginJob
  <2>2. Ends(c) => Others(c) /\ job'[c].at = "idle"
    BY <1>0, EndsJob, IdleJob
  <2>3. Call(c) => job[c].at = "idle"
    BY DEF Call, CallStart, CallStop, CallShutdown, CallEnsure, Begin, At
  <2>4. CASE Call(c)
    BY <1>a, <2>1, <2>3, <2>4 DEF Call, CallStart, CallStop, CallShutdown, CallEnsure
  <2>5. CASE Start(c) \/ AwaitThread(c) \/ AwaitAccepting(c)
    BY <1>a, <2>1, <2>2, <2>5 DEF Start, AwaitThread, AwaitAccepting, StartLoop, At
  <2>6. CASE Settle(c) \/ Stop(c) \/ SetExiting(c)
    BY <1>a, <2>1, <2>2, <2>6 DEF Settle, Stop, SetExiting, At
  <2>7. CASE Shutdown(c) \/ AwaitStopped(c)
    BY <1>a, <2>1, <2>2, <2>7 DEF Shutdown, AwaitStopped, StopLoop, At
  <2>8. CASE Closing(c) \/ (GiveUp(c) /\ At(c, "closing"))
    <3>1. NextAddress(c) /\ job[c].at = "closing"
      BY <2>8 DEF Closing, GiveUp, At
    <3>2. job[c].tries >= 1
      BY <1>0, <3>1 DEF Typed, TypedJobs, Waiting
    <3> QED
      BY <1>0, <3>1, <3>2, NextAddressJob DEF Waiting
  <2> QED
    BY <2>4, <2>5, <2>6, <2>7, <2>8
<1>2. CalmJobs
  BY <1>1, QuietJobs
<1>3. CalmLinks
  BY <1>0, StatesCalm DEF Call, CallStart, CallStop, CallShutdown, CallEnsure, Begin, Start, AwaitThread, AwaitAccepting,
     Settle, Stop, SetExiting, Shutdown, AwaitStopped, StopLoop, Closing, GiveUp, CalmLinks, links
<1>4. UNCHANGED <<monitor, internal, late>>
  BY DEF Call, CallStart, CallStop, CallShutdown, CallEnsure, Begin, Start, AwaitThread, AwaitAccepting,
     Settle, Stop, SetExiting, Shutdown, AwaitStopped, Closing, GiveUp, At
<1>5. UNCHANGED svc \/ (svc.at = "none" /\ svc'.at = "enter")
  BY DEF Call, CallStart, CallStop, CallShutdown, CallEnsure, Begin, Start, AwaitThread, AwaitAccepting,
     Settle, Stop, SetExiting, Shutdown, AwaitStopped, Closing, GiveUp, Sound, Lives, Typed, TypedService
<1>6. CalmRest
  BY <1>4, <1>5 DEF CalmRest, Handles, Runs
<1>7. UNCHANGED queue \/ Post(Message("shutdown", NoOne, NoOne))
  BY DEF Call, CallStart, CallStop, CallShutdown, CallEnsure, Begin, Start, AwaitThread, AwaitAccepting,
     Settle, Stop, SetExiting, Shutdown, AwaitStopped, Closing, GiveUp
<1>8. CASE UNCHANGED queue
  <2>1. Comes(0, {})
    BY <1>0, <1>8, QueueStays
  <2> QED
    BY <1>0, <1>2, <1>3, <1>6, <2>1, CalmFate
<1>9. CASE Post(Message("shutdown", NoOne, NoOne))
  <2>1. Message("shutdown", NoOne, NoOne) \in Posted /\ Message("shutdown", NoOne, NoOne).kind = "shutdown"
    BY PostedMessages DEF Kinds, Linked
  <2>2. Comes(0, {Message("shutdown", NoOne, NoOne)}) /\ Tells(Message("shutdown", NoOne, NoOne))
    BY <1>0, <1>9, <1>b, <2>1, QueueGrows DEF Linked
  <2> QED
    BY <1>0, <1>2, <1>3, <1>6, <2>2, CalmFate
<1> QED
  BY <1>7, <1>8, <1>9

(***************************************************************************)
(* The steps of a caller of openConnection.                                *)
(***************************************************************************)
\* The connections are those that there are, and one may be handed to the caller.
LEMMA AskerFate ==
    ASSUME Typed, Typed', Fate, NEW c \in Clients, Others(c),
           UNCHANGED <<internal, svc, unanswered, marked, current>>,
           UNCHANGED conn \/ \E k \in Conns : Hands(c, k),
           late \subseteq late', NEW M, Comes(0, M), \A m \in M : Tells(m),
           job'[c].at # "opening", job'[c].at \in Waiting => job[c].at \in Waiting,
           job[c].at = "opening" /\ job[c].ask = "asked" => job[c].conn \in late',
           ~ Spoiled /\ Promise => Abandoned'
    PROVE  Fate'
<1>0. /\ Past /\ Nascent /\ Opener /\ Refusal /\ (~ Spoiled => Promise)
      /\ Ages /\ \A k \in Conns : Held(k)' <=> Held(k)
      /\ \A k \in Conns : conn'[k] \in {"new", "asked", "sent", "cut", "closed"}
                          \/ conn[k] \in {"new", "asked", "sent", "cut", "closed"} => conn'[k] = conn[k]
  BY FateIs, HandsLinks, ClosesAges DEF Held
<1>1. Past'
  BY <1>0, PastMove
<1>2. Nascent'
  BY <1>0 DEF Nascent, Others
<1>3. Opener'
  <2>1. \A k \in Conns : conn'[k] = "asked" => conn[k] = "asked"
    BY <1>0
  <2> QED
    BY <1>0, <2>1, OpenerMove DEF Others
<1>4. Refusal'
  BY <1>0, RefusalMove DEF Others
<1>5. ASSUME ~ Spoiled' PROVE Promise'
  <2>1. ~ Spoiled /\ Promise
    BY <1>0, <1>5, SpoiledMove
  <2>2. Wanes
    BY <1>0 DEF Wanes, Live, Held
  <2>3. Single' /\ Turn'
    BY <2>1, <2>2, SingleMove, TurnMove DEF Promise, Tells, Handles, Runs
  <2>4. Reported'
    <3>1. \A k \in Conns : Held(k) <=> current = k
      BY <2>1 DEF Promise, Reported, Spoiled, Typed, TypedRest
    <3>2. \A k \in Conns : Held(k)' <=> current' = k
      BY <1>0, <3>1
    <3> QED
      BY <3>2 DEF Reported
  <2> QED
    BY <2>1, <2>3, <2>4 DEF Promise
<1> QED
  BY <1>1, <1>2, <1>3, <1>4, <1>5 DEF Fate, Promise

LEMMA EnsureFate ==
    ASSUME Sound, Sound', Fate, NEW c \in Clients, Ensure(c)
    PROVE  Fate'
<1>0. TypeOK /\ Typed /\ Typed' /\ Comes(0, {}) /\ UNCHANGED queue
  BY TypedIs, QueueStays DEF Sound, Ensure
<1>1. Others(c) /\ job'[c].at \notin Waiting /\ job[c].at = "ensure"
  BY <1>0, EndsJob, IdleJob, SearchJob DEF Ensure, Hands, At, Waiting
<1>2. UNCHANGED conn \/ \E k \in Conns : Hands(c, k)
  BY <1>0 DEF Ensure, Typed, TypedLinks
<1>3. UNCHANGED <<internal, svc, unanswered, marked, current, late>>
  BY DEF Ensure, rest
<1>4. ASSUME ~ Spoiled, Promise PROVE Abandoned'
  <2>1. ASSUME NEW k \in Conns, Live(k)', ~ Owned(k)', conn'[k] = "sent" \/ monitor' \in Clients
        PROVE  /\ Live(k) /\ ~ Owned(k) /\ (conn[k] = "sent" \/ monitor \in Clients)
               /\ conn[k] # "used" => conn'[k] # "used"
    <3>1. ~ Owned(k)
      BY <1>1, <2>1 DEF Owned, Others
    <3>2. Held(k) <=> current = k
      BY <1>0, <1>4 DEF Promise, Reported, Spoiled, Typed, TypedRest
    <3>3. CASE UNCHANGED monitor
      <4>1. conn'[k] = "sent"
        BY <2>1, <3>3, InitiatorConstants DEF Ensure
      <4>2. conn[k] = "sent"
        BY <1>0, <1>2, <4>1, HandsLinks
      <4> QED
        BY <1>3, <2>1, <3>1, <4>1, <4>2 DEF Live
    <3>4. CASE current = NoOne /\ UNCHANGED conn
      <4>1. ~ Held(k)
        BY <3>2, <3>4, InitiatorConstants
      <4> QED
        BY <1>3, <2>1, <3>1, <3>4, <4>1 DEF Live, Held
    <3> QED
      BY <3>3, <3>4 DEF Ensure
  <2> QED
    BY <1>0, <1>3, <1>4, <2>1, AbandonedMove DEF Promise
<1> QED
  BY <1>0, <1>1, <1>2, <1>3, <1>4, AskerFate DEF Waiting

LEMMA OpeningFate ==
    ASSUME Sound, Sound', Fate, NEW c \in Clients, Opening(c)
    PROVE  Fate'
<1>0. /\ TypeOK /\ Typed /\ Typed' /\ Comes(0, {}) /\ UNCHANGED queue
      /\ UNCHANGED <<internal, svc, unanswered, marked, current, late, conn, monitor>>
  BY TypedIs, QueueStays DEF Sound, Opening, links, rest, locks
<1>1. job[c].at = "opening" /\ job[c].ask \in {"answered", "failed"} /\ job[c].tries >= 1 /\ job[c].conn \in Conns
  BY <1>0 DEF Opening, At, Typed, TypedJobs, Waiting
<1>2. /\ Others(c) /\ job'[c].at # "opening"
      /\ (job[c].ask = "answered" /\ job'[c].at = "connecting" /\ job'[c].conn = job[c].conn) \/ job[c].ask = "failed"
  BY <1>0, <1>1, GoesJob, NextAddressJob DEF Opening, Places
<1>3. ASSUME ~ Spoiled, Promise PROVE Abandoned'
  <2>1. ASSUME internal, NEW k \in Conns, Live(k)', ~ Owned(k)' PROVE Live(k) /\ ~ Owned(k)
    <3>1. Live(k)
      BY <1>0, <2>1 DEF Live
    <3>2. ~ (job[c].at \in {"opening", "connecting"} /\ job[c].conn = k)
      <4>1. CASE job[c].ask = "failed"
        BY <1>1, <2>1, <3>1, <4>1 DEF Fate, Refusal, Live
      <4>2. CASE job'[c].at = "connecting" /\ job'[c].conn = job[c].conn
        BY <2>1, <4>2 DEF Owned
      <4> QED
        BY <1>2, <4>1, <4>2
    <3> QED
      BY <1>2, <2>1, <3>1, <3>2 DEF Owned, Others
  <2> QED
    BY <1>0, <1>3, <2>1, AbandonedMove DEF Promise, Abandoned, Queued
<1> QED
  BY <1>0, <1>1, <1>2, <1>3, AskerFate DEF Waiting

LEMMA ConnectingFate ==
    ASSUME Sound, Sound', Fate, NEW c \in Clients, Connecting(c)
    PROVE  Fate'
<1>0. /\ TypeOK /\ Typed /\ Typed' /\ Comes(0, {}) /\ UNCHANGED queue
      /\ UNCHANGED <<internal, svc, unanswered, marked, current, late>>
  BY TypedIs, QueueStays DEF Sound, Connecting, rest
<1>1. job[c].at = "connecting" /\ job[c].tries >= 1 /\ job[c].conn \in Conns
  BY <1>0 DEF Connecting, At, Typed, TypedJobs, Waiting
<1>2. Others(c) /\ job'[c].at \notin Waiting
  BY <1>0, <1>1, EndsJob, IdleJob, NextAddressJob DEF Connecting, Hands, Waiting
<1>3. UNCHANGED conn \/ Hands(c, job[c].conn)
  BY DEF Connecting
<1>4. ASSUME ~ Spoiled, Promise PROVE Abandoned'
  <2>1. ASSUME NEW k \in Conns, Live(k)', ~ Owned(k)', conn'[k] = "sent" \/ monitor' \in Clients
        PROVE  /\ Live(k) /\ ~ Owned(k) /\ (conn[k] = "sent" \/ monitor \in Clients)
               /\ conn[k] # "used" => conn'[k] # "used"
    <3>1. CASE Hands(c, job[c].conn) /\ monitor' = NoOne /\ conn[job[c].conn] \in {"held", "used", "closed"}
      <4>1. conn'[k] = "sent"
        BY <2>1, <3>1, InitiatorConstants
      <4>2. conn[k] = "sent"
        BY <1>0, <1>1, <3>1, <4>1, HandsLinks
      <4>3. k # job[c].conn
        BY <3>1, <4>2
      <4> QED
        BY <1>0, <1>2, <2>1, <4>1, <4>2, <4>3 DEF Live, Owned, Others
    <3>2. CASE conn[job[c].conn] = "refused" /\ UNCHANGED <<monitor, conn>>
      BY <1>0, <1>2, <2>1, <3>2 DEF Live, Owned, Others
    <3> QED
      BY <3>1, <3>2 DEF Connecting
  <2> QED
    BY <1>0, <1>4, <2>1, AbandonedMove DEF Promise
<1> QED
  BY <1>0, <1>1, <1>2, <1>3, <1>4, AskerFate DEF Waiting

\* A caller that gives the request to open up leaves its connection to itself.
LEMMA GiveUpFate ==
    ASSUME Sound, Sound', Fate, NEW c \in Clients, GiveUp(c), At(c, "opening")
    PROVE  Fate'
<1>0. /\ TypeOK /\ Typed /\ Typed' /\ Comes(0, {}) /\ UNCHANGED queue
      /\ UNCHANGED <<internal, svc, unanswered, marked, current, conn, monitor>> /\ late' = late \cup {job[c].conn}
  BY TypedIs, QueueStays DEF Sound, GiveUp, links, locks
<1>1. job[c].at = "opening" /\ job[c].tries >= 1 /\ job[c].conn \in Conns
  BY <1>0 DEF At, Typed, TypedJobs, Waiting
<1>2. Others(c) /\ job'[c].at \notin Waiting
  BY <1>0, <1>1, NextAddressJob DEF GiveUp, Waiting
<1>3. ASSUME ~ Spoiled, Promise PROVE Abandoned'
  <2>1. \A k \in Conns : Live(k)' /\ ~ Owned(k)' => Live(k) /\ ~ Owned(k)
    BY <1>0, <1>1, <1>2 DEF Live, Owned, Others
  <2> QED
    BY <1>0, <1>3, <2>1, AbandonedMove DEF Promise
<1> QED
  BY <1>0, <1>1, <1>2, <1>3, AskerFate DEF Waiting

\* A caller that waits in vain for the peer asks for the close first.
LEMMA TimeoutFate ==
    ASSUME Sound, Sound', Fate, NEW c \in Clients, Timeout(c)
    PROVE  Fate'
<1>0. /\ TypeOK /\ Typed /\ Typed'
      /\ UNCHANGED <<internal, svc, unanswered, marked, current, late, conn, monitor>>
  BY TypedIs DEF Sound, Timeout, links, locks, rest
<1>1. PICK k \in Conns : job[c].conn = k /\ job[c].at = "connecting" /\ job[c].tries >= 1 /\ conn[k] = "sent"
  BY <1>0 DEF Timeout, At, Typed, TypedJobs, Waiting
<1> DEFINE m == Message("close", k, c)
<1>2. Post(m) /\ Asks(c, "closing", k)
  BY <1>1 DEF Timeout, ClosesUnanswered, Open
<1>3. Others(c) /\ job'[c].at = "closing"
  BY <1>0, <1>1, <1>2, AsksJob DEF Places
<1>4. m \in Posted /\ m.kind = "close" /\ m.conn = k
  BY <1>1, PostedMessages DEF Kinds
<1>5. Comes(0, {m}) /\ Tells(m) /\ Queued("close", k)'
  <2>1. Comes(0, {m})
    BY <1>0, <1>2, <1>4, QueueGrows
  <2>2. Tells(m)
    BY <1>0, <1>1, <1>4 DEF Tells
  <2>3. Queued("close", k)'
    BY <1>0, <1>4, <2>1 DEF Comes, Queued, ToSet
  <2> QED
    BY <2>1, <2>2, <2>3
<1>6. ASSUME ~ Spoiled, Promise PROVE Abandoned'
  <2>1. ASSUME internal, NEW l \in Conns, Live(l)', ~ Owned(l)', conn'[l] = "sent" \/ monitor' \in Clients
        PROVE  conn'[l] # "used" /\ Queued("close", l)'
    <3>1. CASE l = k
      BY <1>0, <1>1, <1>5, <3>1
    <3>2. CASE l # k
      <4>1. Live(l) /\ ~ Owned(l) /\ (conn[l] = "sent" \/ monitor \in Clients)
        BY <1>0, <1>1, <1>3, <2>1, <3>2 DEF Live, Owned, Others
      <4>2. conn[l] # "used" /\ Queued("close", l)
        BY <1>6, <2>1, <4>1 DEF Promise, Abandoned
      <4> QED
        BY <1>0, <1>5, <4>2, QueuedMove
    <3> QED
      BY <3>1, <3>2
  <2> QED
    BY <1>0, <2>1 DEF Abandoned
<1> HIDE DEF m
<1> QED
  BY <1>0, <1>1, <1>3, <1>5, <1>6, AskerFate DEF Waiting

\* A connection is asked for when the close of every one before it is on its way.
LEMMA AskFate ==
    ASSUME Sound, Sound', Fate, NEW c \in Clients, NEW k \in Conns, At(c, "connect"), internal, conn[k] = "new",
           conn' = [conn EXCEPT ![k] = "asked"], Post(Message("open", k, c)), Asks(c, "opening", k),
           UNCHANGED <<internal, svc, unanswered, marked, current, late, monitor>>
    PROVE  Fate'
<1> DEFINE m == Message("open", k, c)
<1>0. TypeOK /\ Typed /\ Typed' /\ Past /\ Nascent /\ Opener /\ Refusal /\ (~ Spoiled => Promise)
  BY TypedIs, FateIs DEF Sound
<1>1. Others(c) /\ job'[c].at = "opening" /\ job'[c].conn = k /\ job'[c].ask = "asked" /\ job[c].at = "connect"
  BY <1>0, AsksJob DEF At, Places
<1>2. m \in Posted /\ m.kind = "open" /\ m.conn = k
  BY PostedMessages DEF Kinds
<1>3. Comes(0, {m})
  BY <1>0, <1>2, QueueGrows
<1> HIDE DEF m
<1>4. conn'[k] = "asked" /\ (\A l \in Conns \ {k} : conn'[l] = conn[l]) /\ Ages
  BY <1>0 DEF Ages, Typed, TypedLinks
<1>5. Past'
  BY <1>0, <1>2, <1>3, <1>4, PastMove
<1>6. Nascent'
  BY <1>0 DEF Nascent
<1>7. Opener'
  <2>1. ASSUME NEW l \in Conns, conn'[l] = "asked", l \notin late'
        PROVE  \E d \in Clients : job'[d].at = "opening" /\ job'[d].conn = l /\ job'[d].ask = "asked"
    <3>1. CASE l = k
      BY <1>1, <3>1
    <3>2. CASE l # k
      BY <1>0, <1>1, <1>4, <2>1, <3>2 DEF Opener, Others
    <3> QED
      BY <3>1, <3>2
  <2> QED
    BY <2>1 DEF Opener
<1>8. Refusal'
  BY <1>0, <1>1, <1>4, RefusalMove DEF Others
<1>9. ASSUME ~ Spoiled' PROVE Promise'
  <2>1. ~ Spoiled /\ Promise
    BY <1>0, <1>4, <1>9, SpoiledMove
  <2>2. Wanes
    BY <1>4 DEF Wanes, Live
  <2>3. Single'
    BY <2>1, <2>2, SingleMove DEF Promise
  <2>4. Reported'
    <3>1. \A l \in Conns : Held(l) <=> current = l
      BY <1>0, <2>1 DEF Promise, Reported, Spoiled, Typed, TypedRest
    <3>2. \A l \in Conns : Held(l)' <=> current' = l
      BY <1>4, <3>1 DEF Held
    <3> QED
      BY <3>2 DEF Reported
  <2>5. Abandoned'
    <3>1. ASSUME NEW l \in Conns, Live(l)', ~ Owned(l)', conn'[l] = "sent" \/ monitor' \in Clients
          PROVE  /\ Live(l) /\ ~ Owned(l) /\ (conn[l] = "sent" \/ monitor \in Clients)
                 /\ conn[l] # "used" => conn'[l] # "used"
      BY <1>1, <1>4, <3>1 DEF Live, Owned, Others
    <3> QED
      BY <1>0, <1>3, <2>1, <3>1, AbandonedMove DEF Promise
  <2>6. \A l \in Conns : Live(l) => \E j \in DOMAIN queue : queue[j].kind = "close" /\ queue[j].conn = l
    <3> SUFFICES ASSUME NEW l \in Conns, Live(l)
                 PROVE  \E j \in DOMAIN queue : queue[j].kind = "close" /\ queue[j].conn = l
      OBVIOUS
    <3>1. monitor = c
      BY <1>1 DEF Sound, Holds
    <3>2. ~ Owned(l)
      <4>1. ASSUME NEW d \in Clients, job[d].at \in {"opening", "connecting"} PROVE FALSE
        <5>1. monitor = d
          BY <4>1 DEF Sound, Holds, Waiting
        <5> QED
          BY <1>1, <3>1, <4>1, <5>1
      <4> QED
        BY <4>1 DEF Owned
    <3> QED
      BY <2>1, <3>1, <3>2 DEF Promise, Abandoned, Queued, ToSet
  <2>7. Turn'
    <3>0. /\ DOMAIN queue = 1 .. Len(queue) /\ Len(queue) \in Nat
          /\ \A i \in DOMAIN queue : i \in DOMAIN queue' /\ queue'[i] = queue[i]
          /\ \A i \in DOMAIN queue' : (i \in DOMAIN queue /\ queue'[i] = queue[i]) \/ i = Len(queue) + 1
      <4>1. DOMAIN queue = 1 .. Len(queue) /\ Len(queue) \in Nat /\ DOMAIN queue' = 1 .. Len(queue') /\ Len(queue') \in Nat
        BY <1>0 DEF Typed
      <4> QED
        BY <1>3, <4>1 DEF Comes
    <3>1. ASSUME NEW i \in DOMAIN queue', queue'[i].kind = "open", queue'[i].conn \notin late',
                 NEW l \in Conns, Live(l)'
          PROVE  \E j \in DOMAIN queue' : j < i /\ queue'[j].kind = "close" /\ queue'[j].conn = l
      <4>1. Live(l)
        BY <2>2, <3>1 DEF Wanes
      <4>2. CASE i \in DOMAIN queue /\ queue'[i] = queue[i]
        <5>1. PICK j \in DOMAIN queue : j < i /\ queue[j].kind = "close" /\ queue[j].conn = l
          BY <2>1, <3>1, <4>1, <4>2 DEF Promise, Turn
        <5> QED
          BY <3>0, <5>1
      <4>3. CASE i = Len(queue) + 1
        BY <2>6, <3>0, <4>1, <4>3
      <4> QED
        BY <3>0, <4>2, <4>3
    <3>2. ASSUME Handles("open")', svc'.msg.conn \notin late', NEW l \in Conns PROVE ~ Live(l)'
      BY <2>1, <2>2, <3>2 DEF Promise, Turn, Wanes, Handles, Runs
    <3> QED
      BY <3>1, <3>2 DEF Turn
  <2> QED
    BY <2>3, <2>4, <2>5, <2>7 DEF Promise
<1> QED
  BY <1>5, <1>6, <1>7, <1>8, <1>9 DEF Fate, Promise

LEMMA ConnectFate ==
    ASSUME Sound, Sound', Fate, NEW c \in Clients, Connect(c)
    PROVE  Fate'
<1>0. TypeOK /\ Typed /\ Typed' /\ UNCHANGED <<internal, svc, unanswered, marked, current, late>> /\ job[c].at = "connect"
  BY TypedIs DEF Sound, Connect, rest, At
<1>1. CASE UNCHANGED <<queue, conn>> /\ monitor' \in {NoOne, monitor}
  <2>1. CASE Ends(c) \/ (NextAddress(c) /\ ~ Exhausted(c))
    <3>1. ~ Exhausted(c) => job[c].tries >= 1
      BY <1>0, InitiatorConstants DEF Exhausted, Typed, TypedJobs, Jobs
    <3>2. Others(c) /\ job'[c].at \notin Waiting
      BY <1>0, <2>1, <3>1, EndsJob, IdleJob, NextAddressJob DEF Waiting
    <3>3. CalmJobs
      BY <1>0, <3>2, QuietJobs
    <3>4. CalmLinks /\ CalmRest
      BY <1>0, <1>1, InitiatorConstants DEF CalmLinks, CalmRest, Handles, Runs
    <3>5. Comes(0, {})
      BY <1>0, <1>1, QueueStays
    <3> QED
      BY <1>0, <3>3, <3>4, <3>5, CalmFate
  <2> QED
    BY <1>1, <2>1, AskFate, <1>0 DEF Connect
<1>2. CASE ~ (UNCHANGED <<queue, conn>> /\ monitor' \in {NoOne, monitor})
  BY <1>0, <1>2, AskFate DEF Connect
<1> QED
  BY <1>1, <1>2

(***************************************************************************)
(* The steps of the service thread.                                        *)
(***************************************************************************)
LEMMA SameJobs ==
    ASSUME \A c \in Clients : job'[c] = job[c]
    PROVE  CalmJobs
BY DEF CalmJobs

LEMMA CancelledCalm ==
    ASSUME Typed, job' = Cancelled, ~ internal'
    PROVE  CalmJobs
BY TypedIs, CancelledJob DEF CalmJobs

LEMMA ServiceCalm ==
    ASSUME Sound, Sound', Fate,
           \/ EnterState \/ EnterSend \/ Ready \/ Quit \/ Startup \/ NotifyShutdown \/ ShutdownThrows
           \/ OnException \/ StopMyself \/ SetMyselfExiting \/ SettleMyself \/ Finally \/ Exit \/ Exited
    PROVE  Fate'
<1>0. Typed /\ Typed' /\ Service \notin Clients /\ NoOne \notin Clients /\ \A p : Becomes(p) => svc'.at = p
  BY InitiatorConstants DEF Sound, Typed, TypedService, Becomes
<1> USE DEF states, locks, rest
<1>1. CalmJobs
  <2>1. CASE ShutdownThrows \/ Exited
    BY <1>0, <2>1, CancelledCalm DEF ShutdownThrows, Exited
  <2>2. CASE UNCHANGED job
    BY <2>2, SameJobs
  <2> QED
    BY <2>1, <2>2 DEF EnterState, EnterSend, Ready, Quit, Startup, NotifyShutdown, OnException, StopMyself,
       SetMyselfExiting, SettleMyself, Finally, Exit
<1>2. CalmLinks
  <2>1. CASE UNCHANGED links
    BY <2>1 DEF CalmLinks, links
  <2>2. ASSUME NEW s, SetServiceState(s) PROVE CalmLinks
    BY <1>0, <2>2, StatesCalm
  <2> QED
    BY <2>1, <2>2 DEF EnterState, EnterSend, Ready, Quit, Startup, NotifyShutdown, ShutdownThrows, OnException,
       StopMyself, SetMyselfExiting, SettleMyself, Finally, Exit, Exited
<1>3. svc'.at \notin {"handle", "none", "enter"}
  BY <1>0 DEF EnterState, EnterSend, Ready, Quit, Startup, NotifyShutdown, ShutdownThrows, OnException,
     StopMyself, SetMyselfExiting, SettleMyself, Finally, Exit, Exited, Resume, AfterStopping
<1>4. UNCHANGED late /\ (internal' => internal) /\ monitor' \in {monitor, Service, NoOne}
  BY DEF EnterState, EnterSend, Ready, Quit, Startup, NotifyShutdown, ShutdownThrows, OnException,
     StopMyself, SetMyselfExiting, SettleMyself, Finally, Exit, Exited
<1>5. CalmRest
  BY <1>0, <1>3, <1>4 DEF CalmRest, Handles, Runs
<1>6. UNCHANGED queue \/ Post(Message("startup", NoOne, NoOne))
  BY DEF EnterState, EnterSend, Ready, Quit, Startup, NotifyShutdown, ShutdownThrows, OnException,
     StopMyself, SetMyselfExiting, SettleMyself, Finally, Exit, Exited
<1>7. CASE UNCHANGED queue
  <2>1. Comes(0, {})
    BY <1>0, <1>7, QueueStays
  <2> QED
    BY <1>0, <1>1, <1>2, <1>5, <2>1, CalmFate
<1>8. CASE Post(Message("startup", NoOne, NoOne))
  <2>1. Message("startup", NoOne, NoOne) \in Posted /\ Message("startup", NoOne, NoOne).kind = "startup"
    BY PostedMessages DEF Kinds, Linked
  <2>2. Comes(0, {Message("startup", NoOne, NoOne)}) /\ Tells(Message("startup", NoOne, NoOne))
    BY <1>0, <1>8, <2>1, QueueGrows DEF Tells, Linked
  <2> QED
    BY <1>0, <1>1, <1>2, <1>5, <2>2, CalmFate
<1> QED
  BY <1>6, <1>7, <1>8

\* A message is taken that opens, accepts and closes nothing, or is not delivered.
LEMMA TakesCalm ==
    ASSUME Sound, Sound', Fate,
           Settles \/ Refuse \/ Fatal \/ (Take /\ (Head(queue).kind = "open" => ~ Deliverable(Head(queue))))
    PROVE  Fate'
<1>0. /\ Typed /\ Typed' /\ queue # <<>> /\ queue' = Tail(queue) /\ svc.at = "loop"
      /\ Head(queue) = queue[1] /\ Head(queue) \in Posted /\ 1 \in DOMAIN queue
  BY QueueIs DEF Sound, Settles, Refuse, Fatal, Take, Takes, Taking, Runs
<1>1. Comes(1, {})
  BY <1>0, QueueShrinks
<1>2. internal => queue[1].kind # "close"
  BY <1>0 DEF Settles, Refuse, Fatal, Take, Takes, Slow, Deliverable, OfConnection
<1>3. CalmLinks
  <2>1. CASE Refuse
    BY <1>0, <2>1 DEF Refuse, Takes, CalmLinks, Posted, Linked
  <2> QED
    BY <2>1 DEF Settles, Fatal, Take, CalmLinks, links
<1>4. CalmJobs
  <2>1. CASE Settles
    <3> DEFINE m == Head(queue)
    <3>1. /\ m.kind \in {"answered", "failed"} /\ m.conn \in Conns /\ conn[m.conn] # "asked"
          /\ m.kind = "failed" => conn[m.conn] \in {"cut", "refused"}
      BY <1>0, <2>1 DEF Settles, Takes, Posted, Linked, Fate, Past
    <3>2. \A c \in Clients : job'[c] = IF c = m.who /\ job[c].conn = m.conn /\ job[c].ask = "asked"
                                          THEN [job[c] EXCEPT !.ask = m.kind] ELSE job[c]
      BY <2>1 DEF Settles
    <3> HIDE DEF m
    <3>3. ASSUME NEW c \in Clients
          PROVE  /\ job'[c].at = job[c].at /\ job'[c].conn = job[c].conn
                 /\ job'[c].ask # job[c].ask => job[c].conn = m.conn /\ job'[c].ask = m.kind
      BY <1>0, <3>2 DEF Typed, TypedJobs, Jobs
    <3> QED
      BY <3>1, <3>3 DEF CalmJobs
  <2> QED
    BY <2>1, SameJobs DEF Refuse, Fatal, Take
<1>5. CalmRest
  <2>1. UNCHANGED <<late, internal, monitor>>
    BY DEF Settles, Refuse, Fatal, Take, rest, locks
  <2>2. ~ Handles("open")' /\ svc'.at \notin {"none", "enter"}
    BY <1>0 DEF Settles, Refuse, Fatal, Take, Handles, Runs
  <2> QED
    BY <2>1, <2>2 DEF CalmRest
<1> QED
  BY <1>0, <1>1, <1>2, <1>3, <1>4, <1>5, CalmFate

LEMMA EnvironmentFate ==
    ASSUME Sound, Sound', Fate, Environment
    PROVE  Fate'
<1>1. PICK k \in Conns : Leave(k) \/ Lose(k) \/ Answer(k)
  BY DEF Environment
<1>2. Typed /\ Typed' /\ UNCHANGED <<internal, late, monitor, svc, conn, job>>
  BY <1>1 DEF Sound, Leave, Lose, Answer, links, rest, locks
<1>3. PICK kind \in {"close", "accept", "refuse"} :
         Post(Message(kind, k, NoOne)) /\ (kind = "accept" => conn[k] # "cut") /\ conn[k] \notin {"new", "asked"}
  BY <1>1 DEF Leave, Lose, Answer, Fate, Past, Open, Held
<1>4. Message(kind, k, NoOne) \in Posted /\ Message(kind, k, NoOne).kind = kind /\ Message(kind, k, NoOne).conn = k
  BY PostedMessages DEF Kinds
<1>5. Comes(0, {Message(kind, k, NoOne)}) /\ Tells(Message(kind, k, NoOne))
  BY <1>2, <1>3, <1>4, QueueGrows DEF Tells
<1>6. CalmLinks /\ CalmJobs /\ CalmRest
  BY <1>1, <1>2, SameJobs DEF Leave, Lose, Answer, links, CalmLinks, CalmRest, Handles, Runs
<1> QED
  BY <1>2, <1>5, <1>6, CalmFate

LEMMA EnterFate ==
    ASSUME Sound, Sound', Fate, Enter
    PROVE  Fate'
<1>0. /\ Typed /\ Typed' /\ Past /\ Nascent /\ svc.at = "enter" /\ svc'.at = "starting"
      /\ UNCHANGED <<queue, conn, current, unanswered, marked, job, late>>
  BY FateIs DEF Sound, Enter, Runs, Becomes, Typed, TypedService, links, rest
<1>1. (\A k \in Conns : conn[k] = "new") /\ \A c \in Clients : job[c].at \notin Waiting
  BY <1>0 DEF Nascent
<1>2. Past'
  BY <1>0, QueueStays, PastMove, ClosesAges
<1>3. Nascent' /\ Opener' /\ Refusal'
  BY <1>0, <1>1 DEF Nascent, Opener, Refusal, Waiting
<1>4. \A k \in Conns : ~ Live(k)'
  BY <1>0, <1>1 DEF Live
<1>5. Abandoned' /\ Turn' /\ Single'
  BY <1>0, <1>4 DEF Abandoned, Turn, Single, Handles, Runs
<1>6. ~ Spoiled' => Reported'
  BY <1>0 DEF Fate, Spoiled, Reported, Held
<1> QED
  BY <1>2, <1>3, <1>5, <1>6 DEF Fate

\* When it is the turn of a request to open, the connections before it are closed.
LEMMA TakeOpenFate ==
    ASSUME Sound, Sound', Fate, Take, Head(queue).kind = "open", Deliverable(Head(queue))
    PROVE  Fate'
<1>0. /\ Typed /\ Typed' /\ Past /\ Nascent /\ Opener /\ Refusal /\ (~ Spoiled => Promise)
      /\ queue # <<>> /\ queue' = Tail(queue) /\ svc' = [at |-> "handle", msg |-> Head(queue)] /\ internal
      /\ UNCHANGED <<internal, conn, current, unanswered, marked, job, late, monitor>>
  BY FateIs DEF Sound, Take, Taking, Deliverable, OfConnection, links, rest, locks
<1>1. /\ Comes(1, {}) /\ queue[1] = Head(queue) /\ 1 \in DOMAIN queue
      /\ DOMAIN queue = 1 .. Len(queue) /\ Len(queue) \in Nat
      /\ DOMAIN queue' = 1 .. Len(queue') /\ Len(queue') \in Nat
  BY <1>0, QueueIs, QueueShrinks DEF Typed
<1>2. Ages /\ Wanes
  BY <1>0, ClosesAges DEF Wanes, Live
<1>3. Past'
  BY <1>0, <1>1, <1>2, PastMove
<1>4. Nascent' /\ Opener' /\ Refusal'
  BY <1>0 DEF Nascent, Opener, Refusal
<1>5. ASSUME ~ Spoiled' PROVE Promise'
  <2>1. Promise
    BY <1>0, <1>2, <1>5, SpoiledMove
  <2>2. Single' /\ Reported'
    BY <1>0, <1>2, <2>1, SingleMove DEF Promise, Reported, Held
  <2>3. Abandoned'
    <3>1. \A k \in Conns : (Live(k)' <=> Live(k)) /\ (Owned(k)' <=> Owned(k))
      BY <1>0 DEF Live, Owned
    <3> QED
      BY <1>0, <1>1, <2>1, <3>1, AbandonedMove DEF Promise
  <2>4. \A k \in Conns : queue[1].conn \notin late => ~ Live(k)
    BY <1>0, <1>1, <2>1 DEF Promise, Turn
  <2>5. ASSUME NEW i \in DOMAIN queue', queue'[i].kind = "open", queue'[i].conn \notin late',
               NEW k \in Conns, Live(k)'
        PROVE  \E j \in DOMAIN queue' : j < i /\ queue'[j].kind = "close" /\ queue'[j].conn = k
    <3>1. i + 1 \in DOMAIN queue /\ queue'[i] = queue[i + 1]
      BY <1>1 DEF Comes
    <3>2. PICK j \in DOMAIN queue : j < i + 1 /\ queue[j].kind = "close" /\ queue[j].conn = k
      BY <1>0, <1>2, <2>1, <2>5, <3>1 DEF Promise, Turn, Wanes
    <3>3. j > 1
      BY <1>0, <1>1, <3>2
    <3>4. j - 1 \in DOMAIN queue' /\ queue'[j - 1] = queue[j] /\ j - 1 < i
      BY <1>1, <3>2, <3>3 DEF Comes
    <3> QED
      BY <3>2, <3>4
  <2>6. Turn'
    <3>1. svc'.msg.conn \notin late' => \A k \in Conns : ~ Live(k)'
      BY <1>0, <1>1, <1>2, <2>4 DEF Wanes
    <3> QED
      BY <2>5, <3>1 DEF Turn
  <2> QED
    BY <2>1, <2>2, <2>3, <2>6 DEF Promise
<1> QED
  BY <1>3, <1>4, <1>5 DEF Fate, Promise

\* Two callers never ask for connections at the same time.
LEMMA OneAsks ==
    ASSUME Sound, NEW c \in Clients, NEW d \in Clients, job[c].at \in Waiting, job[d].at \in Waiting
    PROVE  c = d
BY DEF Sound, Holds

LEMMA OpenFate ==
    ASSUME Settled, Sound', Fate, OpenConnection
    PROVE  Fate'
<1>0. /\ Sound /\ Typed /\ Typed' /\ Fresh /\ Past /\ Nascent /\ Opener /\ Refusal /\ (~ Spoiled => Promise)
      /\ UNCHANGED <<internal, current, marked, job, late, monitor>> /\ svc.at = "handle" /\ internal
  BY FateIs DEF Settled, Sound, OpenConnection, Handles, Runs, Lives, rest, locks
<1>1. PICK k \in Conns : svc.msg.conn = k /\ conn[k] = "asked" /\ ~ Queued("open", k)
  BY <1>0 DEF OpenConnection, Handles, Typed, TypedService, Posted, Linked, Fresh
<1>2. svc'.at = "loop"
  BY <1>0 DEF OpenConnection, Becomes, Typed, TypedService
<1>3. PICK s \in {"cut", "sent", "refused"}, a \in {"answered", "failed"} :
         /\ conn' = [conn EXCEPT ![k] = s] /\ Post(Message(a, k, svc.msg.who)) /\ (a = "failed" <=> s # "sent")
         /\ \A l \in unanswered' : l \in unanswered \/ (l = k /\ s = "sent")
  BY <1>1 DEF OpenConnection
<1> DEFINE m == Message(a, k, svc.msg.who)
<1>4. m \in Posted /\ m.kind = a /\ m.conn = k
  BY <1>0, <1>1, PostedMessages DEF Typed, TypedService, Posted, Messages, Kinds
<1>5. Comes(0, {m})
  BY <1>0, <1>3, <1>4, QueueGrows
<1> HIDE DEF m
<1>6. conn'[k] = s /\ (\A l \in Conns \ {k} : conn'[l] = conn[l]) /\ Ages
  BY <1>0, <1>1, <1>3 DEF Ages, Typed, TypedLinks
<1>7. Tells(m)
  BY <1>3, <1>4, <1>6 DEF Tells
<1>8. Past'
  <2>1. \A l \in unanswered' : l \in unanswered \/ conn'[l] = "sent"
    BY <1>3, <1>6
  <2> QED
    BY <1>0, <1>5, <1>6, <1>7, <2>1, PastMove
<1>9. Nascent' /\ Opener' /\ Refusal'
  <2>1. Nascent'
    BY <1>2 DEF Nascent
  <2>2. \A l \in Conns : conn'[l] = "asked" => conn[l] = "asked"
    BY <1>6
  <2>3. Opener'
    BY <1>0, <2>2, OpenerMove
  <2> QED
    BY <1>0, <1>6, <2>1, <2>3, RefusalMove
<1>10. ASSUME ~ Spoiled' PROVE Promise'
  <2>1. ~ Spoiled /\ Promise
    BY <1>0, <1>6, <1>10, SpoiledMove
  <2>2. \A l \in Conns \ {k} : Live(l)' <=> Live(l)
    BY <1>0, <1>6 DEF Live
  <2>3. k \notin late => \A l \in Conns : ~ Live(l)
    BY <1>1, <2>1 DEF Promise, Turn, OpenConnection
  <2>4. Live(k)' => k \notin late /\ ~ Live(k)
    BY <1>0, <1>1 DEF Live
  <2>5. Single'
    BY <2>1, <2>2, <2>3, <2>4 DEF Promise, Single
  <2>6. Reported'
    <3>1. \A l \in Conns : Held(l) <=> current = l
      BY <1>0, <2>1 DEF Promise, Reported, Spoiled, Typed, TypedRest
    <3>2. \A l \in Conns : Held(l)' <=> current' = l
      BY <1>0, <1>1, <1>6, <3>1 DEF Held
    <3> QED
      BY <3>2 DEF Reported
  <2>7. k \notin late => \E c \in Clients : job[c].at = "opening" /\ job[c].conn = k
    BY <1>0, <1>1 DEF Opener
  <2>8. Abandoned'
    <3>1. ASSUME NEW l \in Conns, Live(l)', ~ Owned(l)', conn'[l] = "sent" \/ monitor' \in Clients
          PROVE  /\ Live(l) /\ ~ Owned(l) /\ (conn[l] = "sent" \/ monitor \in Clients)
                 /\ conn[l] # "used" => conn'[l] # "used"
      <4>1. ~ Owned(l)
        BY <1>0, <3>1 DEF Owned
      <4>2. l # k
        BY <2>4, <2>7, <3>1, <4>1 DEF Owned
      <4> QED
        BY <1>0, <1>6, <2>2, <3>1, <4>1, <4>2
    <3> QED
      BY <1>0, <1>5, <2>1, <3>1, AbandonedMove DEF Promise
  <2>9. Turn'
    <3>1. CASE Wanes
      BY <1>0, <1>2, <1>5, <1>7, <2>1, <3>1, TurnMove DEF Promise, Tells, Handles, Runs
    <3>2. CASE ~ Wanes
      <4>1. k \notin late
        BY <2>2, <2>4, <3>2 DEF Wanes
      <4>2. ASSUME NEW i \in DOMAIN queue', queue'[i].kind = "open", queue'[i].conn \notin late PROVE FALSE
        <5>1. PICK j \in DOMAIN queue : queue[j].kind = "open" /\ queue[j].conn \notin late
          BY <1>5, <1>7, <4>2 DEF Comes, Tells
        <5>2. queue[j].conn \in Conns /\ conn[queue[j].conn] = "asked" /\ queue[j].conn # k
          BY <1>0, <1>1, <5>1 DEF Typed, Posted, Linked, Fresh, Queued, ToSet
        <5>3. PICK c \in Clients : job[c].at = "opening" /\ job[c].conn = queue[j].conn
          BY <1>0, <5>1, <5>2 DEF Opener
        <5>4. PICK d \in Clients : job[d].at = "opening" /\ job[d].conn = k
          BY <2>7, <4>1
        <5>5. c = d
          BY <1>0, <5>3, <5>4, OneAsks DEF Waiting
        <5> QED
          BY <5>2, <5>3, <5>4, <5>5
      <4> QED
        BY <1>0, <1>2, <4>2 DEF Turn, Handles, Runs
    <3> QED
      BY <3>1, <3>2
  <2> QED
    BY <2>5, <2>6, <2>8, <2>9 DEF Promise
<1> QED
  BY <1>8, <1>9, <1>10 DEF Fate, Promise

LEMMA CloseFate ==
    ASSUME Settled, Sound', Fate, CloseConnection
    PROVE  Fate'
<1>0. /\ Sound /\ Typed /\ Typed' /\ Fresh /\ Past /\ Nascent /\ Opener /\ Refusal /\ (~ Spoiled => Promise)
      /\ UNCHANGED <<internal, svc, job, late, monitor>> /\ svc.at = "loop"
      /\ queue # <<>> /\ queue[1] = Head(queue) /\ Head(queue) \in Posted /\ Head(queue).kind = "close"
  BY FateIs, QueueIs DEF Settled, Sound, CloseConnection, Takes, Taking, Runs, rest, locks
<1>1. PICK k \in Conns : Head(queue).conn = k /\ CloseInternal(k) /\ conn[k] \notin {"new", "asked"}
  <2>1. Head(queue).conn \in Conns /\ 1 \in DOMAIN queue
    BY <1>0, QueueIs DEF Posted, Linked
  <2> QED
    BY <1>0, <2>1 DEF CloseConnection, Past, Linked
<1>2. PICK M : Comes(1, M) /\ (\A m \in M : Tells(m))
  <2>1. CASE queue' = Tail(queue)
    BY <1>0, <2>1, QueueShrinks
  <2>2. CASE queue' = Append(Tail(queue), Message("answered", k, Head(queue).who))
    <3> DEFINE m == Message("answered", k, Head(queue).who)
    <3>1. m \in Posted /\ m.kind = "answered" /\ m.conn = k
      BY <1>0, PostedMessages DEF Posted, Messages, Kinds
    <3>2. Comes(1, {m})
      BY <1>0, <2>2, <3>1, QueueTurns
    <3>3. Tells(m)
      BY <1>0, <1>1, <3>1, ClosesAges DEF Tells, Ages
    <3> HIDE DEF m
    <3> QED
      BY <3>2, <3>3
  <2> QED
    BY <1>1, <2>1, <2>2 DEF CloseConnection
<1>3. CalmLinks /\ CalmJobs /\ CalmRest
  BY <1>0, <1>1, SameJobs DEF CalmLinks, CalmRest, Handles, Runs
<1>4. Past' /\ Nascent' /\ Opener' /\ Refusal'
  BY <1>0, <1>2, <1>3, CalmParts
<1>5. ASSUME ~ Spoiled' PROVE Promise'
  <2>1. ~ Spoiled /\ Promise /\ Wanes /\ Single' /\ Reported'
    BY <1>0, <1>2, <1>3, <1>5, CalmParts
  <2>2. ASSUME Live(k)' PROVE conn[k] = "used" /\ Live(k)
    <3>1. conn'[k] = conn[k] /\ Live(k)
      BY <1>0, <1>2, <1>3, <2>1, <2>2, CalmParts DEF Wanes
    <3>2. Open(k)
      BY <3>1 DEF Live, Open, Held
    <3>3. conn' # Closed(k)
      BY <1>0, <3>1 DEF Closed, Live, Typed, TypedLinks
    <3> QED
      BY <1>1, <3>1, <3>2, <3>3 DEF CloseInternal
  <2>3. Abandoned'
    <3>1. ASSUME internal, NEW l \in Conns, Live(l)', ~ Owned(l)', conn'[l] = "sent" \/ monitor' \in Clients
          PROVE  conn'[l] # "used" /\ Queued("close", l)'
      <4>1. Live(l) /\ ~ Owned(l) /\ conn'[l] = conn[l]
        BY <1>0, <1>2, <1>3, <2>1, <3>1, CalmParts DEF Wanes
      <4>2. conn[l] # "used" /\ Queued("close", l)
        BY <1>0, <2>1, <3>1, <4>1 DEF Promise, Abandoned
      <4>3. l # k
        BY <2>2, <3>1, <4>2
      <4> QED
        BY <1>0, <1>1, <1>2, <4>1, <4>2, <4>3, QueuedMove
    <3> QED
      BY <1>0, <3>1 DEF Abandoned
  <2>4. Turn'
    <3>0. /\ DOMAIN queue = 1 .. Len(queue) /\ Len(queue) \in Nat
          /\ DOMAIN queue' = 1 .. Len(queue') /\ Len(queue') \in Nat
      BY <1>0 DEF Typed
    <3>1. ASSUME NEW i \in DOMAIN queue', queue'[i].kind = "open", queue'[i].conn \notin late', internal',
                 NEW l \in Conns, Live(l)'
          PROVE  \E j \in DOMAIN queue' : j < i /\ queue'[j].kind = "close" /\ queue'[j].conn = l
      <4>1. i + 1 \in DOMAIN queue /\ queue'[i] = queue[i + 1]
        BY <1>2, <3>1 DEF Comes, Tells
      <4>2. Live(l) /\ conn'[l] = conn[l]
        BY <1>0, <1>2, <1>3, <2>1, <3>1, CalmParts DEF Wanes
      <4>3. PICK j \in DOMAIN queue : j < i + 1 /\ queue[j].kind = "close" /\ queue[j].conn = l
        BY <1>0, <2>1, <3>1, <4>1, <4>2 DEF Promise, Turn
      <4>4. conn[l] # "used"
        <5> DEFINE o == queue[i + 1].conn
        <5>1. o \in Conns /\ conn[o] = "asked" /\ o \notin late
          BY <1>0, <3>1, <4>1 DEF Typed, Posted, Linked, Fresh
        <5>2. PICK c \in Clients : job[c].at = "opening" /\ job[c].conn = o
          BY <1>0, <3>1, <5>1 DEF Opener
        <5>3. monitor \in Clients
          BY <1>0, <5>2 DEF Sound, Holds, Waiting
        <5>4. ~ Owned(l)
          <6>1. ASSUME NEW d \in Clients, job[d].at \in {"opening", "connecting"}, job[d].conn = l PROVE FALSE
            <7>1. c = d
              BY <1>0, <5>2, <6>1, OneAsks DEF Waiting
            <7> QED
              BY <4>2, <5>1, <5>2, <6>1, <7>1 DEF Live
          <6> QED
            BY <6>1 DEF Owned
        <5> QED
          BY <1>0, <2>1, <3>1, <4>2, <5>3, <5>4 DEF Promise, Abandoned
      <4>5. l # k
        BY <2>2, <3>1, <4>4
      <4>6. j > 1
        BY <1>0, <1>1, <3>0, <4>3, <4>5
      <4>7. j - 1 \in DOMAIN queue' /\ queue'[j - 1] = queue[j] /\ j - 1 < i
        BY <1>2, <3>0, <4>3, <4>6 DEF Comes
      <4> QED
        BY <4>3, <4>7
    <3> QED
      BY <1>0, <3>1 DEF Turn, Handles, Runs
  <2> QED
    BY <2>1, <2>3, <2>4 DEF Promise
<1> QED
  BY <1>4, <1>5 DEF Fate, Promise

LEMMA AcceptFate ==
    ASSUME Settled, Sound', Fate, Accept
    PROVE  Fate'
<1>0. /\ Sound /\ Typed /\ Typed' /\ Past /\ Nascent /\ Opener /\ Refusal /\ (~ Spoiled => Promise)
      /\ UNCHANGED <<internal, svc, job, late, monitor, unanswered, marked>> /\ svc.at = "loop"
      /\ queue # <<>> /\ queue[1] = Head(queue) /\ Head(queue).kind = "accept" /\ Open(Head(queue).conn)
      /\ queue' = Tail(queue) /\ 1 \in DOMAIN queue /\ Head(queue) \in Posted
  BY FateIs, QueueIs DEF Settled, Sound, Accept, Takes, Taking, Runs, Deliverable, OfConnection, rest, locks
<1>1. PICK k \in Conns : /\ Head(queue).conn = k /\ conn[k] \in {"sent", "held", "used"}
                         /\ conn' = [conn EXCEPT ![k] = "held"]
                         /\ current' = IF current = NoOne THEN k ELSE current
  BY <1>0 DEF Posted, Linked, Past, Open, Held, Accept
<1>2. Comes(1, {})
  BY <1>0, QueueShrinks
<1>3. conn'[k] = "held" /\ (\A l \in Conns \ {k} : conn'[l] = conn[l]) /\ Ages /\ Wanes
  BY <1>0, <1>1 DEF Ages, Wanes, Live, Typed, TypedLinks
<1>4. Past'
  BY <1>0, <1>2, <1>3, PastMove
<1>5. Nascent' /\ Opener' /\ Refusal'
  <2>1. Nascent'
    BY <1>0 DEF Nascent
  <2>2. \A l \in Conns : conn'[l] = "asked" => conn[l] = "asked"
    BY <1>3
  <2>3. Opener'
    BY <1>0, <2>2, OpenerMove
  <2> QED
    BY <1>0, <1>3, <2>1, <2>3, RefusalMove
<1>6. ASSUME ~ Spoiled' PROVE Promise'
  <2>1. ~ Spoiled /\ Promise
    BY <1>0, <1>3, <1>6, SpoiledMove
  <2>2. Single' /\ Turn'
    BY <1>0, <1>2, <1>3, <2>1, SingleMove, TurnMove DEF Promise, Handles, Runs
  <2>3. Abandoned'
    <3>1. ASSUME NEW l \in Conns, Live(l)', ~ Owned(l)', conn'[l] = "sent" \/ monitor' \in Clients
          PROVE  /\ Live(l) /\ ~ Owned(l) /\ (conn[l] = "sent" \/ monitor \in Clients)
                 /\ conn[l] # "used" => conn'[l] # "used"
      BY <1>0, <1>3, <3>1 DEF Wanes, Owned
    <3> QED
      BY <1>0, <1>2, <2>1, <3>1, AbandonedMove DEF Promise
  <2>4. Reported'
    <3>1. k \notin late /\ Live(k)'
      BY <1>0, <1>3, <1>6 DEF Spoiled, Held, Live
    <3>2. \A l \in Conns : Held(l)' => Live(l)'
      BY <1>0, <1>6 DEF Spoiled, Held, Live, Typed, TypedRest
    <3>3. \A l \in Conns : Held(l)' <=> l = k
      BY <1>3, <2>2, <3>1, <3>2 DEF Single, Held
    <3>4. \A l \in Conns : Held(l) <=> current = l
      BY <1>0, <2>1 DEF Promise, Reported, Spoiled, Typed, TypedRest
    <3>5. current' = k
      <4>1. CASE current = NoOne
        BY <1>1, <4>1
      <4>2. CASE current \in Conns
        <5>1. PICK l \in Conns : l = current
          BY <4>2
        <5>2. Held(l)
          BY <3>4, <5>1
        <5>3. l # k => Held(l)'
          BY <1>3, <5>2 DEF Held
        <5> QED
          BY <1>1, <3>3, <4>2, <5>1, <5>3, InitiatorConstants
      <4> QED
        BY <1>0, <4>1, <4>2 DEF Typed, TypedLinks
    <3> QED
      BY <3>3, <3>5 DEF Reported
  <2> QED
    BY <2>1, <2>2, <2>3, <2>4 DEF Promise
<1> QED
  BY <1>4, <1>5, <1>6 DEF Fate, Promise

\* The whole invariant.
Whole == Settled /\ Fate

LEMMA InitWhole == Init => Whole
<1> SUFFICES ASSUME Init PROVE Fate
  BY InitSettled DEF Whole
<1>1. \A k \in Conns : conn[k] = "new" /\ ~ Live(k) /\ ~ Held(k)
  BY DEF Init, Live, Held
<1>2. \A c \in Clients : job[c].at = "idle"
  BY IdleJob DEF Init
<1>3. Past /\ Nascent
  BY <1>1, <1>2 DEF Init, Past, Nascent, Waiting
<1>4. Opener /\ Refusal /\ Abandoned /\ Turn /\ Single
  BY <1>1, <1>2 DEF Init, Opener, Refusal, Abandoned, Turn, Single, Handles, Runs
<1>5. Reported
  BY <1>1, InitiatorConstants DEF Init, Reported
<1> QED
  BY <1>3, <1>4, <1>5 DEF Fate

LEMMA StepWhole == Whole /\ [Next]_vars => Whole'
<1> SUFFICES ASSUME Whole, [Next]_vars PROVE Fate'
  BY StepSettled DEF Whole
<1>0. Settled /\ Sound /\ Sound' /\ Fate
  BY StepSettled DEF Whole, Settled
<1>1. CASE UNCHANGED vars
  BY <1>0, <1>1 DEF vars, states, locks, links, rest, Fate, Past, Nascent, Opener, Refusal, Spoiled, Abandoned, Turn,
                    Single, Reported, Live, Owned, Held, Queued, Handles, Runs
<1>2. ASSUME NEW c \in Clients, Call(c) \/ ClientStep(c) \/ GiveUp(c) \/ Timeout(c) PROVE Fate'
  <2>1. GiveUp(c) => At(c, "opening") \/ At(c, "closing")
    BY DEF GiveUp, At
  <2> QED
    BY <1>0, <1>2, <2>1, QuietFate, EnsureFate, ConnectFate, OpeningFate, ConnectingFate, GiveUpFate, TimeoutFate
       DEF ClientStep
<1>3. CASE ServiceStep
  BY <1>0, <1>3, ServiceCalm, TakesCalm, EnterFate, TakeOpenFate, OpenFate, CloseFate, AcceptFate DEF ServiceStep
<1>4. CASE Environment
  BY <1>0, <1>4, EnvironmentFate
<1> QED
  BY <1>1, <1>2, <1>3, <1>4 DEF Next

\* The connection that the peer has accepted is the one that Initiator reports and
\* closes when the service stops, unless one was accepted whose caller had given up
\* before it knew of it.
THEOREM ReportedHolds == Spec => []Reported
<1>1. Whole => Reported
  BY DEF Whole, Fate, Spoiled, Reported, Settled, Sound, Typed, TypedRest
<1> QED
  BY <1>1, InitWhole, StepWhole, PTL DEF Spec
=============================================================================
