---------------------------- MODULE ChannelProofs ----------------------------
(***************************************************************************)
(* What Channel.tla says of any number of client threads.                  *)
(*                                                                         *)
(* ChannelInv is inductive.  Its safety conjuncts lean on the others:      *)
(* NoneInsideClosed needs GateHeld (closeInternal clears m_fOpen only      *)
(* while it holds the gate), ClosedMeansSettled needs RequestsHeld (the    *)
(* array is empty when closeInternal gets that far, and the request gate   *)
(* keeps it so) and PendingFound (a pending request is in the array).      *)
(* One lemma per conjunct shows that a step preserves it, one step of its  *)
(* proof per action.  MarkInv, on top of it, is inductive where the usages *)
(* lose no mark (Lossless).                                                *)
(***************************************************************************)
EXTENDS Channel, TLAPS

USE ChannelConstants DEF flags, gates, reqs, net, pc, ctl, Threads, Places

\* The messages that Peer queues are well formed.
LEMMA MessageFacts ==
    /\ \A c \in Clients : Response(c) \in Messages
    /\ Unsolicited \in Messages
    /\ \A x \in Places, f \in BOOLEAN : CloseOf(x, f) \in Messages
    /\ \A m \in Messages : m.req \in Clients \cup {None} /\ m.cause \in BOOLEAN
BY DEF Response, Unsolicited, CloseOf, Messages

\* A step of control: a thread of the client or the service thread goes on to a
\* step of gateEnter, gateExit, closeInternal or of its own call.
LEMMA Moves ==
    ASSUME ControlOK, NEW t \in Threads, NEW p \in Places \cup {"call"},
           NEW s \in Closing \cup Passing \cup Calling, Goto(t, p, s),
           full' \in [Threads -> BOOLEAN], svc' \in Tasks,
           t # Service => svc' = svc,
           t = Service => ~(p = "chan" /\ s = "cancel") /\ ~(p = "call" /\ s = "complete")
    PROVE  ControlOK'
BY DEF ControlOK, Goto, At

\* A call of post or of receive that ends leaves the control state well typed.
LEMMA EndsOK ==
    ASSUME ControlOK, NEW t \in Threads, NEW s \in {"idle", "wait", "done"}, Ends(t, s)
    PROVE  ControlOK'
<1>1. s \in Calling /\ Goto(t, "call", s)
  BY DEF Ends, Calling
<1>2. full' \in [Threads -> BOOLEAN] /\ svc' \in Tasks /\ (t # Service => svc' = svc)
  BY DEF Ends, ControlOK, Tasks, NoTask
<1> QED
  BY <1>1, <1>2, Moves

\* So does one whose exception ends the daemon of the service.
LEMMA FinishesOK == ASSUME ControlOK, NEW t \in Threads, Finishes(t) PROVE ControlOK'
BY EndsOK DEF Finishes

\* So does gateExit once it has left a gate, which goes on to the channel's mark
\* or returns.
LEMMA AfterGateOK ==
    ASSUME ControlOK, NEW t \in Threads, NEW x \in Places, AfterGate(t, x) PROVE ControlOK'
<1>1. CASE x = "conn" /\ full[t]
  <2>1. Goto(t, "chan", "last") /\ UNCHANGED ctl
    BY <1>1 DEF AfterGate
  <2> QED
    BY <2>1, Moves DEF ControlOK, Passing
<1>2. CASE ~(x = "conn" /\ full[t])
  BY <1>2, FinishesOK DEF AfterGate
<1> QED
  BY <1>1, <1>2

\* So does a gateEnter that throws.
LEMMA RefusedOK ==
    ASSUME ControlOK, NEW t \in Threads, NEW x \in Places, Refused(t, x) PROVE ControlOK'
<1>1. CASE x = "chan"
  <2>1. /\ Goto(t, "conn", "exit") /\ full' = [full EXCEPT ![t] = FALSE]
        /\ svc' = IF t = Service THEN [svc EXCEPT !.exposed = TRUE] ELSE svc
    BY <1>1 DEF Refused
  <2>2. svc' \in Tasks /\ full' \in [Threads -> BOOLEAN]
    BY <2>1 DEF ControlOK, Tasks
  <2> QED
    BY <2>1, <2>2, Moves DEF Passing
<1>2. CASE x # "chan"
  BY <1>2, EndsOK, FinishesOK DEF Refused
<1> QED
  BY <1>1, <1>2

\* So does a closeInternal that throws.
LEMMA ThrowsOK == ASSUME ControlOK, Throws PROVE ControlOK'
<1>1. PICK s \in {"idle", "done"} : Ends(Service, s)
  BY DEF Throws
<1> QED
  BY <1>1, EndsOK

\* So does PofChannel::closeInternal when it returns to its caller.
LEMMA ReturnsOK == ASSUME ControlOK, ChannelReturns PROVE ControlOK'
<1>1. CASE svc.nested
  BY <1>1, Moves DEF ChannelReturns, ControlOK, Closing
<1>2. CASE ~svc.nested
  BY <1>2, FinishesOK DEF ChannelReturns
<1> QED
  BY <1>1, <1>2

\* The state the constructors of channel and connection set up is well typed.
LEMMA TypeInit == Init => TypeOK
<1> SUFFICES ASSUME Init PROVE TypeOK
  OBVIOUS
<1>1. GatesOK
  BY DEF Init, GatesOK
<1>2. RequestsOK
  <2>1. queue \in Seq(Messages) /\ calls \in Nat
    BY DEF Init
  <2> QED
    BY <2>1 DEF Init, RequestsOK
<1>3. ControlOK
  BY DEF Init, ControlOK, NoTask, Tasks, Calling, At
<1> QED
  BY <1>1, <1>2, <1>3 DEF TypeOK

\* Every step of a client, of the service thread and of the peer keeps the types;
\* in particular the iterator of closeInternal never hands out a null request.
LEMMA TypeStep == ASSUME TypeOK, [Next]_vars PROVE TypeOK'
<1> USE DEF TypeOK
<1>1. ASSUME NEW c \in Clients, Register(c) PROVE TypeOK'
  <2>1. GatesOK'
    BY <1>1 DEF GatesOK, Register, Set
  <2>2. RequestsOK'
    BY <1>1 DEF RequestsOK, Register, Set
  <2>3. ControlOK'
    BY ZenonT(60), <1>1 DEF Register, Set, ControlOK, At, Closing, Passing, Calling, Goto
  <2> QED
    BY <2>1, <2>2, <2>3
<1>2. ASSUME NEW c \in Clients, GiveUp(c) PROVE TypeOK'
  <2>1. GatesOK'
    BY <1>2 DEF GatesOK, GiveUp, Settle
  <2>2. RequestsOK'
    BY <1>2 DEF RequestsOK, GiveUp, Settle, Outcomes
  <2>3. ControlOK'
    BY <1>2 DEF GiveUp, Settle, ControlOK, At, Closing, Passing, Calling, Goto
  <2> QED
    BY <2>1, <2>2, <2>3
<1>3. ASSUME NEW c \in Clients, Answer(c) PROVE TypeOK'
  <2>1. GatesOK'
    BY <1>3 DEF GatesOK, Answer
  <2>2. RequestsOK'
    BY <1>3, MessageFacts DEF RequestsOK, Answer
  <2>3. ControlOK'
    BY <1>3 DEF Answer, ControlOK, At
  <2> QED
    BY <2>1, <2>2, <2>3
<1>4. ASSUME NEW c \in Clients, Send(c) PROVE TypeOK'
  <2>1. GatesOK'
    <3>1. \/ UNCHANGED <<closeOnExit, exc>>
          \/ \E x \in Places : closeOnExit' = Set(closeOnExit, x) /\ exc' = Set(exc, x)
      BY <1>4 DEF Send
    <3>2. closeOnExit' \in [Places -> BOOLEAN]
      BY <3>1 DEF GatesOK, Set
    <3>3. exc' \in [Places -> BOOLEAN]
      BY <3>1 DEF GatesOK, Set
    <3> QED
      BY <1>4, <3>2, <3>3 DEF GatesOK, Send
  <2>2. RequestsOK'
    BY <1>4 DEF RequestsOK, Send, Set
  <2>3. ControlOK'
    BY <1>4 DEF Send, Set, ControlOK, At, Closing, Passing, Calling, Goto
  <2> QED
    BY <2>1, <2>2, <2>3
<1>5. ASSUME NEW c \in Clients, CancelUnsent(c) PROVE TypeOK'
  <2>1. GatesOK'
    BY <1>5 DEF GatesOK, CancelUnsent, Settle
  <2>2. RequestsOK'
    BY <1>5 DEF RequestsOK, CancelUnsent, Settle, Outcomes
  <2>3. ControlOK'
    BY <1>5 DEF CancelUnsent, Settle, ControlOK, At, Closing, Passing, Calling, Goto
  <2> QED
    BY <2>1, <2>2, <2>3
<1>6. ASSUME NEW c \in Clients, WaitEnds(c) PROVE TypeOK'
  <2>1. GatesOK'
    BY <1>6 DEF GatesOK, WaitEnds
  <2>2. RequestsOK'
    BY <1>6 DEF RequestsOK, WaitEnds
  <2>3. ControlOK'
    BY <1>6 DEF WaitEnds, ControlOK, At, Closing, Passing, Calling, Goto
  <2> QED
    BY <2>1, <2>2, <2>3
<1>7. ASSUME NEW t \in Threads, Unregister(t) PROVE TypeOK'
  <2>1. GatesOK'
    BY <1>7 DEF GatesOK, Unregister
  <2>2. RequestsOK'
    BY <1>7 DEF RequestsOK, Unregister
  <2>3. ControlOK'
    BY <1>7 DEF Unregister, ControlOK, At, Closing, Passing, Calling, Goto
  <2> QED
    BY <2>1, <2>2, <2>3
<1>8. ASSUME NEW t \in Threads, NEW x \in Places, Check(t, x) PROVE TypeOK'
  <2>1. GatesOK'
    BY <1>8 DEF GatesOK, Check, Refused, Finishes, Ends
  <2>2. RequestsOK'
    BY <1>8 DEF RequestsOK, Check, Refused, Finishes, Ends
  <2>3. ControlOK'
    <3>1. CASE closeOnExit[x]
      BY <1>8, <3>1, RefusedOK DEF Check
    <3>2. CASE ~closeOnExit[x]
      BY <1>8, <3>2, Moves DEF Check, ControlOK, Passing
    <3> QED
      BY <3>1, <3>2
  <2> QED
    BY <2>1, <2>2, <2>3
<1>9. ASSUME NEW t \in Threads, NEW x \in Places, Enter(t, x) PROVE TypeOK'
  <2>1. GatesOK'
    BY <1>9 DEF GatesOK, Enter, Refused, Finishes, Ends
  <2>2. RequestsOK'
    BY <1>9 DEF RequestsOK, Enter, Refused, Finishes, Ends
  <2>3. ControlOK'
    <3>1. CASE ~(CanEnter(x) /\ open[x])
      BY <1>9, <3>1, RefusedOK DEF Enter
    <3>2. CASE CanEnter(x) /\ open[x]
      <4>1. UNCHANGED ctl /\ \E q \in {<<"call", "inside">>, <<"chan", "check">>, <<"call", "notify">>} : Goto(t, q[1], q[2])
        BY <1>9, <3>2 DEF Enter
      <4> QED
        BY <4>1, Moves DEF ControlOK, Passing, Calling
    <3> QED
      BY <3>1, <3>2
  <2> QED
    BY <2>1, <2>2, <2>3
<1>10. ASSUME NEW t \in Threads, NEW x \in Places, Exit(t, x) PROVE TypeOK'
  <2>1. GatesOK'
    BY <1>10 DEF GatesOK, Exit
  <2>2. RequestsOK'
    BY <1>10 DEF RequestsOK, Exit
  <2>3. ControlOK'
    BY <1>10 DEF Exit, ControlOK, At, Closing, Passing, Calling, Goto
  <2> QED
    BY <2>1, <2>2, <2>3
<1>11. ASSUME NEW t \in Threads, NEW x \in Places, Last(t, x) PROVE TypeOK'
  <2>1. GatesOK'
    BY <1>11 DEF GatesOK, Last, AfterGate, Finishes, Ends
  <2>2. RequestsOK'
    BY <1>11 DEF RequestsOK, Last, AfterGate, Finishes, Ends
  <2>3. ControlOK'
    <3>1. CASE closeOnExit[x] /\ CanClose(x)
      BY <1>11, <3>1, Moves DEF Last, ControlOK, Passing
    <3>2. CASE ~(closeOnExit[x] /\ CanClose(x))
      BY <1>11, <3>2, AfterGateOK DEF Last
    <3> QED
      BY <3>1, <3>2
  <2> QED
    BY <2>1, <2>2, <2>3
<1>12. ASSUME NEW t \in Threads, NEW x \in Places, Held(t, x) PROVE TypeOK'
  <2>1. GatesOK'
    BY <1>12 DEF GatesOK, Held, AfterGate, Finishes, Ends
  <2>2. RequestsOK'
    <3>1. exc[x] \in BOOLEAN
      BY DEF GatesOK
    <3>2. queue' = queue \/ queue' = Append(queue, CloseOf(x, exc[x]))
      BY <1>12 DEF Held
    <3>3. CloseOf(x, exc[x]) \in Messages
      BY <3>1, MessageFacts
    <3>4. queue' \in Seq(Messages)
      BY <3>2, <3>3 DEF RequestsOK
    <3> QED
      BY <1>12, <3>4 DEF RequestsOK, Held
  <2>3. ControlOK'
    <3>1. CASE AfterGate(t, x)
      BY <3>1, AfterGateOK
    <3>2. CASE ~AfterGate(t, x)
      <4>1. /\ t = Service /\ Goto(t, x, "begin") /\ UNCHANGED full
            /\ svc' = [svc EXCEPT !.cause = exc[x], !.nested = FALSE]
        BY <1>12, <3>2 DEF Held
      <4>2. svc' \in Tasks
        BY <4>1 DEF GatesOK, ControlOK, Tasks
      <4> QED
        BY <4>1, <4>2, Moves DEF ControlOK, Closing
    <3> QED
      BY <3>1, <3>2
  <2> QED
    BY <2>1, <2>2, <2>3
<1>13. ASSUME SendEvent PROVE TypeOK'
  <2>1. GatesOK'
    BY <1>13 DEF GatesOK, SendEvent
  <2>2. RequestsOK'
    BY <1>13, MessageFacts DEF RequestsOK, SendEvent
  <2>3. ControlOK'
    BY <1>13 DEF SendEvent, ControlOK, At
  <2> QED
    BY <2>1, <2>2, <2>3
<1>14. ASSUME NEW x \in Places, NEW f \in BOOLEAN, CallClose(x, f) PROVE TypeOK'
  <2>1. GatesOK'
    BY <1>14 DEF GatesOK, CallClose
  <2>2. RequestsOK'
    BY <1>14, MessageFacts DEF RequestsOK, CallClose
  <2>3. ControlOK'
    BY <1>14 DEF CallClose, ControlOK, At
  <2> QED
    BY <2>1, <2>2, <2>3
<1>15. ASSUME Dispatch PROVE TypeOK'
  <2>1. GatesOK'
    BY <1>15 DEF GatesOK, Dispatch, Set
  <2>2. RequestsOK'
    BY <1>15, MessageFacts DEF RequestsOK, Dispatch, Set
  <2>3. ControlOK'
    <3> DEFINE m == Head(queue)
    <3>1. m \in Messages
      BY <1>15 DEF Dispatch, RequestsOK
    <3>2. CASE UNCHANGED <<pc, ctl>>
      BY <3>2 DEF ControlOK, At
    <3>3. CASE ~UNCHANGED <<pc, ctl>>
      <4>1. /\ full' \in [Threads -> BOOLEAN]
            /\ \/ /\ m.type \in Places /\ svc' = [svc EXCEPT !.cause = m.cause]
                  /\ Goto(Service, m.type, "begin")
               \/ /\ svc' = [svc EXCEPT !.req = m.req, !.event = (m.type = "event")]
                  /\ Goto(Service, "conn", "check")
               \/ \E x \in Places :
                     /\ svc' = [svc EXCEPT !.cause = TRUE, !.exposed = TRUE]
                     /\ Goto(Service, x, "begin")
        BY <1>15, <3>3 DEF Dispatch, ControlOK, Set
      <4>2. svc' \in Tasks
        <5>1. svc \in Tasks /\ m.req \in Clients \cup {None} /\ m.cause \in BOOLEAN
          BY <3>1, MessageFacts DEF ControlOK
        <5>2. CASE m.type \in Places /\ svc' = [svc EXCEPT !.cause = m.cause]
          BY <5>1, <5>2 DEF Tasks
        <5>3. CASE svc' = [svc EXCEPT !.req = m.req, !.event = (m.type = "event")]
          BY <5>1, <5>3 DEF Tasks
        <5>4. CASE svc' = [svc EXCEPT !.cause = TRUE, !.exposed = TRUE]
          BY <5>1, <5>4 DEF Tasks
        <5> QED
          BY <4>1, <5>2, <5>3, <5>4
      <4>3. PICK p \in Places, s \in {"begin", "check"} : Goto(Service, p, s)
        BY <4>1
      <4> QED
        BY <4>1, <4>2, <4>3, Moves DEF Closing, Passing
    <3> QED
      BY <3>2, <3>3
  <2> QED
    BY <2>1, <2>2, <2>3
<1>16. ASSUME ReceiveResponse PROVE TypeOK'
  <2>1. GatesOK'
    BY <1>16 DEF GatesOK, ReceiveResponse
  <2>2. RequestsOK'
    BY <1>16 DEF RequestsOK, ReceiveResponse
  <2>3. ControlOK'
    <3>1. CASE svc.req \in table
      BY <1>16, <3>1 DEF ReceiveResponse, ControlOK, RequestsOK, At, Goto, Calling
    <3>2. CASE svc.req \notin table
      BY <1>16, <3>2, Moves DEF ReceiveResponse, ControlOK, Passing
    <3> QED
      BY <3>1, <3>2
  <2> QED
    BY <2>1, <2>2, <2>3
<1>17. ASSUME ReceiveEvent PROVE TypeOK'
  <2>1. GatesOK'
    <3>1. closeOnExit' \in [Places -> BOOLEAN] /\ exc' \in [Places -> BOOLEAN]
      BY <1>17 DEF GatesOK, ReceiveEvent, Set
    <3>2. UNCHANGED <<open, inside, owner, mapped>>
      BY <1>17 DEF ReceiveEvent
    <3> QED
      BY <3>1, <3>2 DEF GatesOK
  <2>2. RequestsOK'
    BY <1>17 DEF RequestsOK, ReceiveEvent, Set
  <2>3. ControlOK'
    <3>1. svc' \in Tasks
      BY <1>17 DEF ReceiveEvent, ControlOK, GatesOK, Tasks
    <3> QED
      BY <1>17, <3>1, Moves DEF ReceiveEvent, ControlOK, Passing
  <2> QED
    BY <2>1, <2>2, <2>3
<1>18. ASSUME Complete PROVE TypeOK'
  <2>1. GatesOK'
    BY <1>18 DEF GatesOK, Complete, Settle
  <2>2. RequestsOK'
    BY <1>18 DEF RequestsOK, Complete, Settle, Outcomes
  <2>3. ControlOK'
    BY <1>18 DEF Complete, Settle, ControlOK, At, Closing, Passing, Calling, Goto
  <2> QED
    BY <2>1, <2>2, <2>3
<1>19. ASSUME BeginChannel PROVE TypeOK'
  <2>1. GatesOK'
    BY <1>19 DEF GatesOK, BeginChannel, ChannelReturns, Finishes, Ends
  <2>2. RequestsOK'
    BY <1>19 DEF RequestsOK, BeginChannel, ChannelReturns, Finishes, Ends
  <2>3. ControlOK'
    <3>1. CASE open["chan"]
      <4>1. svc' \in Tasks
        <5>1. PICK f \in BOOLEAN : svc' = [svc EXCEPT !.more = f]
          BY <1>19, <3>1, Zenon DEF BeginChannel
        <5> QED
          BY <5>1 DEF ControlOK, Tasks
      <4> QED
        BY <1>19, <3>1, <4>1, Moves DEF BeginChannel, ControlOK, Closing
    <3>2. CASE ~open["chan"]
      BY <1>19, <3>2, ReturnsOK DEF BeginChannel
    <3> QED
      BY <3>1, <3>2
  <2> QED
    BY <2>1, <2>2, <2>3
<1>20. ASSUME CancelNext PROVE TypeOK'
  <2>1. GatesOK'
    BY <1>20 DEF GatesOK, CancelNext, Throws, Finishes, Ends
  <2>2. RequestsOK'
    BY <1>20 DEF RequestsOK, CancelNext, Throws, Finishes, Ends
  <2>3. ControlOK'
    <3>1. CASE ~svc.more
      BY <1>20, <3>1, Moves DEF CancelNext, ControlOK, Closing
    <3>2. CASE Throws
      BY <3>2, ThrowsOK
    <3>3. CASE svc.more /\ ~Throws
      <4>1. PICK r \in table : /\ svc' = [svc EXCEPT !.req = r, !.more = (table # {r})]
                              /\ Goto(Service, "chan", "cancel") /\ UNCHANGED full
        BY <1>20, <3>3 DEF CancelNext
      <4>2. r \in Clients /\ svc' \in Tasks /\ svc'.req = r
        BY <4>1 DEF ControlOK, RequestsOK, Tasks
      <4> QED
        BY <4>1, <4>2 DEF ControlOK, Goto, At, Closing
    <3> QED
      BY <3>1, <3>2, <3>3
  <2> QED
    BY <2>1, <2>2, <2>3
<1>21. ASSUME CancelPending PROVE TypeOK'
  <2>1. GatesOK'
    BY <1>21 DEF GatesOK, CancelPending, Settle
  <2>2. RequestsOK'
    BY <1>21 DEF RequestsOK, CancelPending, Settle, Outcomes
  <2>3. ControlOK'
    BY <1>21 DEF CancelPending, Settle, ControlOK, At, Closing, Passing, Calling, Goto
  <2> QED
    BY <2>1, <2>2, <2>3
<1>22. ASSUME BeginConnection PROVE TypeOK'
  <2>1. GatesOK'
    BY <1>22 DEF GatesOK, BeginConnection, AfterGate, Finishes, Ends
  <2>2. RequestsOK'
    BY <1>22 DEF RequestsOK, BeginConnection, AfterGate, Finishes, Ends
  <2>3. ControlOK'
    <3>1. CASE open["conn"]
      <4>1. svc' \in Tasks
        BY <1>22, <3>1 DEF BeginConnection, ControlOK, GatesOK, Tasks
      <4>2. UNCHANGED full /\ (Goto(Service, "chan", "begin") \/ Goto(Service, "conn", "try"))
        BY <1>22, <3>1 DEF BeginConnection
      <4> QED
        BY <4>1, <4>2, Moves DEF ControlOK, Closing
    <3>2. CASE ~open["conn"]
      BY <1>22, <3>2, AfterGateOK DEF BeginConnection
    <3> QED
      BY <3>1, <3>2
  <2> QED
    BY <2>1, <2>2, <2>3
<1>23. ASSUME NEW x \in Places, Try(x) PROVE TypeOK'
  <2>1. GatesOK'
    BY <1>23 DEF GatesOK, Try
  <2>2. RequestsOK'
    BY <1>23 DEF RequestsOK, Try
  <2>3. ControlOK'
    BY <1>23 DEF Try, ControlOK, At, Closing, Passing, Calling, Goto
  <2> QED
    BY <2>1, <2>2, <2>3
<1>24. ASSUME NEW x \in Places, Mark(x) PROVE TypeOK'
  <2>1. GatesOK'
    <3>1. closeOnExit' \in [Places -> BOOLEAN]
      BY <1>24 DEF GatesOK, Mark, Set
    <3>2. exc' \in [Places -> BOOLEAN]
      BY <1>24 DEF GatesOK, Mark, ControlOK, Tasks
    <3> QED
      BY <1>24, <3>1, <3>2 DEF GatesOK, Mark
  <2>2. RequestsOK'
    BY <1>24 DEF RequestsOK, Mark, Throws, Finishes, Ends, Set
  <2>3. ControlOK'
    <3>1. CASE x = "chan" /\ exc[x]
      BY <1>24, <3>1, ThrowsOK DEF Mark
    <3>2. CASE ~(x = "chan" /\ exc[x])
      BY <1>24, <3>2, Moves DEF Mark, ControlOK, Closing
    <3> QED
      BY <3>1, <3>2
  <2> QED
    BY <2>1, <2>2, <2>3
<1>25. ASSUME NEW x \in Places, Retry(x) PROVE TypeOK'
  <2>1. GatesOK'
    BY <1>25 DEF GatesOK, Retry, ChannelReturns, AfterGate, Finishes, Ends
  <2>2. RequestsOK'
    BY <1>25 DEF RequestsOK, Retry, ChannelReturns, AfterGate, Finishes, Ends
  <2>3. ControlOK'
    <3>1. CASE CanClose(x)
      BY <1>25, <3>1, Moves DEF Retry, ControlOK, Closing
    <3>2. CASE ~CanClose(x)
      BY <1>25, <3>2, ReturnsOK, AfterGateOK DEF Retry
    <3> QED
      BY <3>1, <3>2
  <2> QED
    BY <2>1, <2>2, <2>3
<1>26. ASSUME ShutChannel PROVE TypeOK'
  <2>1. GatesOK'
    BY <1>26 DEF GatesOK, ShutChannel, ChannelReturns, Finishes, Ends
  <2>2. RequestsOK'
    BY <1>26 DEF RequestsOK, ShutChannel, ChannelReturns, Finishes, Ends
  <2>3. ControlOK'
    <3>1. CASE ChannelReturns
      BY <3>1, ReturnsOK
    <3>2. CASE ~ChannelReturns
      <4>1. /\ Goto(Service, "conn", "check") /\ full' = [full EXCEPT ![Service] = FALSE]
            /\ svc' = [svc EXCEPT !.exposed = FALSE]
        BY <1>26, <3>2 DEF ShutChannel
      <4>2. svc' \in Tasks /\ full' \in [Threads -> BOOLEAN]
        BY <4>1 DEF ControlOK, Tasks
      <4> QED
        BY <4>1, <4>2, Moves DEF Passing
    <3> QED
      BY <3>1, <3>2
  <2> QED
    BY <2>1, <2>2, <2>3
<1>27. ASSUME ShutConnection PROVE TypeOK'
  <2>1. GatesOK'
    BY <1>27 DEF GatesOK, ShutConnection, AfterGate, Finishes, Ends
  <2>2. RequestsOK'
    BY <1>27 DEF RequestsOK, ShutConnection, AfterGate, Finishes, Ends
  <2>3. ControlOK'
    BY <1>27, AfterGateOK DEF ShutConnection
  <2> QED
    BY <2>1, <2>2, <2>3
<1>28. ASSUME Notify PROVE TypeOK'
  <2>1. GatesOK'
    BY <1>28 DEF GatesOK, Notify, Set
  <2>2. RequestsOK'
    BY <1>28 DEF RequestsOK, Notify, Set
  <2>3. ControlOK'
    BY <1>28 DEF Notify, Set, ControlOK, At, Closing, Passing, Calling, Goto
  <2> QED
    BY <2>1, <2>2, <2>3
<1>29. CASE UNCHANGED vars
  BY <1>29 DEF vars, GatesOK, RequestsOK, ControlOK, At
<1>30. CASE ServiceStep
  BY <1>30, <1>7, <1>8, <1>9, <1>10, <1>11, <1>12, <1>15, <1>16, <1>17, <1>18, <1>19, <1>20, <1>21, <1>22, <1>23, <1>24, <1>25, <1>26, <1>27, <1>28 DEF ServiceStep, Pass
<1>31. ASSUME NEW c \in Clients, ClientStep(c) PROVE TypeOK'
  BY <1>31, <1>4, <1>5, <1>6, <1>7, <1>8, <1>9, <1>10, <1>11, <1>12 DEF ClientStep, Pass
<1>32. CASE Environment
  BY <1>32, <1>1, <1>2, <1>3, <1>13, <1>14 DEF Environment
<1> QED
  BY <1>29, <1>30, <1>31, <1>32 DEF Next

\* Whoever holds a gate closed (the last thread of gateExit, or closeInternal) is
\* alone: enter(0) fails while it does.
LEMMA GateHeldStep == ASSUME TypeOK, GateHeld, [Next]_vars PROVE GateHeld'
<1> USE DEF GateHeld, TypeOK, GatesOK, ControlOK, CanClose, CanEnter, At, Goto
<1>1. ASSUME NEW c \in Clients, Register(c) PROVE GateHeld'
  BY <1>1 DEF Register, Set
<1>2. ASSUME NEW c \in Clients, GiveUp(c) PROVE GateHeld'
  BY <1>2 DEF GiveUp, Settle
<1>3. ASSUME NEW c \in Clients, Answer(c) PROVE GateHeld'
  BY <1>3 DEF Answer
<1>4. ASSUME NEW c \in Clients, Send(c) PROVE GateHeld'
  BY <1>4 DEF Send, Set
<1>5. ASSUME NEW c \in Clients, CancelUnsent(c) PROVE GateHeld'
  BY <1>5 DEF CancelUnsent, Settle
<1>6. ASSUME NEW c \in Clients, WaitEnds(c) PROVE GateHeld'
  BY <1>6 DEF WaitEnds
<1>7. ASSUME NEW t \in Threads, Unregister(t) PROVE GateHeld'
  BY <1>7 DEF Unregister
<1>8. ASSUME NEW t \in Threads, NEW x \in Places, Check(t, x) PROVE GateHeld'
  BY <1>8 DEF Check, Refused, Finishes, Ends
<1>9. ASSUME NEW t \in Threads, NEW x \in Places, Enter(t, x) PROVE GateHeld'
  BY <1>9 DEF Enter, Refused, Finishes, Ends
<1>10. ASSUME NEW t \in Threads, NEW x \in Places, Exit(t, x) PROVE GateHeld'
  BY <1>10 DEF Exit
<1>11. ASSUME NEW t \in Threads, NEW x \in Places, Last(t, x) PROVE GateHeld'
  BY <1>11 DEF Last, AfterGate, Finishes, Ends
<1>12. ASSUME NEW t \in Threads, NEW x \in Places, Held(t, x) PROVE GateHeld'
  BY <1>12 DEF Held, AfterGate, Finishes, Ends
<1>13. ASSUME SendEvent PROVE GateHeld'
  BY <1>13 DEF SendEvent
<1>14. ASSUME NEW x \in Places, NEW f \in BOOLEAN, CallClose(x, f) PROVE GateHeld'
  BY <1>14 DEF CallClose
<1>15. ASSUME Dispatch PROVE GateHeld'
  BY <1>15 DEF Dispatch, Set
<1>16. ASSUME ReceiveResponse PROVE GateHeld'
  BY <1>16 DEF ReceiveResponse
<1>17. ASSUME ReceiveEvent PROVE GateHeld'
  BY <1>17 DEF ReceiveEvent, Set
<1>18. ASSUME Complete PROVE GateHeld'
  BY <1>18 DEF Complete, Settle
<1>19. ASSUME BeginChannel PROVE GateHeld'
  BY <1>19 DEF BeginChannel, ChannelReturns, Finishes, Ends
<1>20. ASSUME CancelNext PROVE GateHeld'
  <2>1. \E p \in {"chan", "call"}, s \in {"try", "cancel", "idle", "done"} : Goto(Service, p, s)
    BY <1>20 DEF CancelNext, Throws, Finishes, Ends
  <2>2. UNCHANGED <<owner, inside>>
    BY <1>20 DEF CancelNext
  <2> QED
    BY <2>1, <2>2
<1>21. ASSUME CancelPending PROVE GateHeld'
  BY <1>21 DEF CancelPending, Settle
<1>22. ASSUME BeginConnection PROVE GateHeld'
  BY <1>22 DEF BeginConnection, AfterGate, Finishes, Ends
<1>23. ASSUME NEW x \in Places, Try(x) PROVE GateHeld'
  BY <1>23 DEF Try
<1>24. ASSUME NEW x \in Places, Mark(x) PROVE GateHeld'
  BY <1>24 DEF Mark, Throws, Finishes, Ends, Set
<1>25. ASSUME NEW x \in Places, Retry(x) PROVE GateHeld'
  BY <1>25 DEF Retry, ChannelReturns, AfterGate, Finishes, Ends
<1>26. ASSUME ShutChannel PROVE GateHeld'
  BY <1>26 DEF ShutChannel, ChannelReturns, Finishes, Ends
<1>27. ASSUME ShutConnection PROVE GateHeld'
  BY <1>27 DEF ShutConnection, AfterGate, Finishes, Ends
<1>28. ASSUME Notify PROVE GateHeld'
  BY <1>28 DEF Notify, Set
<1>29. CASE UNCHANGED vars
  BY <1>29 DEF vars
<1>30. CASE ServiceStep
  BY <1>30, <1>7, <1>8, <1>9, <1>10, <1>11, <1>12, <1>15, <1>16, <1>17, <1>18, <1>19, <1>20, <1>21, <1>22, <1>23, <1>24, <1>25, <1>26, <1>27, <1>28 DEF ServiceStep, Pass
<1>31. ASSUME NEW c \in Clients, ClientStep(c) PROVE GateHeld'
  BY <1>31, <1>4, <1>5, <1>6, <1>7, <1>8, <1>9, <1>10, <1>11, <1>12 DEF ClientStep, Pass
<1>32. CASE Environment
  BY <1>32, <1>1, <1>2, <1>3, <1>13, <1>14 DEF Environment
<1> QED
  BY <1>29, <1>30, <1>31, <1>32 DEF Next

\* From the moment closeInternal closes the request gate until it opens it again
\* the request array only shrinks, and it is empty when closeInternal goes on.
LEMMA RequestsHeldStep == ASSUME TypeOK, RequestsHeld, [Next]_vars PROVE RequestsHeld'
<1> USE DEF RequestsHeld, TypeOK, ControlOK, Cancels, Shuts, At, Goto
<1>1. ASSUME NEW c \in Clients, Register(c) PROVE RequestsHeld'
  BY <1>1 DEF Register, Set
<1>2. ASSUME NEW c \in Clients, GiveUp(c) PROVE RequestsHeld'
  BY <1>2 DEF GiveUp, Settle
<1>3. ASSUME NEW c \in Clients, Answer(c) PROVE RequestsHeld'
  BY <1>3 DEF Answer
<1>4. ASSUME NEW c \in Clients, Send(c) PROVE RequestsHeld'
  BY <1>4 DEF Send, Set
<1>5. ASSUME NEW c \in Clients, CancelUnsent(c) PROVE RequestsHeld'
  BY <1>5 DEF CancelUnsent, Settle
<1>6. ASSUME NEW c \in Clients, WaitEnds(c) PROVE RequestsHeld'
  BY <1>6 DEF WaitEnds
<1>7. ASSUME NEW t \in Threads, Unregister(t) PROVE RequestsHeld'
  BY <1>7 DEF Unregister
<1>8. ASSUME NEW t \in Threads, NEW x \in Places, Check(t, x) PROVE RequestsHeld'
  BY <1>8 DEF Check, Refused, Finishes, Ends
<1>9. ASSUME NEW t \in Threads, NEW x \in Places, Enter(t, x) PROVE RequestsHeld'
  BY <1>9 DEF Enter, Refused, Finishes, Ends
<1>10. ASSUME NEW t \in Threads, NEW x \in Places, Exit(t, x) PROVE RequestsHeld'
  BY <1>10 DEF Exit
<1>11. ASSUME NEW t \in Threads, NEW x \in Places, Last(t, x) PROVE RequestsHeld'
  BY <1>11 DEF Last, AfterGate, Finishes, Ends
<1>12. ASSUME NEW t \in Threads, NEW x \in Places, Held(t, x) PROVE RequestsHeld'
  BY <1>12 DEF Held, AfterGate, Finishes, Ends
<1>13. ASSUME SendEvent PROVE RequestsHeld'
  BY <1>13 DEF SendEvent
<1>14. ASSUME NEW x \in Places, NEW f \in BOOLEAN, CallClose(x, f) PROVE RequestsHeld'
  BY <1>14 DEF CallClose
<1>15. ASSUME Dispatch PROVE RequestsHeld'
  BY <1>15 DEF Dispatch, Set
<1>16. ASSUME ReceiveResponse PROVE RequestsHeld'
  BY <1>16 DEF ReceiveResponse
<1>17. ASSUME ReceiveEvent PROVE RequestsHeld'
  BY <1>17 DEF ReceiveEvent, Set
<1>18. ASSUME Complete PROVE RequestsHeld'
  BY <1>18 DEF Complete, Settle
<1>19. ASSUME BeginChannel PROVE RequestsHeld'
  <2>1. CASE open["chan"]
    <3>1. gateClosed' /\ UNCHANGED <<open, table>> /\ Goto(Service, "chan", "next")
      BY <1>19, <2>1 DEF BeginChannel
    <3>2. svc'.more \/ table = {}
      <4>1. CASE table # {}
        <5>1. svc' = [svc EXCEPT !.more = TRUE]
          BY <1>19, <2>1, <4>1, Zenon DEF BeginChannel
        <5> QED
          BY <5>1 DEF Tasks
      <4> QED
        BY <4>1
    <3> QED
      BY <2>1, <3>1, <3>2
  <2>2. CASE ~open["chan"]
    BY <1>19, <2>2 DEF BeginChannel, ChannelReturns, Finishes, Ends
  <2> QED
    BY <2>1, <2>2
<1>20. ASSUME CancelNext PROVE RequestsHeld'
  <2>1. CASE ~svc.more
    BY <1>20, <2>1 DEF CancelNext
  <2>2. CASE Throws
    BY <1>20, <2>2 DEF Throws, Finishes, Ends
  <2>3. CASE svc.more /\ ~Throws
    <3>1. PICK r \in table : /\ table' = table \ {r}
                            /\ svc' = [svc EXCEPT !.req = r, !.more = (table # {r})]
                            /\ Goto(Service, "chan", "cancel") /\ UNCHANGED <<gateClosed, open>>
      BY <1>20, <2>3 DEF CancelNext
    <3>2. svc'.more \/ table' = {}
      <4>1. CASE table # {r}
        <5>1. svc' = [svc EXCEPT !.req = r, !.more = TRUE]
          BY <3>1, <4>1, Zenon
        <5> QED
          BY <5>1 DEF Tasks
      <4>2. CASE table = {r}
        BY <3>1, <4>2
      <4> QED
        BY <4>1, <4>2
    <3> QED
      BY <1>20, <3>1, <3>2 DEF CancelNext
  <2> QED
    BY <2>1, <2>2, <2>3
<1>21. ASSUME CancelPending PROVE RequestsHeld'
  BY <1>21 DEF CancelPending, Settle
<1>22. ASSUME BeginConnection PROVE RequestsHeld'
  BY <1>22 DEF BeginConnection, AfterGate, Finishes, Ends
<1>23. ASSUME NEW x \in Places, Try(x) PROVE RequestsHeld'
  BY <1>23 DEF Try
<1>24. ASSUME NEW x \in Places, Mark(x) PROVE RequestsHeld'
  BY <1>24 DEF Mark, Throws, Finishes, Ends, Set
<1>25. ASSUME NEW x \in Places, Retry(x) PROVE RequestsHeld'
  BY <1>25 DEF Retry, ChannelReturns, AfterGate, Finishes, Ends
<1>26. ASSUME ShutChannel PROVE RequestsHeld'
  BY <1>26 DEF ShutChannel, ChannelReturns, Finishes, Ends
<1>27. ASSUME ShutConnection PROVE RequestsHeld'
  BY <1>27 DEF ShutConnection, AfterGate, Finishes, Ends
<1>28. ASSUME Notify PROVE RequestsHeld'
  BY <1>28 DEF Notify, Set
<1>29. CASE UNCHANGED vars
  BY <1>29 DEF vars
<1>30. CASE ServiceStep
  BY <1>30, <1>7, <1>8, <1>9, <1>10, <1>11, <1>12, <1>15, <1>16, <1>17, <1>18, <1>19, <1>20, <1>21, <1>22, <1>23, <1>24, <1>25, <1>26, <1>27, <1>28 DEF ServiceStep, Pass
<1>31. ASSUME NEW c \in Clients, ClientStep(c) PROVE RequestsHeld'
  BY <1>31, <1>4, <1>5, <1>6, <1>7, <1>8, <1>9, <1>10, <1>11, <1>12 DEF ClientStep, Pass
<1>32. CASE Environment
  BY <1>32, <1>1, <1>2, <1>3, <1>13, <1>14 DEF Environment
<1> QED
  BY <1>29, <1>30, <1>31, <1>32 DEF Next

\* A pending request stays registered until somebody completes it.
LEMMA PendingFoundStep == ASSUME TypeOK, PendingFound, [Next]_vars PROVE PendingFound'
<1> USE DEF PendingFound, TypeOK, RequestsOK, ControlOK, Outcomes, At, Goto
<1>1. ASSUME NEW c \in Clients, Register(c) PROVE PendingFound'
  <2>1. CASE open["chan"]
    <3>1. /\ status' = [status EXCEPT ![c] = "pending"] /\ table' = table \cup {c}
          /\ Goto(c, "conn", "check") /\ UNCHANGED svc
      BY <1>1, <2>1 DEF Register
    <3>2. /\ place'[Service] = place[Service] /\ step'[Service] = step[Service]
          /\ At(c, "conn", "check")' /\ c \in table'
      BY <3>1
    <3>3. status[c] = "none"
      BY <1>1 DEF Register
    <3>4. ASSUME NEW d \in Clients, d # c
          PROVE  /\ place'[d] = place[d] /\ step'[d] = step[d]
                 /\ status'[d] = status[d] /\ (d \in table <=> d \in table')
      BY <3>1, <3>4
    <3> QED
      BY <3>1, <3>2, <3>3, <3>4
  <2>2. CASE ~open["chan"]
    BY <1>1, <2>2 DEF Register
  <2> QED
    BY <2>1, <2>2
<1>2. ASSUME NEW c \in Clients, GiveUp(c) PROVE PendingFound'
  BY <1>2 DEF GiveUp, Settle
<1>3. ASSUME NEW c \in Clients, Answer(c) PROVE PendingFound'
  BY <1>3 DEF Answer
<1>4. ASSUME NEW c \in Clients, Send(c) PROVE PendingFound'
  BY <1>4 DEF Send, Set
<1>5. ASSUME NEW c \in Clients, CancelUnsent(c) PROVE PendingFound'
  BY <1>5 DEF CancelUnsent, Settle
<1>6. ASSUME NEW c \in Clients, WaitEnds(c) PROVE PendingFound'
  BY <1>6 DEF WaitEnds
<1>7. ASSUME NEW t \in Threads, Unregister(t) PROVE PendingFound'
  BY <1>7 DEF Unregister
<1>8. ASSUME NEW t \in Threads, NEW x \in Places, Check(t, x) PROVE PendingFound'
  BY <1>8 DEF Check, Refused, Finishes, Ends
<1>9. ASSUME NEW t \in Threads, NEW x \in Places, Enter(t, x) PROVE PendingFound'
  BY <1>9 DEF Enter, Refused, Finishes, Ends
<1>10. ASSUME NEW t \in Threads, NEW x \in Places, Exit(t, x) PROVE PendingFound'
  BY <1>10 DEF Exit
<1>11. ASSUME NEW t \in Threads, NEW x \in Places, Last(t, x) PROVE PendingFound'
  BY <1>11 DEF Last, AfterGate, Finishes, Ends
<1>12. ASSUME NEW t \in Threads, NEW x \in Places, Held(t, x) PROVE PendingFound'
  BY <1>12 DEF Held, AfterGate, Finishes, Ends
<1>13. ASSUME SendEvent PROVE PendingFound'
  BY <1>13 DEF SendEvent
<1>14. ASSUME NEW x \in Places, NEW f \in BOOLEAN, CallClose(x, f) PROVE PendingFound'
  BY <1>14 DEF CallClose
<1>15. ASSUME Dispatch PROVE PendingFound'
  BY <1>15 DEF Dispatch, Set
<1>16. ASSUME ReceiveResponse PROVE PendingFound'
  BY <1>16 DEF ReceiveResponse
<1>17. ASSUME ReceiveEvent PROVE PendingFound'
  BY <1>17 DEF ReceiveEvent, Set
<1>18. ASSUME Complete PROVE PendingFound'
  BY <1>18 DEF Complete, Settle
<1>19. ASSUME BeginChannel PROVE PendingFound'
  BY <1>19 DEF BeginChannel, ChannelReturns, Finishes, Ends
<1>20. ASSUME CancelNext PROVE PendingFound'
  <2>1. CASE ~svc.more
    BY <1>20, <2>1 DEF CancelNext
  <2>2. CASE Throws
    <3>1. /\ UNCHANGED <<status, table>>
          /\ \E s \in {"idle", "done"} : Goto(Service, "call", s)
      BY <1>20, <2>2 DEF CancelNext, Throws, Finishes, Ends
    <3> QED
      BY ZenonT(60), <1>20, <3>1 DEF CancelNext
  <2>3. CASE svc.more /\ ~Throws
    <3>1. PICK r \in table : /\ table' = table \ {r}
                            /\ svc' = [svc EXCEPT !.req = r, !.more = (table # {r})]
                            /\ Goto(Service, "chan", "cancel") /\ UNCHANGED status
      BY <1>20, <2>3 DEF CancelNext
    <3>2. svc'.req = r
      BY <3>1 DEF Tasks
    <3> QED
      BY ZenonT(60), <1>20, <3>1, <3>2 DEF CancelNext
  <2> QED
    BY <2>1, <2>2, <2>3
<1>21. ASSUME CancelPending PROVE PendingFound'
  BY <1>21 DEF CancelPending, Settle
<1>22. ASSUME BeginConnection PROVE PendingFound'
  BY <1>22 DEF BeginConnection, AfterGate, Finishes, Ends
<1>23. ASSUME NEW x \in Places, Try(x) PROVE PendingFound'
  BY <1>23 DEF Try
<1>24. ASSUME NEW x \in Places, Mark(x) PROVE PendingFound'
  BY <1>24 DEF Mark, Throws, Finishes, Ends, Set
<1>25. ASSUME NEW x \in Places, Retry(x) PROVE PendingFound'
  BY <1>25 DEF Retry, ChannelReturns, AfterGate, Finishes, Ends
<1>26. ASSUME ShutChannel PROVE PendingFound'
  BY <1>26 DEF ShutChannel, ChannelReturns, Finishes, Ends
<1>27. ASSUME ShutConnection PROVE PendingFound'
  BY <1>27 DEF ShutConnection, AfterGate, Finishes, Ends
<1>28. ASSUME Notify PROVE PendingFound'
  BY <1>28 DEF Notify, Set
<1>29. CASE UNCHANGED vars
  BY <1>29 DEF vars
<1>30. CASE ServiceStep
  BY <1>30, <1>7, <1>8, <1>9, <1>10, <1>11, <1>12, <1>15, <1>16, <1>17, <1>18, <1>19, <1>20, <1>21, <1>22, <1>23, <1>24, <1>25, <1>26, <1>27, <1>28 DEF ServiceStep, Pass
<1>31. ASSUME NEW c \in Clients, ClientStep(c) PROVE PendingFound'
  BY <1>31, <1>4, <1>5, <1>6, <1>7, <1>8, <1>9, <1>10, <1>11, <1>12 DEF ClientStep, Pass
<1>32. CASE Environment
  BY <1>32, <1>1, <1>2, <1>3, <1>13, <1>14 DEF Environment
<1> QED
  BY <1>29, <1>30, <1>31, <1>32 DEF Next

\* No step puts a thread inside a closed channel or connection, nor closes one
\* under a thread that is inside.
LEMMA NoneInsideStep == ASSUME TypeOK, GateHeld, NoneInsideClosed, [Next]_vars PROVE NoneInsideClosed'
<1> USE DEF NoneInsideClosed, TypeOK, GatesOK, GateHeld, CanClose, CanEnter, At, Goto
<1>1. ASSUME NEW c \in Clients, Register(c) PROVE NoneInsideClosed'
  BY <1>1 DEF Register, Set
<1>2. ASSUME NEW c \in Clients, GiveUp(c) PROVE NoneInsideClosed'
  BY <1>2 DEF GiveUp, Settle
<1>3. ASSUME NEW c \in Clients, Answer(c) PROVE NoneInsideClosed'
  BY <1>3 DEF Answer
<1>4. ASSUME NEW c \in Clients, Send(c) PROVE NoneInsideClosed'
  BY <1>4 DEF Send, Set
<1>5. ASSUME NEW c \in Clients, CancelUnsent(c) PROVE NoneInsideClosed'
  BY <1>5 DEF CancelUnsent, Settle
<1>6. ASSUME NEW c \in Clients, WaitEnds(c) PROVE NoneInsideClosed'
  BY <1>6 DEF WaitEnds
<1>7. ASSUME NEW t \in Threads, Unregister(t) PROVE NoneInsideClosed'
  BY <1>7 DEF Unregister
<1>8. ASSUME NEW t \in Threads, NEW x \in Places, Check(t, x) PROVE NoneInsideClosed'
  BY <1>8 DEF Check, Refused, Finishes, Ends
<1>9. ASSUME NEW t \in Threads, NEW x \in Places, Enter(t, x) PROVE NoneInsideClosed'
  BY <1>9 DEF Enter, Refused, Finishes, Ends
<1>10. ASSUME NEW t \in Threads, NEW x \in Places, Exit(t, x) PROVE NoneInsideClosed'
  BY <1>10 DEF Exit
<1>11. ASSUME NEW t \in Threads, NEW x \in Places, Last(t, x) PROVE NoneInsideClosed'
  BY <1>11 DEF Last, AfterGate, Finishes, Ends
<1>12. ASSUME NEW t \in Threads, NEW x \in Places, Held(t, x) PROVE NoneInsideClosed'
  BY <1>12 DEF Held, AfterGate, Finishes, Ends
<1>13. ASSUME SendEvent PROVE NoneInsideClosed'
  BY <1>13 DEF SendEvent
<1>14. ASSUME NEW x \in Places, NEW f \in BOOLEAN, CallClose(x, f) PROVE NoneInsideClosed'
  BY <1>14 DEF CallClose
<1>15. ASSUME Dispatch PROVE NoneInsideClosed'
  BY <1>15 DEF Dispatch, Set
<1>16. ASSUME ReceiveResponse PROVE NoneInsideClosed'
  BY <1>16 DEF ReceiveResponse
<1>17. ASSUME ReceiveEvent PROVE NoneInsideClosed'
  BY <1>17 DEF ReceiveEvent, Set
<1>18. ASSUME Complete PROVE NoneInsideClosed'
  BY <1>18 DEF Complete, Settle
<1>19. ASSUME BeginChannel PROVE NoneInsideClosed'
  BY <1>19 DEF BeginChannel, ChannelReturns, Finishes, Ends
<1>20. ASSUME CancelNext PROVE NoneInsideClosed'
  BY <1>20 DEF CancelNext, Throws, Finishes, Ends
<1>21. ASSUME CancelPending PROVE NoneInsideClosed'
  BY <1>21 DEF CancelPending, Settle
<1>22. ASSUME BeginConnection PROVE NoneInsideClosed'
  BY <1>22 DEF BeginConnection, AfterGate, Finishes, Ends
<1>23. ASSUME NEW x \in Places, Try(x) PROVE NoneInsideClosed'
  BY <1>23 DEF Try
<1>24. ASSUME NEW x \in Places, Mark(x) PROVE NoneInsideClosed'
  BY <1>24 DEF Mark, Throws, Finishes, Ends, Set
<1>25. ASSUME NEW x \in Places, Retry(x) PROVE NoneInsideClosed'
  BY <1>25 DEF Retry, ChannelReturns, AfterGate, Finishes, Ends
<1>26. ASSUME ShutChannel PROVE NoneInsideClosed'
  BY <1>26 DEF ShutChannel, ChannelReturns, Finishes, Ends
<1>27. ASSUME ShutConnection PROVE NoneInsideClosed'
  BY <1>27 DEF ShutConnection, AfterGate, Finishes, Ends
<1>28. ASSUME Notify PROVE NoneInsideClosed'
  BY <1>28 DEF Notify, Set
<1>29. CASE UNCHANGED vars
  BY <1>29 DEF vars
<1>30. CASE ServiceStep
  BY <1>30, <1>7, <1>8, <1>9, <1>10, <1>11, <1>12, <1>15, <1>16, <1>17, <1>18, <1>19, <1>20, <1>21, <1>22, <1>23, <1>24, <1>25, <1>26, <1>27, <1>28 DEF ServiceStep, Pass
<1>31. ASSUME NEW c \in Clients, ClientStep(c) PROVE NoneInsideClosed'
  BY <1>31, <1>4, <1>5, <1>6, <1>7, <1>8, <1>9, <1>10, <1>11, <1>12 DEF ClientStep, Pass
<1>32. CASE Environment
  BY <1>32, <1>1, <1>2, <1>3, <1>13, <1>14 DEF Environment
<1> QED
  BY <1>29, <1>30, <1>31, <1>32 DEF Next

\* No step leaves a request behind in a closed channel.
LEMMA SettledStep == ASSUME TypeOK, RequestsHeld, PendingFound, ClosedMeansSettled, [Next]_vars PROVE ClosedMeansSettled'
<1> USE DEF ClosedMeansSettled, TypeOK, GatesOK, RequestsOK, RequestsHeld, PendingFound, Cancels, Shuts, Outcomes, At, Goto
<1>1. ASSUME NEW c \in Clients, Register(c) PROVE ClosedMeansSettled'
  BY <1>1 DEF Register, Set
<1>2. ASSUME NEW c \in Clients, GiveUp(c) PROVE ClosedMeansSettled'
  BY <1>2 DEF GiveUp, Settle
<1>3. ASSUME NEW c \in Clients, Answer(c) PROVE ClosedMeansSettled'
  BY <1>3 DEF Answer
<1>4. ASSUME NEW c \in Clients, Send(c) PROVE ClosedMeansSettled'
  BY <1>4 DEF Send, Set
<1>5. ASSUME NEW c \in Clients, CancelUnsent(c) PROVE ClosedMeansSettled'
  BY <1>5 DEF CancelUnsent, Settle
<1>6. ASSUME NEW c \in Clients, WaitEnds(c) PROVE ClosedMeansSettled'
  BY <1>6 DEF WaitEnds
<1>7. ASSUME NEW t \in Threads, Unregister(t) PROVE ClosedMeansSettled'
  BY <1>7 DEF Unregister
<1>8. ASSUME NEW t \in Threads, NEW x \in Places, Check(t, x) PROVE ClosedMeansSettled'
  BY <1>8 DEF Check, Refused, Finishes, Ends
<1>9. ASSUME NEW t \in Threads, NEW x \in Places, Enter(t, x) PROVE ClosedMeansSettled'
  BY <1>9 DEF Enter, Refused, Finishes, Ends
<1>10. ASSUME NEW t \in Threads, NEW x \in Places, Exit(t, x) PROVE ClosedMeansSettled'
  BY <1>10 DEF Exit
<1>11. ASSUME NEW t \in Threads, NEW x \in Places, Last(t, x) PROVE ClosedMeansSettled'
  BY <1>11 DEF Last, AfterGate, Finishes, Ends
<1>12. ASSUME NEW t \in Threads, NEW x \in Places, Held(t, x) PROVE ClosedMeansSettled'
  BY <1>12 DEF Held, AfterGate, Finishes, Ends
<1>13. ASSUME SendEvent PROVE ClosedMeansSettled'
  BY <1>13 DEF SendEvent
<1>14. ASSUME NEW x \in Places, NEW f \in BOOLEAN, CallClose(x, f) PROVE ClosedMeansSettled'
  BY <1>14 DEF CallClose
<1>15. ASSUME Dispatch PROVE ClosedMeansSettled'
  BY <1>15 DEF Dispatch, Set
<1>16. ASSUME ReceiveResponse PROVE ClosedMeansSettled'
  BY <1>16 DEF ReceiveResponse
<1>17. ASSUME ReceiveEvent PROVE ClosedMeansSettled'
  BY <1>17 DEF ReceiveEvent, Set
<1>18. ASSUME Complete PROVE ClosedMeansSettled'
  BY <1>18 DEF Complete, Settle
<1>19. ASSUME BeginChannel PROVE ClosedMeansSettled'
  BY <1>19 DEF BeginChannel, ChannelReturns, Finishes, Ends
<1>20. ASSUME CancelNext PROVE ClosedMeansSettled'
  BY <1>20 DEF CancelNext, Throws, Finishes, Ends
<1>21. ASSUME CancelPending PROVE ClosedMeansSettled'
  BY <1>21 DEF CancelPending, Settle
<1>22. ASSUME BeginConnection PROVE ClosedMeansSettled'
  BY <1>22 DEF BeginConnection, AfterGate, Finishes, Ends
<1>23. ASSUME NEW x \in Places, Try(x) PROVE ClosedMeansSettled'
  BY <1>23 DEF Try
<1>24. ASSUME NEW x \in Places, Mark(x) PROVE ClosedMeansSettled'
  BY <1>24 DEF Mark, Throws, Finishes, Ends, Set
<1>25. ASSUME NEW x \in Places, Retry(x) PROVE ClosedMeansSettled'
  BY <1>25 DEF Retry, ChannelReturns, AfterGate, Finishes, Ends
<1>26. ASSUME ShutChannel PROVE ClosedMeansSettled'
  BY <1>26 DEF ShutChannel, ChannelReturns, Finishes, Ends
<1>27. ASSUME ShutConnection PROVE ClosedMeansSettled'
  BY <1>27 DEF ShutConnection, AfterGate, Finishes, Ends
<1>28. ASSUME Notify PROVE ClosedMeansSettled'
  BY <1>28 DEF Notify, Set
<1>29. CASE UNCHANGED vars
  BY <1>29 DEF vars
<1>30. CASE ServiceStep
  BY <1>30, <1>7, <1>8, <1>9, <1>10, <1>11, <1>12, <1>15, <1>16, <1>17, <1>18, <1>19, <1>20, <1>21, <1>22, <1>23, <1>24, <1>25, <1>26, <1>27, <1>28 DEF ServiceStep, Pass
<1>31. ASSUME NEW c \in Clients, ClientStep(c) PROVE ClosedMeansSettled'
  BY <1>31, <1>4, <1>5, <1>6, <1>7, <1>8, <1>9, <1>10, <1>11, <1>12 DEF ClientStep, Pass
<1>32. CASE Environment
  BY <1>32, <1>1, <1>2, <1>3, <1>13, <1>14 DEF Environment
<1> QED
  BY <1>29, <1>30, <1>31, <1>32 DEF Next

\* No step changes the outcome of a completed request: the only status written
\* without a test is that of a request being registered, which is new.
LEMMA OutcomesKeptStep == ASSUME TypeOK, PendingFound, [Next]_vars PROVE OutcomesKept
<1> USE DEF OutcomesKept, TypeOK, RequestsOK, PendingFound, Outcomes, At, Goto
<1>1. ASSUME NEW c \in Clients, Register(c) PROVE OutcomesKept
  BY <1>1 DEF Register, Set
<1>2. ASSUME NEW c \in Clients, GiveUp(c) PROVE OutcomesKept
  BY <1>2 DEF GiveUp, Settle
<1>3. ASSUME NEW c \in Clients, Answer(c) PROVE OutcomesKept
  BY <1>3 DEF Answer
<1>4. ASSUME NEW c \in Clients, Send(c) PROVE OutcomesKept
  BY <1>4 DEF Send, Set
<1>5. ASSUME NEW c \in Clients, CancelUnsent(c) PROVE OutcomesKept
  BY <1>5 DEF CancelUnsent, Settle
<1>6. ASSUME NEW c \in Clients, WaitEnds(c) PROVE OutcomesKept
  BY <1>6 DEF WaitEnds
<1>7. ASSUME NEW t \in Threads, Unregister(t) PROVE OutcomesKept
  BY <1>7 DEF Unregister
<1>8. ASSUME NEW t \in Threads, NEW x \in Places, Check(t, x) PROVE OutcomesKept
  BY <1>8 DEF Check, Refused, Finishes, Ends
<1>9. ASSUME NEW t \in Threads, NEW x \in Places, Enter(t, x) PROVE OutcomesKept
  BY <1>9 DEF Enter, Refused, Finishes, Ends
<1>10. ASSUME NEW t \in Threads, NEW x \in Places, Exit(t, x) PROVE OutcomesKept
  BY <1>10 DEF Exit
<1>11. ASSUME NEW t \in Threads, NEW x \in Places, Last(t, x) PROVE OutcomesKept
  BY <1>11 DEF Last, AfterGate, Finishes, Ends
<1>12. ASSUME NEW t \in Threads, NEW x \in Places, Held(t, x) PROVE OutcomesKept
  BY <1>12 DEF Held, AfterGate, Finishes, Ends
<1>13. ASSUME SendEvent PROVE OutcomesKept
  BY <1>13 DEF SendEvent
<1>14. ASSUME NEW x \in Places, NEW f \in BOOLEAN, CallClose(x, f) PROVE OutcomesKept
  BY <1>14 DEF CallClose
<1>15. ASSUME Dispatch PROVE OutcomesKept
  BY <1>15 DEF Dispatch, Set
<1>16. ASSUME ReceiveResponse PROVE OutcomesKept
  BY <1>16 DEF ReceiveResponse
<1>17. ASSUME ReceiveEvent PROVE OutcomesKept
  BY <1>17 DEF ReceiveEvent, Set
<1>18. ASSUME Complete PROVE OutcomesKept
  BY <1>18 DEF Complete, Settle
<1>19. ASSUME BeginChannel PROVE OutcomesKept
  BY <1>19 DEF BeginChannel, ChannelReturns, Finishes, Ends
<1>20. ASSUME CancelNext PROVE OutcomesKept
  BY <1>20 DEF CancelNext, Throws, Finishes, Ends
<1>21. ASSUME CancelPending PROVE OutcomesKept
  BY <1>21 DEF CancelPending, Settle
<1>22. ASSUME BeginConnection PROVE OutcomesKept
  BY <1>22 DEF BeginConnection, AfterGate, Finishes, Ends
<1>23. ASSUME NEW x \in Places, Try(x) PROVE OutcomesKept
  BY <1>23 DEF Try
<1>24. ASSUME NEW x \in Places, Mark(x) PROVE OutcomesKept
  BY <1>24 DEF Mark, Throws, Finishes, Ends, Set
<1>25. ASSUME NEW x \in Places, Retry(x) PROVE OutcomesKept
  BY <1>25 DEF Retry, ChannelReturns, AfterGate, Finishes, Ends
<1>26. ASSUME ShutChannel PROVE OutcomesKept
  BY <1>26 DEF ShutChannel, ChannelReturns, Finishes, Ends
<1>27. ASSUME ShutConnection PROVE OutcomesKept
  BY <1>27 DEF ShutConnection, AfterGate, Finishes, Ends
<1>28. ASSUME Notify PROVE OutcomesKept
  BY <1>28 DEF Notify, Set
<1>29. CASE UNCHANGED vars
  BY <1>29 DEF vars
<1>30. CASE ServiceStep
  BY <1>30, <1>7, <1>8, <1>9, <1>10, <1>11, <1>12, <1>15, <1>16, <1>17, <1>18, <1>19, <1>20, <1>21, <1>22, <1>23, <1>24, <1>25, <1>26, <1>27, <1>28 DEF ServiceStep, Pass
<1>31. ASSUME NEW c \in Clients, ClientStep(c) PROVE OutcomesKept
  BY <1>31, <1>4, <1>5, <1>6, <1>7, <1>8, <1>9, <1>10, <1>11, <1>12 DEF ClientStep, Pass
<1>32. CASE Environment
  BY <1>32, <1>1, <1>2, <1>3, <1>13, <1>14 DEF Environment
<1> QED
  BY <1>29, <1>30, <1>31, <1>32 DEF Next

\* ChannelInv holds of a new channel.
LEMMA ChannelInvInit == Init => ChannelInv
<1> SUFFICES ASSUME Init PROVE ChannelInv
  OBVIOUS
<1>1. TypeOK
  BY TypeInit
<1>2. GateHeld
  BY DEF Init, GateHeld, At
<1>3. RequestsHeld
  BY DEF Init, RequestsHeld, Cancels, Shuts
<1>4. PendingFound
  BY DEF Init, PendingFound, At
<1>5. NoneInsideClosed /\ ClosedMeansSettled
  BY DEF Init, NoneInsideClosed, ClosedMeansSettled
<1> QED
  BY <1>1, <1>2, <1>3, <1>4, <1>5 DEF ChannelInv

\* ChannelInv is inductive: every step of gateEnter, gateExit, closeInternal,
\* registerRequest and of the completion of a request preserves it.
LEMMA ChannelInvStep == ChannelInv /\ [Next]_vars => ChannelInv'
<1> SUFFICES ASSUME ChannelInv, [Next]_vars PROVE ChannelInv'
  OBVIOUS
<1>1. TypeOK /\ GateHeld /\ RequestsHeld /\ PendingFound /\ NoneInsideClosed /\ ClosedMeansSettled
  BY DEF ChannelInv
<1>2. TypeOK' /\ GateHeld' /\ RequestsHeld'
  BY <1>1, TypeStep, GateHeldStep, RequestsHeldStep
<1>3. PendingFound' /\ NoneInsideClosed' /\ ClosedMeansSettled'
  BY <1>1, PendingFoundStep, NoneInsideStep, SettledStep
<1> QED
  BY <1>2, <1>3 DEF ChannelInv

\* The inductive invariant holds in every state of the channel.
THEOREM ChannelInvariant == Spec => []ChannelInv
<1>1. Init => ChannelInv
  BY ChannelInvInit
<1>2. ChannelInv /\ [Next]_vars => ChannelInv'
  BY ChannelInvStep
<1> QED
  BY <1>1, <1>2, PTL DEF Spec

\* Type correctness of channel, connection, requests and service thread.
THEOREM ChannelTypeCorrect == Spec => []TypeOK
<1>1. ChannelInv => TypeOK
  BY DEF ChannelInv
<1> QED
  BY <1>1, ChannelInvariant, PTL

\* Nobody is ever inside a closed channel or connection: gateClose(0) and
\* assertOpen suffice although closeInternal never waits.
THEOREM NobodyInsideClosed == Spec => []NoneInsideClosed
<1>1. ChannelInv => NoneInsideClosed
  BY DEF ChannelInv
<1> QED
  BY <1>1, ChannelInvariant, PTL

\* The close of a channel settles every request, also those registered while it
\* closes and those whose post was refused at a gate.
THEOREM CloseSettlesAll == Spec => []ClosedMeansSettled
<1>1. ChannelInv => ClosedMeansSettled
  BY DEF ChannelInv
<1> QED
  BY <1>1, ChannelInvariant, PTL

\* A request has one outcome, whichever of response, failure, timeout and close
\* comes first.
THEOREM OutcomesAreFinal == Spec => OutcomeIsFinal
<1>1. ChannelInv /\ [Next]_vars => [OutcomesKept]_vars
  BY OutcomesKeptStep DEF ChannelInv
<1> QED
  BY <1>1, ChannelInvariant, PTL DEF Spec, OutcomeIsFinal

-----------------------------------------------------------------------------
(***************************************************************************)
(* The inductive invariant for MarkIsHonoured.                             *)
(***************************************************************************)
\* The usages under which a mark is not lost.  A request that is given up while the channel
\* closes ends that close (HashIterator::next throws), and once the connection may be marked
\* by a failing write, a close exception the channel has already ends the close of both.
Lossless == "giveup" \notin Usage /\ ("socket" \in Usage => Usage \subseteq {"socket"})

\* A thread is to look at the mark of x when it leaves, or a close of x is queued.
Queued(x) == \E i \in 1..Len(queue) : queue[i].type = x
Look(x)   == Leaving(x) # {} \/ Queued(x)

\* The service thread closes x, or will after what it closes now.
Closes(x) == place[Service] = x /\ step[Service] \in Closing
Will(x)   == \/ Closes(x)
             \/ x = "conn" /\ Closes("chan") /\ svc.nested
             \/ x = "chan" /\ Closes("conn") /\ full[Service]

\* Who is inside which gate, and that whoever is inside the channel's leaves both.
Stays(t) == \/ place[t] = "call" /\ step[t] \in {"inside", "complete", "cancel", "unregister"}
            \/ At(t, "chan", "exit")
Goes(t)  == place[t] = "chan" /\ step[t] \in {"check", "enter"}
Placed == \A t \in Threads :
    /\ t \in inside["chan"] <=> Stays(t)
    /\ t \in inside["conn"] <=> Stays(t) \/ Goes(t) \/ At(t, "conn", "exit") \/ At(t, "call", "notify")
    /\ Stays(t) \/ Goes(t) => full[t]

\* A gate is held closed by a thread that is about to give it back or to close.
Holder == \A x \in Places : owner[x] = None \/ At(owner[x], x, "held") \/ At(Service, x, "shut")

\* The close of the channel is nested in that of the connection only if that calls it,
\* having taken the channel out of its map.
Resting == /\ At(Service, "call", "idle") => ~ svc.nested
           /\ Closes("chan") /\ svc.nested => ~ mapped

\* The channel has a close exception only if it is marked.
ExcMarked == exc["chan"] => closeOnExit["chan"]

\* Where writes do not fail, the connection is marked only by its own close, which has
\* closed the channel before.
Quiet == "socket" \notin Usage =>
    /\ closeOnExit["conn"] => ~ mapped
    /\ place[Service] = "conn" /\ step[Service] \in {"try", "mark", "retry", "shut"} => ~ mapped
    /\ Closes("chan") /\ svc.nested => ~ closeOnExit["conn"]

\* Where only writes fail, the channel gets its close exception only from the close of the
\* connection, at the end of what that does to it.
CausesKnown == \A i \in 1..Len(queue) :
    /\ queue[i].type # "event"
    /\ queue[i].type = "chan" /\ queue[i].cause => exc["chan"]
Plain == Usage \subseteq {"socket"} =>
    /\ ~ svc.event /\ CausesKnown
    /\ exc["chan"] => ~ mapped
    /\ Closes("chan") /\ svc.nested /\ exc["chan"] => step[Service] \in {"retry", "shut"}
    /\ Closes("chan") /\ svc.cause => svc.nested \/ exc["chan"]

\* What is marked and open will be looked at, or is being closed.
Honour == \A x \in Places : closeOnExit[x] /\ open[x] => Look(x) \/ Will(x)

\* A close that will find no request where there was one, or a close exception where it
\* sets one, and ends for that reason, leaves somebody who looks.
Emptied == \A x \in Places :
    place[Service] = "chan" /\ step[Service] \in {"next", "cancel"} /\ svc.more /\ table = {} =>
        (closeOnExit[x] /\ open[x] => Look(x))
Twice == At(Service, "chan", "mark") /\ exc["chan"] => Look("chan")


\* The next request to cancel is taken out, or there was none, or there is none any more.
LEMMA CancelNextParts ==
    ASSUME TypeOK, CancelNext
    PROVE  /\ UNCHANGED <<flags, gates, mapped, status, net>> /\ At(Service, "chan", "next")
           /\ \/ ~ svc.more /\ Goto(Service, "chan", "try") /\ UNCHANGED <<table, ctl>>
              \/ svc.more /\ table = {} /\ Throws /\ UNCHANGED table
              \/ /\ Goto(Service, "chan", "cancel") /\ UNCHANGED full /\ (svc'.more => table' # {})
                 /\ svc'.nested = svc.nested /\ svc'.cause = svc.cause /\ svc'.event = svc.event
<1>1. UNCHANGED <<flags, gates, mapped, status, net>> /\ At(Service, "chan", "next")
  BY DEF CancelNext
<1>2. ASSUME NEW r \in table, table' = table \ {r}, svc' = [svc EXCEPT !.req = r, !.more = (table # {r})],
             Goto(Service, "chan", "cancel"), UNCHANGED full
      PROVE  /\ Goto(Service, "chan", "cancel") /\ UNCHANGED full /\ (svc'.more => table' # {})
             /\ svc'.nested = svc.nested /\ svc'.cause = svc.cause /\ svc'.event = svc.event
  <2>1. svc \in Tasks
    BY DEF TypeOK, ControlOK
  <2>2. svc'.more = (table # {r})
    BY <1>2, <2>1 DEF Tasks
  <2>3. svc'.nested = svc.nested /\ svc'.cause = svc.cause /\ svc'.event = svc.event
    BY <1>2, <2>1 DEF Tasks
  <2>4. table # {r} => table' # {}
    BY <1>2
  <2> QED
    BY <1>2, <2>2, <2>3, <2>4
<1> QED
  BY <1>1, <1>2 DEF CancelNext

LEMMA PlacedStep == ASSUME Lossless, TypeOK, Placed, [Next]_vars PROVE Placed'
<1> USE DEF Placed, Stays, Goes, TypeOK, GatesOK, ControlOK, CanClose, CanEnter, At, Goto, Lossless
<1>1. ASSUME NEW c \in Clients, Register(c) PROVE Placed'
  BY <1>1 DEF Register, Set
<1>2. ASSUME NEW c \in Clients, GiveUp(c) PROVE Placed'
  BY <1>2 DEF GiveUp, Settle
<1>3. ASSUME NEW c \in Clients, Answer(c) PROVE Placed'
  BY <1>3 DEF Answer, Response
<1>4. ASSUME NEW c \in Clients, Send(c) PROVE Placed'
  BY <1>4 DEF Send, Set
<1>5. ASSUME NEW c \in Clients, CancelUnsent(c) PROVE Placed'
  BY <1>5 DEF CancelUnsent, Settle
<1>6. ASSUME NEW c \in Clients, WaitEnds(c) PROVE Placed'
  BY <1>6 DEF WaitEnds
<1>7. ASSUME NEW t \in Threads, Unregister(t) PROVE Placed'
  BY <1>7 DEF Unregister
<1>8. ASSUME NEW t \in Threads, NEW x \in Places, Check(t, x) PROVE Placed'
  BY <1>8 DEF Check, Refused, Finishes, Ends
<1>9. ASSUME NEW t \in Threads, NEW x \in Places, Enter(t, x) PROVE Placed'
  BY <1>9 DEF Enter, Refused, Finishes, Ends
<1>10. ASSUME NEW t \in Threads, NEW x \in Places, Exit(t, x) PROVE Placed'
  BY <1>10 DEF Exit
<1>11. ASSUME NEW t \in Threads, NEW x \in Places, Last(t, x) PROVE Placed'
  BY <1>11 DEF Last, AfterGate, Finishes, Ends
<1>12. ASSUME NEW t \in Threads, NEW x \in Places, Held(t, x) PROVE Placed'
  BY <1>12 DEF Held, AfterGate, Finishes, Ends, CloseOf
<1>13. ASSUME SendEvent PROVE Placed'
  BY <1>13 DEF SendEvent, Unsolicited
<1>14. ASSUME NEW x \in Places, NEW f \in BOOLEAN, CallClose(x, f) PROVE Placed'
  BY <1>14 DEF CallClose, CloseOf
<1>15. ASSUME Dispatch PROVE Placed'
  BY <1>15 DEF Dispatch, Set
<1>16. ASSUME ReceiveResponse PROVE Placed'
  BY <1>16 DEF ReceiveResponse
<1>17. ASSUME ReceiveEvent PROVE Placed'
  BY <1>17 DEF ReceiveEvent, Set
<1>18. ASSUME Complete PROVE Placed'
  BY <1>18 DEF Complete, Settle
<1>19. ASSUME BeginChannel PROVE Placed'
  BY <1>19 DEF BeginChannel, ChannelReturns, Finishes, Ends
<1>20. ASSUME CancelNext PROVE Placed'
  BY <1>20, CancelNextParts DEF Throws, Ends, flags, gates, ctl
<1>21. ASSUME CancelPending PROVE Placed'
  BY <1>21 DEF CancelPending, Settle
<1>22. ASSUME BeginConnection PROVE Placed'
  BY <1>22 DEF BeginConnection, AfterGate, Finishes, Ends
<1>23. ASSUME NEW x \in Places, Try(x) PROVE Placed'
  BY <1>23 DEF Try
<1>24. ASSUME NEW x \in Places, Mark(x) PROVE Placed'
  BY <1>24 DEF Mark, Throws, Finishes, Ends, Set
<1>25. ASSUME NEW x \in Places, Retry(x) PROVE Placed'
  BY <1>25 DEF Retry, ChannelReturns, AfterGate, Finishes, Ends
<1>26. ASSUME ShutChannel PROVE Placed'
  BY <1>26 DEF ShutChannel, ChannelReturns, Finishes, Ends
<1>27. ASSUME ShutConnection PROVE Placed'
  BY <1>27 DEF ShutConnection, AfterGate, Finishes, Ends
<1>28. ASSUME Notify PROVE Placed'
  BY <1>28 DEF Notify, Set
<1>29. ASSUME UNCHANGED vars PROVE Placed'
  BY <1>29 DEF vars
<1> HIDE DEF Placed
<1>30. CASE ServiceStep
  BY <1>30, <1>7, <1>8, <1>9, <1>10, <1>11, <1>12, <1>15, <1>16, <1>17, <1>18, <1>19, <1>20, <1>21, <1>22, <1>23, <1>24, <1>25, <1>26, <1>27, <1>28 DEF ServiceStep, Pass
<1>31. ASSUME NEW c \in Clients, ClientStep(c) PROVE Placed'
  BY <1>31, <1>4, <1>5, <1>6, <1>7, <1>8, <1>9, <1>10, <1>11, <1>12 DEF ClientStep, Pass
<1>32. CASE Environment
  BY <1>32, <1>1, <1>2, <1>3, <1>13, <1>14 DEF Environment
<1> QED
  BY <1>29, <1>30, <1>31, <1>32 DEF Next


LEMMA HolderStep == ASSUME TypeOK, GateHeld, Holder, [Next]_vars PROVE Holder'
<1> USE DEF Holder, GateHeld, TypeOK, GatesOK, ControlOK, CanClose, CanEnter, At, Goto
<1>1. ASSUME NEW c \in Clients, Register(c) PROVE Holder'
  BY <1>1 DEF Register, Set
<1>2. ASSUME NEW c \in Clients, GiveUp(c) PROVE Holder'
  BY <1>2 DEF GiveUp, Settle
<1>3. ASSUME NEW c \in Clients, Answer(c) PROVE Holder'
  BY <1>3 DEF Answer, Response
<1>4. ASSUME NEW c \in Clients, Send(c) PROVE Holder'
  BY <1>4 DEF Send, Set
<1>5. ASSUME NEW c \in Clients, CancelUnsent(c) PROVE Holder'
  BY <1>5 DEF CancelUnsent, Settle
<1>6. ASSUME NEW c \in Clients, WaitEnds(c) PROVE Holder'
  BY <1>6 DEF WaitEnds
<1>7. ASSUME NEW t \in Threads, Unregister(t) PROVE Holder'
  BY <1>7 DEF Unregister
<1>8. ASSUME NEW t \in Threads, NEW x \in Places, Check(t, x) PROVE Holder'
  BY <1>8 DEF Check, Refused, Finishes, Ends
<1>9. ASSUME NEW t \in Threads, NEW x \in Places, Enter(t, x) PROVE Holder'
  BY <1>9 DEF Enter, Refused, Finishes, Ends
<1>10. ASSUME NEW t \in Threads, NEW x \in Places, Exit(t, x) PROVE Holder'
  BY <1>10 DEF Exit
<1>11. ASSUME NEW t \in Threads, NEW x \in Places, Last(t, x) PROVE Holder'
  BY <1>11 DEF Last, AfterGate, Finishes, Ends
<1>12. ASSUME NEW t \in Threads, NEW x \in Places, Held(t, x) PROVE Holder'
  BY <1>12 DEF Held, AfterGate, Finishes, Ends, CloseOf
<1>13. ASSUME SendEvent PROVE Holder'
  BY <1>13 DEF SendEvent, Unsolicited
<1>14. ASSUME NEW x \in Places, NEW f \in BOOLEAN, CallClose(x, f) PROVE Holder'
  BY <1>14 DEF CallClose, CloseOf
<1>15. ASSUME Dispatch PROVE Holder'
  BY <1>15 DEF Dispatch, Set
<1>16. ASSUME ReceiveResponse PROVE Holder'
  BY <1>16 DEF ReceiveResponse
<1>17. ASSUME ReceiveEvent PROVE Holder'
  BY <1>17 DEF ReceiveEvent, Set
<1>18. ASSUME Complete PROVE Holder'
  BY <1>18 DEF Complete, Settle
<1>19. ASSUME BeginChannel PROVE Holder'
  BY <1>19 DEF BeginChannel, ChannelReturns, Finishes, Ends
<1>20. ASSUME CancelNext PROVE Holder'
  BY <1>20, CancelNextParts DEF Throws, Ends, flags, gates, ctl
<1>21. ASSUME CancelPending PROVE Holder'
  BY <1>21 DEF CancelPending, Settle
<1>22. ASSUME BeginConnection PROVE Holder'
  BY <1>22 DEF BeginConnection, AfterGate, Finishes, Ends
<1>23. ASSUME NEW x \in Places, Try(x) PROVE Holder'
  BY <1>23 DEF Try
<1>24. ASSUME NEW x \in Places, Mark(x) PROVE Holder'
  BY <1>24 DEF Mark, Throws, Finishes, Ends, Set
<1>25. ASSUME NEW x \in Places, Retry(x) PROVE Holder'
  BY <1>25 DEF Retry, ChannelReturns, AfterGate, Finishes, Ends
<1>26. ASSUME ShutChannel PROVE Holder'
  BY <1>26 DEF ShutChannel, ChannelReturns, Finishes, Ends
<1>27. ASSUME ShutConnection PROVE Holder'
  BY <1>27 DEF ShutConnection, AfterGate, Finishes, Ends
<1>28. ASSUME Notify PROVE Holder'
  BY <1>28 DEF Notify, Set
<1>29. ASSUME UNCHANGED vars PROVE Holder'
  BY <1>29 DEF vars
<1>30. CASE ServiceStep
  BY <1>30, <1>7, <1>8, <1>9, <1>10, <1>11, <1>12, <1>15, <1>16, <1>17, <1>18, <1>19, <1>20, <1>21, <1>22, <1>23, <1>24, <1>25, <1>26, <1>27, <1>28 DEF ServiceStep, Pass
<1>31. ASSUME NEW c \in Clients, ClientStep(c) PROVE Holder'
  BY <1>31, <1>4, <1>5, <1>6, <1>7, <1>8, <1>9, <1>10, <1>11, <1>12 DEF ClientStep, Pass
<1>32. CASE Environment
  BY <1>32, <1>1, <1>2, <1>3, <1>13, <1>14 DEF Environment
<1> QED
  BY <1>29, <1>30, <1>31, <1>32 DEF Next


\* The reopened gate: the service thread closes at once, others through the queue.
LEMMA HeldParts ==
    ASSUME TypeOK, NEW t \in Threads, NEW x \in Places, Held(t, x)
    PROVE  /\ UNCHANGED <<flags, inside, mapped, reqs, sent, calls>> /\ At(t, x, "held")
           /\ owner' = [owner EXCEPT ![x] = None]
           /\ \/ AfterGate(t, x) /\ (UNCHANGED queue \/ (open[x] /\ t # Service)) /\ (UNCHANGED queue => ~ open[x])
              \/ /\ t = Service /\ open[x] /\ Goto(t, x, "begin") /\ UNCHANGED <<queue, full>>
                 /\ ~ svc'.nested /\ svc'.cause = exc[x] /\ svc'.event = svc.event
           /\ UNCHANGED queue \/ queue' = Append(queue, CloseOf(x, exc[x]))
<1>1. svc' = [svc EXCEPT !.cause = exc[x], !.nested = FALSE] =>
          ~ svc'.nested /\ svc'.cause = exc[x] /\ svc'.event = svc.event
  BY DEF TypeOK, ControlOK, Tasks
<1>2. queue' = Append(queue, CloseOf(x, exc[x])) => queue' # queue
  <2>1. queue \in Seq(Messages)
    BY DEF TypeOK, RequestsOK
  <2>2. Len(Append(queue, CloseOf(x, exc[x]))) = Len(queue) + 1 /\ Len(queue) \in Nat
    BY <2>1
  <2> QED
    BY <2>2
<1> QED
  BY <1>1, <1>2 DEF Held

\* A message is ignored, handed to the channel, or makes the service thread close.
LEMMA DispatchParts ==
    ASSUME TypeOK, Dispatch
    PROVE  /\ UNCHANGED <<open, closeOnExit, exc, mapped>> /\ At(Service, "call", "idle")
           /\ \/ UNCHANGED <<place, step, full, svc>>
              \/ /\ svc'.nested = svc.nested
                 /\ (\E x \in Places : Goto(Service, x, "begin")) \/ Goto(Service, "conn", "check")
<1>1. svc \in Tasks
  BY DEF TypeOK, ControlOK
<1>2. ASSUME NEW f, svc' = [svc EXCEPT !.cause = f] PROVE svc'.nested = svc.nested
  BY <1>1, <1>2 DEF Tasks
<1>3. ASSUME NEW r, NEW e, svc' = [svc EXCEPT !.req = r, !.event = e] PROVE svc'.nested = svc.nested
  BY <1>1, <1>3 DEF Tasks
<1>4. ASSUME svc' = [svc EXCEPT !.cause = TRUE, !.exposed = TRUE] PROVE svc'.nested = svc.nested
  BY <1>1, <1>4 DEF Tasks
<1>5. UNCHANGED <<open, closeOnExit, exc, mapped>> /\ At(Service, "call", "idle")
  BY DEF Dispatch
<1>6. \/ UNCHANGED <<place, step, full, svc>>
      \/ (\E x \in Places : Goto(Service, x, "begin")) \/ Goto(Service, "conn", "check")
  BY DEF Dispatch
<1>7. \/ UNCHANGED <<place, step, full, svc>>
      \/ svc' = [svc EXCEPT !.cause = Head(queue).cause]
      \/ svc' = [svc EXCEPT !.req = Head(queue).req, !.event = (Head(queue).type = "event")]
      \/ svc' = [svc EXCEPT !.cause = TRUE, !.exposed = TRUE]
  BY DEF Dispatch
<1>8. UNCHANGED <<place, step, full, svc>> \/ svc'.nested = svc.nested
  BY <1>2, <1>3, <1>4, <1>7
<1> QED
  BY <1>5, <1>6, <1>8

LEMMA RestingStep == ASSUME TypeOK, RequestsHeld, Resting, [Next]_vars PROVE Resting'
<1> USE DEF Resting, Closes, Closing, TypeOK, ControlOK, Tasks, At, Goto, NoTask
<1>1. ASSUME NEW c \in Clients, Register(c) PROVE Resting'
  BY <1>1 DEF Register, Set
<1>2. ASSUME NEW c \in Clients, GiveUp(c) PROVE Resting'
  BY <1>2 DEF GiveUp, Settle
<1>3. ASSUME NEW c \in Clients, Answer(c) PROVE Resting'
  BY <1>3 DEF Answer, Response
<1>4. ASSUME NEW c \in Clients, Send(c) PROVE Resting'
  BY <1>4 DEF Send, Set
<1>5. ASSUME NEW c \in Clients, CancelUnsent(c) PROVE Resting'
  BY <1>5 DEF CancelUnsent, Settle
<1>6. ASSUME NEW c \in Clients, WaitEnds(c) PROVE Resting'
  BY <1>6 DEF WaitEnds
<1>7. ASSUME NEW t \in Threads, Unregister(t) PROVE Resting'
  BY <1>7 DEF Unregister
<1>8. ASSUME NEW t \in Threads, NEW x \in Places, Check(t, x) PROVE Resting'
  BY <1>8 DEF Check, Refused, Finishes, Ends
<1>9. ASSUME NEW t \in Threads, NEW x \in Places, Enter(t, x) PROVE Resting'
  BY <1>9 DEF Enter, Refused, Finishes, Ends
<1>10. ASSUME NEW t \in Threads, NEW x \in Places, Exit(t, x) PROVE Resting'
  BY <1>10 DEF Exit
<1>11. ASSUME NEW t \in Threads, NEW x \in Places, Last(t, x) PROVE Resting'
  BY <1>11 DEF Last, AfterGate, Finishes, Ends
<1>12. ASSUME NEW t \in Threads, NEW x \in Places, Held(t, x) PROVE Resting'
  BY <1>12, HeldParts DEF AfterGate, Finishes, Ends
<1>13. ASSUME SendEvent PROVE Resting'
  BY <1>13 DEF SendEvent, Unsolicited
<1>14. ASSUME NEW x \in Places, NEW f \in BOOLEAN, CallClose(x, f) PROVE Resting'
  BY <1>14 DEF CallClose, CloseOf
<1>15. ASSUME Dispatch PROVE Resting'
  BY <1>15, DispatchParts
<1>16. ASSUME ReceiveResponse PROVE Resting'
  BY <1>16 DEF ReceiveResponse
<1>17. ASSUME ReceiveEvent PROVE Resting'
  BY <1>17 DEF ReceiveEvent, Set
<1>18. ASSUME Complete PROVE Resting'
  BY <1>18 DEF Complete, Settle
<1>19. ASSUME BeginChannel PROVE Resting'
  BY <1>19 DEF BeginChannel, ChannelReturns, Finishes, Ends
<1>20. ASSUME CancelNext PROVE Resting'
  BY <1>20, CancelNextParts DEF Throws, Ends, flags, gates, ctl
<1>21. ASSUME CancelPending PROVE Resting'
  BY <1>21 DEF CancelPending, Settle
<1>22. ASSUME BeginConnection PROVE Resting'
  BY <1>22 DEF BeginConnection, AfterGate, Finishes, Ends
<1>23. ASSUME NEW x \in Places, Try(x) PROVE Resting'
  BY <1>23 DEF Try
<1>24. ASSUME NEW x \in Places, Mark(x) PROVE Resting'
  BY <1>24 DEF Mark, Throws, Finishes, Ends, Set
<1>25. ASSUME NEW x \in Places, Retry(x) PROVE Resting'
  BY <1>25 DEF Retry, ChannelReturns, AfterGate, Finishes, Ends
<1>26. ASSUME ShutChannel PROVE Resting'
  BY <1>26 DEF ShutChannel, ChannelReturns, Finishes, Ends
<1>27. ASSUME ShutConnection PROVE Resting'
  BY <1>27 DEF ShutConnection, AfterGate, Finishes, Ends
<1>28. ASSUME Notify PROVE Resting'
  BY <1>28 DEF Notify, Set
<1>29. ASSUME UNCHANGED vars PROVE Resting'
  BY <1>29 DEF vars
<1>30. CASE ServiceStep
  BY <1>30, <1>7, <1>8, <1>9, <1>10, <1>11, <1>12, <1>15, <1>16, <1>17, <1>18, <1>19, <1>20, <1>21, <1>22, <1>23, <1>24, <1>25, <1>26, <1>27, <1>28 DEF ServiceStep, Pass
<1>31. ASSUME NEW c \in Clients, ClientStep(c) PROVE Resting'
  BY <1>31, <1>4, <1>5, <1>6, <1>7, <1>8, <1>9, <1>10, <1>11, <1>12 DEF ClientStep, Pass
<1>32. CASE Environment
  BY <1>32, <1>1, <1>2, <1>3, <1>13, <1>14 DEF Environment
<1> QED
  BY <1>29, <1>30, <1>31, <1>32 DEF Next


LEMMA ExcMarkedStep == ASSUME TypeOK, ExcMarked, [Next]_vars PROVE ExcMarked'
<1> USE DEF ExcMarked, TypeOK, GatesOK, At, Goto
<1>1. ASSUME NEW c \in Clients, Register(c) PROVE ExcMarked'
  BY <1>1 DEF Register, Set
<1>2. ASSUME NEW c \in Clients, GiveUp(c) PROVE ExcMarked'
  BY <1>2 DEF GiveUp, Settle
<1>3. ASSUME NEW c \in Clients, Answer(c) PROVE ExcMarked'
  BY <1>3 DEF Answer, Response
<1>4. ASSUME NEW c \in Clients, Send(c) PROVE ExcMarked'
  BY <1>4 DEF Send, Set
<1>5. ASSUME NEW c \in Clients, CancelUnsent(c) PROVE ExcMarked'
  BY <1>5 DEF CancelUnsent, Settle
<1>6. ASSUME NEW c \in Clients, WaitEnds(c) PROVE ExcMarked'
  BY <1>6 DEF WaitEnds
<1>7. ASSUME NEW t \in Threads, Unregister(t) PROVE ExcMarked'
  BY <1>7 DEF Unregister
<1>8. ASSUME NEW t \in Threads, NEW x \in Places, Check(t, x) PROVE ExcMarked'
  BY <1>8 DEF Check, Refused, Finishes, Ends
<1>9. ASSUME NEW t \in Threads, NEW x \in Places, Enter(t, x) PROVE ExcMarked'
  BY <1>9 DEF Enter, Refused, Finishes, Ends
<1>10. ASSUME NEW t \in Threads, NEW x \in Places, Exit(t, x) PROVE ExcMarked'
  BY <1>10 DEF Exit
<1>11. ASSUME NEW t \in Threads, NEW x \in Places, Last(t, x) PROVE ExcMarked'
  BY <1>11 DEF Last, AfterGate, Finishes, Ends
<1>12. ASSUME NEW t \in Threads, NEW x \in Places, Held(t, x) PROVE ExcMarked'
  BY <1>12 DEF Held, AfterGate, Finishes, Ends, CloseOf
<1>13. ASSUME SendEvent PROVE ExcMarked'
  BY <1>13 DEF SendEvent, Unsolicited
<1>14. ASSUME NEW x \in Places, NEW f \in BOOLEAN, CallClose(x, f) PROVE ExcMarked'
  BY <1>14 DEF CallClose, CloseOf
<1>15. ASSUME Dispatch PROVE ExcMarked'
  BY <1>15 DEF Dispatch, Set
<1>16. ASSUME ReceiveResponse PROVE ExcMarked'
  BY <1>16 DEF ReceiveResponse
<1>17. ASSUME ReceiveEvent PROVE ExcMarked'
  BY <1>17 DEF ReceiveEvent, Set
<1>18. ASSUME Complete PROVE ExcMarked'
  BY <1>18 DEF Complete, Settle
<1>19. ASSUME BeginChannel PROVE ExcMarked'
  BY <1>19 DEF BeginChannel, ChannelReturns, Finishes, Ends
<1>20. ASSUME CancelNext PROVE ExcMarked'
  BY <1>20 DEF CancelNext, Throws, Finishes, Ends
<1>21. ASSUME CancelPending PROVE ExcMarked'
  BY <1>21 DEF CancelPending, Settle
<1>22. ASSUME BeginConnection PROVE ExcMarked'
  BY <1>22 DEF BeginConnection, AfterGate, Finishes, Ends
<1>23. ASSUME NEW x \in Places, Try(x) PROVE ExcMarked'
  BY <1>23 DEF Try
<1>24. ASSUME NEW x \in Places, Mark(x) PROVE ExcMarked'
  BY <1>24 DEF Mark, Throws, Finishes, Ends, Set
<1>25. ASSUME NEW x \in Places, Retry(x) PROVE ExcMarked'
  BY <1>25 DEF Retry, ChannelReturns, AfterGate, Finishes, Ends
<1>26. ASSUME ShutChannel PROVE ExcMarked'
  BY <1>26 DEF ShutChannel, ChannelReturns, Finishes, Ends
<1>27. ASSUME ShutConnection PROVE ExcMarked'
  BY <1>27 DEF ShutConnection, AfterGate, Finishes, Ends
<1>28. ASSUME Notify PROVE ExcMarked'
  BY <1>28 DEF Notify, Set
<1>29. ASSUME UNCHANGED vars PROVE ExcMarked'
  BY <1>29 DEF vars
<1>30. CASE ServiceStep
  BY <1>30, <1>7, <1>8, <1>9, <1>10, <1>11, <1>12, <1>15, <1>16, <1>17, <1>18, <1>19, <1>20, <1>21, <1>22, <1>23, <1>24, <1>25, <1>26, <1>27, <1>28 DEF ServiceStep, Pass
<1>31. ASSUME NEW c \in Clients, ClientStep(c) PROVE ExcMarked'
  BY <1>31, <1>4, <1>5, <1>6, <1>7, <1>8, <1>9, <1>10, <1>11, <1>12 DEF ClientStep, Pass
<1>32. CASE Environment
  BY <1>32, <1>1, <1>2, <1>3, <1>13, <1>14 DEF Environment
<1> QED
  BY <1>29, <1>30, <1>31, <1>32 DEF Next

\* What is put into the queue and taken out of it.
LEMMA AppendQueued ==
    ASSUME queue \in Seq(Messages), NEW m \in Messages, queue' = Append(queue, m)
    PROVE  /\ \A i \in 1..Len(queue') : queue'[i] = m \/ \E j \in 1..Len(queue) : queue'[i] = queue[j]
           /\ \A x : Queued(x) \/ m.type = x => Queued(x)'
<1>1. Len(queue') = Len(queue) + 1 /\ Len(queue) \in Nat
  OBVIOUS
<1>2. \A i \in 1..Len(queue) : i \in 1..Len(queue') /\ queue'[i] = queue[i]
  BY <1>1
<1>3. Len(queue') \in 1..Len(queue') /\ queue'[Len(queue')] = m
  BY <1>1
<1>4. \A i \in 1..Len(queue') : i \in 1..Len(queue) \/ i = Len(queue')
  BY <1>1
<1> QED
  BY <1>2, <1>3, <1>4 DEF Queued

LEMMA TailQueued ==
    ASSUME queue \in Seq(Messages), queue # <<>>, queue' = Tail(queue)
    PROVE  /\ Head(queue) = queue[1] /\ 1 \in 1..Len(queue)
           /\ \A i \in 1..Len(queue') : \E j \in 1..Len(queue) : queue'[i] = queue[j]
           /\ \A x : Queued(x) => Head(queue).type = x \/ Queued(x)'
<1>1. Len(queue') = Len(queue) - 1 /\ Len(queue) \in Nat /\ Len(queue) # 0
  OBVIOUS
<1>2. \A i \in 1..Len(queue') : i + 1 \in 1..Len(queue) /\ queue'[i] = queue[i + 1]
  BY <1>1
<1>3. \A j \in 1..Len(queue) : j = 1 \/ (j - 1 \in 1..Len(queue') /\ queue'[j - 1] = queue[j])
  BY <1>1
<1>4. Head(queue) = queue[1] /\ 1 \in 1..Len(queue)
  BY <1>1
<1>5. \A x : Queued(x) => Head(queue).type = x \/ Queued(x)'
  BY <1>3, <1>4 DEF Queued
<1> QED
  BY <1>2, <1>4, <1>5

\* Who is to look at the mark of x.
Leaves(t, x) == \/ t \in inside[x] \/ (place[t] = x /\ step[t] \in {"last", "held"})
                \/ x = "chan" /\ full[t] /\ place[t] = "conn" /\ step[t] \in {"exit", "last", "held"}

LEMMA LookLeaves ==
    ASSUME TypeOK, NEW x \in Places
    PROVE  Look(x) <=> (\E t \in Threads : Leaves(t, x)) \/ Queued(x)
<1>1. inside[x] \subseteq Threads
  BY DEF TypeOK, GatesOK
<1> QED
  BY <1>1 DEF Look, Leaving, Leaves

LEMMA QuietStep == ASSUME TypeOK, Resting, Quiet, [Next]_vars PROVE Quiet'
<1> USE DEF Quiet, Resting, Closes, Closing, TypeOK, GatesOK, ControlOK, Tasks, NoTask, At, Goto
<1>1. ASSUME NEW c \in Clients, Register(c) PROVE Quiet'
  BY <1>1 DEF Register, Set
<1>2. ASSUME NEW c \in Clients, GiveUp(c) PROVE Quiet'
  BY <1>2 DEF GiveUp, Settle
<1>3. ASSUME NEW c \in Clients, Answer(c) PROVE Quiet'
  BY <1>3 DEF Answer, Response
<1>4. ASSUME NEW c \in Clients, Send(c) PROVE Quiet'
  BY <1>4 DEF Send, Set
<1>5. ASSUME NEW c \in Clients, CancelUnsent(c) PROVE Quiet'
  BY <1>5 DEF CancelUnsent, Settle
<1>6. ASSUME NEW c \in Clients, WaitEnds(c) PROVE Quiet'
  BY <1>6 DEF WaitEnds
<1>7. ASSUME NEW t \in Threads, Unregister(t) PROVE Quiet'
  BY <1>7 DEF Unregister
<1>8. ASSUME NEW t \in Threads, NEW x \in Places, Check(t, x) PROVE Quiet'
  BY <1>8 DEF Check, Refused, Finishes, Ends
<1>9. ASSUME NEW t \in Threads, NEW x \in Places, Enter(t, x) PROVE Quiet'
  BY <1>9 DEF Enter, Refused, Finishes, Ends
<1>10. ASSUME NEW t \in Threads, NEW x \in Places, Exit(t, x) PROVE Quiet'
  BY <1>10 DEF Exit
<1>11. ASSUME NEW t \in Threads, NEW x \in Places, Last(t, x) PROVE Quiet'
  BY <1>11 DEF Last, AfterGate, Finishes, Ends
<1>12. ASSUME NEW t \in Threads, NEW x \in Places, Held(t, x) PROVE Quiet'
  BY <1>12, HeldParts DEF AfterGate, Finishes, Ends
<1>13. ASSUME SendEvent PROVE Quiet'
  BY <1>13 DEF SendEvent, Unsolicited
<1>14. ASSUME NEW x \in Places, NEW f \in BOOLEAN, CallClose(x, f) PROVE Quiet'
  BY <1>14 DEF CallClose, CloseOf
<1>15. ASSUME Dispatch PROVE Quiet'
  BY <1>15, DispatchParts
<1>16. ASSUME ReceiveResponse PROVE Quiet'
  BY <1>16 DEF ReceiveResponse
<1>17. ASSUME ReceiveEvent PROVE Quiet'
  BY <1>17 DEF ReceiveEvent, Set
<1>18. ASSUME Complete PROVE Quiet'
  BY <1>18 DEF Complete, Settle
<1>19. ASSUME BeginChannel PROVE Quiet'
  BY <1>19 DEF BeginChannel, ChannelReturns, Finishes, Ends
<1>20. ASSUME CancelNext PROVE Quiet'
  BY <1>20, CancelNextParts DEF Throws, Ends, flags, gates, ctl
<1>21. ASSUME CancelPending PROVE Quiet'
  BY <1>21 DEF CancelPending, Settle
<1>22. ASSUME BeginConnection PROVE Quiet'
  BY <1>22 DEF BeginConnection, AfterGate, Finishes, Ends
<1>23. ASSUME NEW x \in Places, Try(x) PROVE Quiet'
  BY <1>23 DEF Try
<1>24. ASSUME NEW x \in Places, Mark(x) PROVE Quiet'
  BY <1>24 DEF Mark, Throws, Finishes, Ends, Set
<1>25. ASSUME NEW x \in Places, Retry(x) PROVE Quiet'
  BY <1>25 DEF Retry, ChannelReturns, AfterGate, Finishes, Ends
<1>26. ASSUME ShutChannel PROVE Quiet'
  BY <1>26 DEF ShutChannel, ChannelReturns, Finishes, Ends
<1>27. ASSUME ShutConnection PROVE Quiet'
  BY <1>27 DEF ShutConnection, AfterGate, Finishes, Ends
<1>28. ASSUME Notify PROVE Quiet'
  BY <1>28 DEF Notify, Set
<1>29. ASSUME UNCHANGED vars PROVE Quiet'
  BY <1>29 DEF vars
<1>30. CASE ServiceStep
  BY <1>30, <1>7, <1>8, <1>9, <1>10, <1>11, <1>12, <1>15, <1>16, <1>17, <1>18, <1>19, <1>20, <1>21, <1>22, <1>23, <1>24, <1>25, <1>26, <1>27, <1>28 DEF ServiceStep, Pass
<1>31. ASSUME NEW c \in Clients, ClientStep(c) PROVE Quiet'
  BY <1>31, <1>4, <1>5, <1>6, <1>7, <1>8, <1>9, <1>10, <1>11, <1>12 DEF ClientStep, Pass
<1>32. CASE Environment
  BY <1>32, <1>1, <1>2, <1>3, <1>13, <1>14 DEF Environment
<1> QED
  BY <1>29, <1>30, <1>31, <1>32 DEF Next


LEMMA LeavesKept ==
    ASSUME TypeOK, Placed, Holder, NEW y \in Places, NEW u \in Threads, Leaves(u, y), closeOnExit[y], open[y], [Next]_vars
    PROVE  \/ \E v \in Threads : Leaves(v, y)'
           \/ Queued(y)' \/ At(Service, y, "shut") \/ (place'[Service] = y /\ step'[Service] = "begin")
           \/ y = "chan" /\ place'[Service] = "conn" /\ step'[Service] = "begin" /\ full'[Service]
<1> DEFINE Looked == \/ \E v \in Threads : Leaves(v, y)'
                     \/ Queued(y)' \/ At(Service, y, "shut") \/ (place'[Service] = y /\ step'[Service] = "begin")
                     \/ y = "chan" /\ place'[Service] = "conn" /\ step'[Service] = "begin" /\ full'[Service]
<1> SUFFICES Looked
  OBVIOUS
<1> USE DEF Leaves, Placed, Stays, Goes, Holder, TypeOK, GatesOK, ControlOK, CanClose, CanEnter, At, Goto
<1>1. ASSUME NEW c \in Clients, Register(c) PROVE Looked
  BY <1>1 DEF Register, Set
<1>2. ASSUME NEW c \in Clients, GiveUp(c) PROVE Looked
  BY <1>2 DEF GiveUp, Settle
<1>3. ASSUME NEW c \in Clients, Answer(c) PROVE Looked
  BY <1>3 DEF Answer, Response
<1>4. ASSUME NEW c \in Clients, Send(c) PROVE Looked
  BY <1>4 DEF Send, Set
<1>5. ASSUME NEW c \in Clients, CancelUnsent(c) PROVE Looked
  BY <1>5 DEF CancelUnsent, Settle
<1>6. ASSUME NEW c \in Clients, WaitEnds(c) PROVE Looked
  BY <1>6 DEF WaitEnds
<1>7. ASSUME NEW t \in Threads, Unregister(t) PROVE Looked
  BY <1>7 DEF Unregister
<1>8. ASSUME NEW t \in Threads, NEW x \in Places, Check(t, x) PROVE Looked
  BY <1>8 DEF Check, Refused, Finishes, Ends
<1>9. ASSUME NEW t \in Threads, NEW x \in Places, Enter(t, x) PROVE Looked
  BY <1>9 DEF Enter, Refused, Finishes, Ends
<1>10. ASSUME NEW t \in Threads, NEW x \in Places, Exit(t, x) PROVE Looked
  BY <1>10 DEF Exit
<1>11. ASSUME NEW t \in Threads, NEW x \in Places, Last(t, x) PROVE Looked
  BY <1>11 DEF Last, AfterGate, Finishes, Ends
<1>12. ASSUME NEW t \in Threads, NEW x \in Places, Held(t, x) PROVE Looked
  <2>1. CASE t # u
    BY <1>12, <2>1, HeldParts DEF AfterGate, Finishes, Ends, flags
  <2>2. CASE t = u /\ (x = y \/ u \in inside[y])
    <3>1. CASE u \in inside[y]
      BY <1>12, <2>2, <3>1, HeldParts
    <3>2. CASE x = y /\ queue' = Append(queue, CloseOf(x, exc[x]))
      <4>1. CloseOf(x, exc[x]) \in Messages /\ CloseOf(x, exc[x]).type = y
        BY <3>2, MessageFacts DEF CloseOf
      <4>2. Queued(y)'
        BY <3>2, <4>1, AppendQueued DEF RequestsOK
      <4> QED
        BY <4>2
    <3>3. CASE x = y /\ UNCHANGED queue
      BY <1>12, <3>3, HeldParts
    <3> QED
      BY <1>12, <2>2, <3>1, <3>2, <3>3, HeldParts
  <2>3. CASE t = u /\ ~ (x = y \/ u \in inside[y])
    BY <1>12, <2>3, HeldParts DEF AfterGate
  <2> QED
    BY <2>1, <2>2, <2>3
<1>13. ASSUME SendEvent PROVE Looked
  BY <1>13 DEF SendEvent, Unsolicited
<1>14. ASSUME NEW x \in Places, NEW f \in BOOLEAN, CallClose(x, f) PROVE Looked
  BY <1>14 DEF CallClose, CloseOf
<1>15. ASSUME Dispatch PROVE Looked
  BY <1>15 DEF Dispatch, Set
<1>16. ASSUME ReceiveResponse PROVE Looked
  BY <1>16 DEF ReceiveResponse
<1>17. ASSUME ReceiveEvent PROVE Looked
  BY <1>17 DEF ReceiveEvent, Set
<1>18. ASSUME Complete PROVE Looked
  BY <1>18 DEF Complete, Settle
<1>19. ASSUME BeginChannel PROVE Looked
  BY <1>19 DEF BeginChannel, ChannelReturns, Finishes, Ends
<1>20. ASSUME CancelNext PROVE Looked
  BY <1>20, CancelNextParts DEF Throws, Ends, flags, gates, ctl
<1>21. ASSUME CancelPending PROVE Looked
  BY <1>21 DEF CancelPending, Settle
<1>22. ASSUME BeginConnection PROVE Looked
  BY <1>22 DEF BeginConnection, AfterGate, Finishes, Ends
<1>23. ASSUME NEW x \in Places, Try(x) PROVE Looked
  BY <1>23 DEF Try
<1>24. ASSUME NEW x \in Places, Mark(x) PROVE Looked
  BY <1>24 DEF Mark, Throws, Finishes, Ends, Set
<1>25. ASSUME NEW x \in Places, Retry(x) PROVE Looked
  BY <1>25 DEF Retry, ChannelReturns, AfterGate, Finishes, Ends
<1>26. ASSUME ShutChannel PROVE Looked
  BY <1>26 DEF ShutChannel, ChannelReturns, Finishes, Ends
<1>27. ASSUME ShutConnection PROVE Looked
  BY <1>27 DEF ShutConnection, AfterGate, Finishes, Ends
<1>28. ASSUME Notify PROVE Looked
  BY <1>28 DEF Notify, Set
<1>29. ASSUME UNCHANGED vars PROVE Looked
  BY <1>29 DEF vars
<1>30. CASE ServiceStep
  BY <1>30, <1>7, <1>8, <1>9, <1>10, <1>11, <1>12, <1>15, <1>16, <1>17, <1>18, <1>19, <1>20, <1>21, <1>22, <1>23, <1>24, <1>25, <1>26, <1>27, <1>28 DEF ServiceStep, Pass
<1>31. ASSUME NEW c \in Clients, ClientStep(c) PROVE Looked
  BY <1>31, <1>4, <1>5, <1>6, <1>7, <1>8, <1>9, <1>10, <1>11, <1>12 DEF ClientStep, Pass
<1>32. CASE Environment
  BY <1>32, <1>1, <1>2, <1>3, <1>13, <1>14 DEF Environment
<1> QED
  BY <1>29, <1>30, <1>31, <1>32 DEF Next

\* The causes that the queue carries for the channel are those it has already.
LEMMA CausesKnownStep ==
    ASSUME Usage \subseteq {"socket"}, TypeOK, ~ svc.event, CausesKnown, [Next]_vars
    PROVE  CausesKnown'
<1> USE DEF CausesKnown, TypeOK, GatesOK, RequestsOK
<1>1. ASSUME NEW c \in Clients, Register(c) PROVE CausesKnown'
  BY <1>1 DEF Register, Set
<1>2. ASSUME NEW c \in Clients, GiveUp(c) PROVE CausesKnown'
  BY <1>2 DEF GiveUp, Settle
<1>3. ASSUME NEW c \in Clients, Answer(c) PROVE CausesKnown'
  <2>1. Response(c) \in Messages /\ Response(c).type = "response" /\ queue' = Append(queue, Response(c))
    BY <1>3, MessageFacts DEF Answer, Response
  <2>2. \A i \in 1..Len(queue') : queue'[i] = Response(c) \/ \E j \in 1..Len(queue) : queue'[i] = queue[j]
    BY <2>1, AppendQueued
  <2>3. UNCHANGED exc
    BY <1>3 DEF Answer
  <2> QED
    BY <2>1, <2>2, <2>3
<1>4. ASSUME NEW c \in Clients, Send(c) PROVE CausesKnown'
  BY <1>4 DEF Send, Set
<1>5. ASSUME NEW c \in Clients, CancelUnsent(c) PROVE CausesKnown'
  BY <1>5 DEF CancelUnsent, Settle
<1>6. ASSUME NEW c \in Clients, WaitEnds(c) PROVE CausesKnown'
  BY <1>6 DEF WaitEnds
<1>7. ASSUME NEW t \in Threads, Unregister(t) PROVE CausesKnown'
  BY <1>7 DEF Unregister
<1>8. ASSUME NEW t \in Threads, NEW x \in Places, Check(t, x) PROVE CausesKnown'
  BY <1>8 DEF Check, Refused, Finishes, Ends
<1>9. ASSUME NEW t \in Threads, NEW x \in Places, Enter(t, x) PROVE CausesKnown'
  BY <1>9 DEF Enter, Refused, Finishes, Ends
<1>10. ASSUME NEW t \in Threads, NEW x \in Places, Exit(t, x) PROVE CausesKnown'
  BY <1>10 DEF Exit
<1>11. ASSUME NEW t \in Threads, NEW x \in Places, Last(t, x) PROVE CausesKnown'
  BY <1>11 DEF Last, AfterGate, Finishes, Ends
<1>12. ASSUME NEW t \in Threads, NEW x \in Places, Held(t, x) PROVE CausesKnown'
  <2>1. PICK f \in BOOLEAN : f = exc[x]
    OBVIOUS
  <2>2. UNCHANGED exc /\ (UNCHANGED queue \/ queue' = Append(queue, CloseOf(x, f)))
    BY <1>12, <2>1, HeldParts DEF flags
  <2>3. CASE queue' = Append(queue, CloseOf(x, f))
    <3>1. CloseOf(x, f) \in Messages /\ CloseOf(x, f).type = x /\ CloseOf(x, f).cause = f
      BY MessageFacts DEF CloseOf
    <3>2. \A i \in 1..Len(queue') : queue'[i] = CloseOf(x, f) \/ \E j \in 1..Len(queue) : queue'[i] = queue[j]
      BY <2>3, <3>1, AppendQueued
    <3>3. CloseOf(x, f).type = "chan" /\ CloseOf(x, f).cause => exc'["chan"]
      BY <2>1, <2>2, <3>1
    <3>4. CloseOf(x, f).type # "event"
      BY <3>1
    <3>5. ASSUME NEW i \in 1..Len(queue')
          PROVE  queue'[i].type # "event" /\ (queue'[i].type = "chan" /\ queue'[i].cause => exc'["chan"])
      BY <2>2, <3>2, <3>3, <3>4
    <3> QED
      BY <3>5
  <2> QED
    BY <2>2, <2>3
<1>13. ASSUME SendEvent PROVE CausesKnown'
  BY <1>13 DEF SendEvent, Unsolicited
<1>14. ASSUME NEW x \in Places, NEW f \in BOOLEAN, CallClose(x, f) PROVE CausesKnown'
  <2>1. UNCHANGED exc /\ queue' = Append(queue, CloseOf(x, f)) /\ ~ f
    BY <1>14 DEF CallClose
  <2>2. CloseOf(x, f) \in Messages /\ CloseOf(x, f).type = x /\ CloseOf(x, f).cause = f
    BY MessageFacts DEF CloseOf
  <2>3. \A i \in 1..Len(queue') : queue'[i] = CloseOf(x, f) \/ \E j \in 1..Len(queue) : queue'[i] = queue[j]
    BY <2>1, <2>2, AppendQueued
  <2> QED
    BY <2>1, <2>2, <2>3
<1>15. ASSUME Dispatch PROVE CausesKnown'
  <2>1. UNCHANGED exc /\ queue # <<>> /\ queue' = Tail(queue)
    BY <1>15 DEF Dispatch
  <2>2. \A i \in 1..Len(queue') : \E j \in 1..Len(queue) : queue'[i] = queue[j]
    BY <2>1, TailQueued
  <2> QED
    BY <2>1, <2>2
<1>16. ASSUME ReceiveResponse PROVE CausesKnown'
  BY <1>16 DEF ReceiveResponse
<1>17. ASSUME ReceiveEvent PROVE CausesKnown'
  BY <1>17 DEF ReceiveEvent, Set
<1>18. ASSUME Complete PROVE CausesKnown'
  BY <1>18 DEF Complete, Settle
<1>19. ASSUME BeginChannel PROVE CausesKnown'
  BY <1>19 DEF BeginChannel, ChannelReturns, Finishes, Ends
<1>20. ASSUME CancelNext PROVE CausesKnown'
  BY <1>20, CancelNextParts DEF Throws, Ends, flags, gates, net, ctl
<1>21. ASSUME CancelPending PROVE CausesKnown'
  BY <1>21 DEF CancelPending, Settle
<1>22. ASSUME BeginConnection PROVE CausesKnown'
  BY <1>22 DEF BeginConnection, AfterGate, Finishes, Ends
<1>23. ASSUME NEW x \in Places, Try(x) PROVE CausesKnown'
  BY <1>23 DEF Try
<1>24. ASSUME NEW x \in Places, Mark(x) PROVE CausesKnown'
  BY <1>24 DEF Mark, Throws, Finishes, Ends, Set
<1>25. ASSUME NEW x \in Places, Retry(x) PROVE CausesKnown'
  BY <1>25 DEF Retry, ChannelReturns, AfterGate, Finishes, Ends
<1>26. ASSUME ShutChannel PROVE CausesKnown'
  BY <1>26 DEF ShutChannel, ChannelReturns, Finishes, Ends
<1>27. ASSUME ShutConnection PROVE CausesKnown'
  BY <1>27 DEF ShutConnection, AfterGate, Finishes, Ends
<1>28. ASSUME Notify PROVE CausesKnown'
  BY <1>28 DEF Notify, Set
<1>29. ASSUME UNCHANGED vars PROVE CausesKnown'
  BY <1>29 DEF vars
<1> HIDE DEF CausesKnown
<1>30. CASE ServiceStep
  BY <1>30, <1>7, <1>8, <1>9, <1>10, <1>11, <1>12, <1>15, <1>16, <1>17, <1>18, <1>19, <1>20, <1>21, <1>22, <1>23, <1>24, <1>25, <1>26, <1>27, <1>28 DEF ServiceStep, Pass
<1>31. ASSUME NEW c \in Clients, ClientStep(c) PROVE CausesKnown'
  BY <1>31, <1>4, <1>5, <1>6, <1>7, <1>8, <1>9, <1>10, <1>11, <1>12 DEF ClientStep, Pass
<1>32. CASE Environment
  BY <1>32, <1>1, <1>2, <1>3, <1>13, <1>14 DEF Environment
<1> QED
  BY <1>29, <1>30, <1>31, <1>32 DEF Next


\* What Plain says besides.
Causeless ==
    /\ ~ svc.event
    /\ exc["chan"] => ~ mapped
    /\ Closes("chan") /\ svc.nested /\ exc["chan"] => step[Service] \in {"retry", "shut"}
    /\ Closes("chan") /\ svc.cause => svc.nested \/ exc["chan"]

LEMMA CauselessStep ==
    ASSUME Usage \subseteq {"socket"}, TypeOK, Resting, CausesKnown, Causeless, [Next]_vars
    PROVE  Causeless'
<1> USE DEF Causeless, Resting, Closes, Closing, TypeOK, GatesOK, ControlOK, Tasks, NoTask, At, Goto
<1>1. ASSUME NEW c \in Clients, Register(c) PROVE Causeless'
  BY <1>1 DEF Register, Set
<1>2. ASSUME NEW c \in Clients, GiveUp(c) PROVE Causeless'
  BY <1>2 DEF GiveUp, Settle
<1>3. ASSUME NEW c \in Clients, Answer(c) PROVE Causeless'
  BY <1>3 DEF Answer, Response
<1>4. ASSUME NEW c \in Clients, Send(c) PROVE Causeless'
  BY <1>4 DEF Send, Set
<1>5. ASSUME NEW c \in Clients, CancelUnsent(c) PROVE Causeless'
  BY <1>5 DEF CancelUnsent, Settle
<1>6. ASSUME NEW c \in Clients, WaitEnds(c) PROVE Causeless'
  BY <1>6 DEF WaitEnds
<1>7. ASSUME NEW t \in Threads, Unregister(t) PROVE Causeless'
  BY <1>7 DEF Unregister
<1>8. ASSUME NEW t \in Threads, NEW x \in Places, Check(t, x) PROVE Causeless'
  BY <1>8 DEF Check, Refused, Finishes, Ends
<1>9. ASSUME NEW t \in Threads, NEW x \in Places, Enter(t, x) PROVE Causeless'
  BY <1>9 DEF Enter, Refused, Finishes, Ends
<1>10. ASSUME NEW t \in Threads, NEW x \in Places, Exit(t, x) PROVE Causeless'
  BY <1>10 DEF Exit
<1>11. ASSUME NEW t \in Threads, NEW x \in Places, Last(t, x) PROVE Causeless'
  BY <1>11 DEF Last, AfterGate, Finishes, Ends
<1>12. ASSUME NEW t \in Threads, NEW x \in Places, Held(t, x) PROVE Causeless'
  BY <1>12, HeldParts DEF AfterGate, Finishes, Ends, flags
<1>13. ASSUME SendEvent PROVE Causeless'
  BY <1>13 DEF SendEvent, Unsolicited
<1>14. ASSUME NEW x \in Places, NEW f \in BOOLEAN, CallClose(x, f) PROVE Causeless'
  BY <1>14 DEF CallClose, CloseOf
<1>15. ASSUME Dispatch PROVE Causeless'
  <2>1. queue # <<>> /\ Head(queue) = queue[1] /\ 1 \in 1..Len(queue)
    BY <1>15, TailQueued DEF Dispatch, RequestsOK
  <2>2. Head(queue).type # "event" /\ (Head(queue).type = "chan" /\ Head(queue).cause => exc["chan"])
    BY <2>1 DEF CausesKnown
  <2>3. UNCHANGED <<exc, mapped>>
    BY <1>15 DEF Dispatch
  <2>4. CASE UNCHANGED <<pc, ctl>>
    BY <2>3, <2>4
  <2>5. CASE svc' = [svc EXCEPT !.cause = Head(queue).cause] /\ Goto(Service, Head(queue).type, "begin") /\ Head(queue).type \in Places
    <3>1. svc'.cause = Head(queue).cause /\ svc'.event = svc.event /\ svc'.nested = svc.nested
      BY <2>5
    <3> QED
      BY <1>15, <2>2, <2>3, <2>5, <3>1 DEF Dispatch
  <2>6. CASE svc' = [svc EXCEPT !.req = Head(queue).req, !.event = (Head(queue).type = "event")] /\ Goto(Service, "conn", "check")
    <3>1. svc'.event = FALSE
      BY <2>2, <2>6
    <3> QED
      BY <2>2, <2>3, <2>6, <3>1
  <2> QED
    BY <1>15, <2>4, <2>5, <2>6 DEF Dispatch
<1>16. ASSUME ReceiveResponse PROVE Causeless'
  BY <1>16 DEF ReceiveResponse
<1>17. ASSUME ReceiveEvent PROVE Causeless'
  BY <1>17 DEF ReceiveEvent, Set
<1>18. ASSUME Complete PROVE Causeless'
  BY <1>18 DEF Complete, Settle
<1>19. ASSUME BeginChannel PROVE Causeless'
  BY <1>19 DEF BeginChannel, ChannelReturns, Finishes, Ends
<1>20. ASSUME CancelNext PROVE Causeless'
  BY <1>20, CancelNextParts DEF Throws, Ends, flags, gates, net, ctl
<1>21. ASSUME CancelPending PROVE Causeless'
  BY <1>21 DEF CancelPending, Settle
<1>22. ASSUME BeginConnection PROVE Causeless'
  BY <1>22 DEF BeginConnection, AfterGate, Finishes, Ends
<1>23. ASSUME NEW x \in Places, Try(x) PROVE Causeless'
  BY <1>23 DEF Try
<1>24. ASSUME NEW x \in Places, Mark(x) PROVE Causeless'
  BY <1>24 DEF Mark, Throws, Finishes, Ends, Set
<1>25. ASSUME NEW x \in Places, Retry(x) PROVE Causeless'
  BY <1>25 DEF Retry, ChannelReturns, AfterGate, Finishes, Ends
<1>26. ASSUME ShutChannel PROVE Causeless'
  BY <1>26 DEF ShutChannel, ChannelReturns, Finishes, Ends
<1>27. ASSUME ShutConnection PROVE Causeless'
  BY <1>27 DEF ShutConnection, AfterGate, Finishes, Ends
<1>28. ASSUME Notify PROVE Causeless'
  BY <1>28 DEF Notify, Set
<1>29. ASSUME UNCHANGED vars PROVE Causeless'
  BY <1>29 DEF vars
<1>30. CASE ServiceStep
  BY <1>30, <1>7, <1>8, <1>9, <1>10, <1>11, <1>12, <1>15, <1>16, <1>17, <1>18, <1>19, <1>20, <1>21, <1>22, <1>23, <1>24, <1>25, <1>26, <1>27, <1>28 DEF ServiceStep, Pass
<1>31. ASSUME NEW c \in Clients, ClientStep(c) PROVE Causeless'
  BY <1>31, <1>4, <1>5, <1>6, <1>7, <1>8, <1>9, <1>10, <1>11, <1>12 DEF ClientStep, Pass
<1>32. CASE Environment
  BY <1>32, <1>1, <1>2, <1>3, <1>13, <1>14 DEF Environment
<1> QED
  BY <1>29, <1>30, <1>31, <1>32 DEF Next


LEMMA PlainStep == ASSUME TypeOK, Resting, Plain, [Next]_vars PROVE Plain'
<1>1. CASE Usage \subseteq {"socket"}
  <2>1. CausesKnown /\ Causeless
    BY <1>1 DEF Plain, Causeless
  <2>2. CausesKnown'
    BY <1>1, <2>1, CausesKnownStep DEF Causeless
  <2>3. Causeless'
    BY <1>1, <2>1, CauselessStep
  <2> QED
    BY <2>2, <2>3 DEF Plain, Causeless
<1>2. CASE ~ (Usage \subseteq {"socket"})
  BY <1>2 DEF Plain
<1> QED
  BY <1>1, <1>2

\* A close that is queued stays so until the service thread begins it.
LEMMA QueuedKept ==
    ASSUME TypeOK, NEW y \in Places, Queued(y), [Next]_vars
    PROVE  Queued(y)' \/ (place'[Service] = y /\ step'[Service] = "begin")
<1> DEFINE Kept == Queued(y)' \/ (place'[Service] = y /\ step'[Service] = "begin")
<1> SUFFICES Kept
  OBVIOUS
<1>0. UNCHANGED queue => Kept
  BY DEF Queued
<1>40. ASSUME NEW m \in Messages, queue' = Append(queue, m) PROVE Kept
  BY <1>40, AppendQueued DEF TypeOK, RequestsOK
<1> HIDE DEF Kept
<1>1. ASSUME NEW c \in Clients, Register(c) PROVE Kept
  BY <1>1, <1>0 DEF Register
<1>2. ASSUME NEW c \in Clients, GiveUp(c) PROVE Kept
  BY <1>2, <1>0 DEF GiveUp
<1>3. ASSUME NEW c \in Clients, Answer(c) PROVE Kept
  BY <1>3, <1>40, MessageFacts DEF Answer
<1>4. ASSUME NEW c \in Clients, Send(c) PROVE Kept
  BY <1>4, <1>0 DEF Send
<1>5. ASSUME NEW c \in Clients, CancelUnsent(c) PROVE Kept
  BY <1>5, <1>0 DEF CancelUnsent
<1>6. ASSUME NEW c \in Clients, WaitEnds(c) PROVE Kept
  BY <1>6, <1>0 DEF WaitEnds
<1>7. ASSUME NEW t \in Threads, Unregister(t) PROVE Kept
  BY <1>7, <1>0 DEF Unregister
<1>8. ASSUME NEW t \in Threads, NEW x \in Places, Check(t, x) PROVE Kept
  BY <1>8, <1>0 DEF Check
<1>9. ASSUME NEW t \in Threads, NEW x \in Places, Enter(t, x) PROVE Kept
  BY <1>9, <1>0 DEF Enter
<1>10. ASSUME NEW t \in Threads, NEW x \in Places, Exit(t, x) PROVE Kept
  BY <1>10, <1>0 DEF Exit
<1>11. ASSUME NEW t \in Threads, NEW x \in Places, Last(t, x) PROVE Kept
  BY <1>11, <1>0 DEF Last
<1>12. ASSUME NEW t \in Threads, NEW x \in Places, Held(t, x) PROVE Kept
  <2>1. CloseOf(x, exc[x]) \in Messages
    BY MessageFacts DEF TypeOK, GatesOK
  <2> QED
    BY <1>12, <1>0, <1>40, <2>1 DEF Held
<1>13. ASSUME SendEvent PROVE Kept
  BY <1>13, <1>40, MessageFacts DEF SendEvent
<1>14. ASSUME NEW x \in Places, NEW f \in BOOLEAN, CallClose(x, f) PROVE Kept
  BY <1>14, <1>40, MessageFacts DEF CallClose
<1>15. ASSUME Dispatch PROVE Kept
  <2>1. queue # <<>> /\ queue' = Tail(queue)
    BY <1>15 DEF Dispatch
  <2>2. Queued(y)' \/ Head(queue).type = y
    BY <2>1, TailQueued DEF TypeOK, RequestsOK
  <2>3. CASE UNCHANGED pc /\ Head(queue).type \notin Places
    BY <2>2, <2>3 DEF Kept
  <2>4. CASE Head(queue).type \in Places
    <3>1. Goto(Service, Head(queue).type, "begin")
      BY <1>15, <2>4 DEF Dispatch
    <3> QED
      BY <2>2, <3>1 DEF Kept, Goto, TypeOK, ControlOK
  <2> QED
    BY <1>15, <2>2, <2>4 DEF Kept
<1>16. ASSUME ReceiveResponse PROVE Kept
  BY <1>16, <1>0 DEF ReceiveResponse
<1>17. ASSUME ReceiveEvent PROVE Kept
  BY <1>17, <1>0 DEF ReceiveEvent
<1>18. ASSUME Complete PROVE Kept
  BY <1>18, <1>0 DEF Complete
<1>19. ASSUME BeginChannel PROVE Kept
  BY <1>19, <1>0 DEF BeginChannel
<1>20. ASSUME CancelNext PROVE Kept
  BY <1>20, <1>0, CancelNextParts DEF net
<1>21. ASSUME CancelPending PROVE Kept
  BY <1>21, <1>0 DEF CancelPending
<1>22. ASSUME BeginConnection PROVE Kept
  BY <1>22, <1>0 DEF BeginConnection
<1>23. ASSUME NEW x \in Places, Try(x) PROVE Kept
  BY <1>23, <1>0 DEF Try
<1>24. ASSUME NEW x \in Places, Mark(x) PROVE Kept
  BY <1>24, <1>0 DEF Mark
<1>25. ASSUME NEW x \in Places, Retry(x) PROVE Kept
  BY <1>25, <1>0 DEF Retry
<1>26. ASSUME ShutChannel PROVE Kept
  BY <1>26, <1>0 DEF ShutChannel
<1>27. ASSUME ShutConnection PROVE Kept
  BY <1>27, <1>0 DEF ShutConnection
<1>28. ASSUME Notify PROVE Kept
  BY <1>28, <1>0 DEF Notify
<1>29. ASSUME UNCHANGED vars PROVE Kept
  BY <1>29, <1>0 DEF vars, net
<1>30. CASE ServiceStep
  BY <1>30, <1>7, <1>8, <1>9, <1>10, <1>11, <1>12, <1>15, <1>16, <1>17, <1>18, <1>19, <1>20, <1>21, <1>22, <1>23, <1>24, <1>25, <1>26, <1>27, <1>28 DEF ServiceStep, Pass
<1>31. ASSUME NEW c \in Clients, ClientStep(c) PROVE Kept
  BY <1>31, <1>4, <1>5, <1>6, <1>7, <1>8, <1>9, <1>10, <1>11, <1>12 DEF ClientStep, Pass
<1>32. CASE Environment
  BY <1>32, <1>1, <1>2, <1>3, <1>13, <1>14 DEF Environment
<1> QED
  BY <1>29, <1>30, <1>31, <1>32 DEF Next


\* Where a thread is to look at a mark, one is until a close is under way.
LEMMA LookKept ==
    ASSUME TypeOK, Placed, Holder, NEW y \in Places, Look(y), closeOnExit[y], open[y], [Next]_vars
    PROVE  \/ Look(y)' \/ At(Service, y, "shut") \/ (place'[Service] = y /\ step'[Service] = "begin")
           \/ y = "chan" /\ place'[Service] = "conn" /\ step'[Service] = "begin" /\ full'[Service]
<1>1. (\E t \in Threads : Leaves(t, y)) \/ Queued(y)
  BY LookLeaves
<1>2. (\E v \in Threads : Leaves(v, y)') => Look(y)'
  BY DEF Look, Leaving, Leaves
<1>3. Queued(y)' => Look(y)'
  BY DEF Look
<1> QED
  BY <1>1, <1>2, <1>3, LeavesKept, QueuedKept

\* Nobody is inside, and nobody holds the gate, unless somebody is to look.
LEMMA NobodyLooks ==
    ASSUME TypeOK, Holder, NEW y \in Places, ~ Look(y), ~ At(Service, y, "shut")
    PROVE  CanClose(y)
<1>1. inside[y] = {}
  BY DEF Look, Leaving
<1>2. owner[y] = None
  BY DEF Holder, Look, Leaving, At, TypeOK, GatesOK
<1> QED
  BY <1>1, <1>2 DEF CanClose

\* The close that was under way still is, or has been done.
LEMMA WillKept ==
    ASSUME Lossless, TypeOK, RequestsHeld, Holder, ExcMarked, Quiet, Plain, Emptied, Twice,
           NEW y \in Places, closeOnExit[y], open'[y], Will(y), ~ Look(y), [Next]_vars
    PROVE  Look(y)' \/ Will(y)'
<1> DEFINE Kept == Will(y)' \/ (place'[Service] = y /\ step'[Service] = "last")
<1> SUFFICES Kept
  BY DEF Look, Leaving
<1>0. ~ At(Service, y, "shut") => CanClose(y)
  BY NobodyLooks
<1> USE DEF Will, Closes, Closing, TypeOK, GatesOK, ControlOK, Tasks, CanClose, At, Goto
<1>1. ASSUME NEW c \in Clients, Register(c) PROVE Kept
  BY <1>1 DEF Register, Set
<1>2. ASSUME NEW c \in Clients, GiveUp(c) PROVE Kept
  BY <1>2 DEF GiveUp, Settle
<1>3. ASSUME NEW c \in Clients, Answer(c) PROVE Kept
  BY <1>3 DEF Answer, Response
<1>4. ASSUME NEW c \in Clients, Send(c) PROVE Kept
  BY <1>4 DEF Send, Set
<1>5. ASSUME NEW c \in Clients, CancelUnsent(c) PROVE Kept
  BY <1>5 DEF CancelUnsent, Settle
<1>6. ASSUME NEW c \in Clients, WaitEnds(c) PROVE Kept
  BY <1>6 DEF WaitEnds
<1>7. ASSUME NEW t \in Threads, Unregister(t) PROVE Kept
  BY <1>7 DEF Unregister
<1>8. ASSUME NEW t \in Threads, NEW x \in Places, Check(t, x) PROVE Kept
  BY <1>8 DEF Check, Refused, Finishes, Ends
<1>9. ASSUME NEW t \in Threads, NEW x \in Places, Enter(t, x) PROVE Kept
  BY <1>9 DEF Enter, Refused, Finishes, Ends
<1>10. ASSUME NEW t \in Threads, NEW x \in Places, Exit(t, x) PROVE Kept
  BY <1>10 DEF Exit
<1>11. ASSUME NEW t \in Threads, NEW x \in Places, Last(t, x) PROVE Kept
  BY <1>11 DEF Last, AfterGate, Finishes, Ends
<1>12. ASSUME NEW t \in Threads, NEW x \in Places, Held(t, x) PROVE Kept
  BY <1>12, HeldParts DEF AfterGate, Finishes, Ends, flags
<1>13. ASSUME SendEvent PROVE Kept
  BY <1>13 DEF SendEvent, Unsolicited
<1>14. ASSUME NEW x \in Places, NEW f \in BOOLEAN, CallClose(x, f) PROVE Kept
  BY <1>14 DEF CallClose, CloseOf
<1>15. ASSUME Dispatch PROVE Kept
  BY <1>15 DEF Dispatch, Set
<1>16. ASSUME ReceiveResponse PROVE Kept
  BY <1>16 DEF ReceiveResponse
<1>17. ASSUME ReceiveEvent PROVE Kept
  BY <1>17 DEF ReceiveEvent, Set
<1>18. ASSUME Complete PROVE Kept
  BY <1>18 DEF Complete, Settle
<1>19. ASSUME BeginChannel PROVE Kept
  BY <1>19 DEF BeginChannel, ChannelReturns, Finishes, Ends
<1>20. ASSUME CancelNext PROVE Kept
  <2>1. ~ (svc.more /\ table = {})
    BY <1>20, CancelNextParts DEF Emptied, flags
  <2> QED
    BY <1>20, <2>1, CancelNextParts
<1>21. ASSUME CancelPending PROVE Kept
  BY <1>21 DEF CancelPending, Settle
<1>22. ASSUME BeginConnection PROVE Kept
  BY <1>22 DEF BeginConnection, AfterGate, Finishes, Ends
<1>23. ASSUME NEW x \in Places, Try(x) PROVE Kept
  BY <1>23 DEF Try
<1>24. ASSUME NEW x \in Places, Mark(x) PROVE Kept
  <2>1. CASE x = "chan" /\ exc[x]
    <3>1. y # "chan"
      BY <1>24, <2>1 DEF Mark, Twice
    <3>2. y = "conn" /\ svc.nested /\ Closes("chan")
      BY <1>24, <2>1, <3>1 DEF Mark
    <3>3. CASE "socket" \notin Usage
      BY <3>2, <3>3 DEF Quiet
    <3>4. CASE "socket" \in Usage
      BY <1>24, <2>1, <3>2, <3>4 DEF Plain, Lossless, Mark
    <3> QED
      BY <3>3, <3>4
  <2>2. CASE ~ (x = "chan" /\ exc[x])
    BY <1>24, <2>2 DEF Mark
  <2> QED
    BY <2>1, <2>2
<1>25. ASSUME NEW x \in Places, Retry(x) PROVE Kept
  BY <1>25, <1>0 DEF Retry, ChannelReturns, AfterGate, Finishes, Ends
<1>26. ASSUME ShutChannel PROVE Kept
  BY <1>26 DEF ShutChannel, ChannelReturns, Finishes, Ends
<1>27. ASSUME ShutConnection PROVE Kept
  BY <1>27 DEF ShutConnection, AfterGate, Finishes, Ends
<1>28. ASSUME Notify PROVE Kept
  BY <1>28 DEF Notify, Set
<1>29. ASSUME UNCHANGED vars PROVE Kept
  BY <1>29 DEF vars
<1>30. CASE ServiceStep
  BY <1>30, <1>7, <1>8, <1>9, <1>10, <1>11, <1>12, <1>15, <1>16, <1>17, <1>18, <1>19, <1>20, <1>21, <1>22, <1>23, <1>24, <1>25, <1>26, <1>27, <1>28 DEF ServiceStep, Pass
<1>31. ASSUME NEW c \in Clients, ClientStep(c) PROVE Kept
  BY <1>31, <1>4, <1>5, <1>6, <1>7, <1>8, <1>9, <1>10, <1>11, <1>12 DEF ClientStep, Pass
<1>32. CASE Environment
  BY <1>32, <1>1, <1>2, <1>3, <1>13, <1>14 DEF Environment
<1> QED
  BY <1>29, <1>30, <1>31, <1>32 DEF Next

\* Who marks is inside, or is the close that has found somebody inside.
LEMMA NewMark ==
    ASSUME TypeOK, Placed, ExcMarked, NEW y \in Places, ~ closeOnExit[y], closeOnExit'[y], [Next]_vars
    PROVE  Look(y)' \/ (place'[Service] = y /\ step'[Service] = "retry")
<1> DEFINE Seen == inside'[y] # {} \/ (place'[Service] = y /\ step'[Service] = "retry")
<1> SUFFICES Seen
  BY DEF Look, Leaving
<1> USE DEF Placed, Stays, ExcMarked, TypeOK, GatesOK, ControlOK, At, Goto
<1>1. ASSUME NEW c \in Clients, Register(c) PROVE Seen
  BY <1>1 DEF Register, Set
<1>2. ASSUME NEW c \in Clients, GiveUp(c) PROVE Seen
  BY <1>2 DEF GiveUp, Settle
<1>3. ASSUME NEW c \in Clients, Answer(c) PROVE Seen
  BY <1>3 DEF Answer, Response
<1>4. ASSUME NEW c \in Clients, Send(c) PROVE Seen
  BY <1>4 DEF Send, Set
<1>5. ASSUME NEW c \in Clients, CancelUnsent(c) PROVE Seen
  BY <1>5 DEF CancelUnsent, Settle
<1>6. ASSUME NEW c \in Clients, WaitEnds(c) PROVE Seen
  BY <1>6 DEF WaitEnds
<1>7. ASSUME NEW t \in Threads, Unregister(t) PROVE Seen
  BY <1>7 DEF Unregister
<1>8. ASSUME NEW t \in Threads, NEW x \in Places, Check(t, x) PROVE Seen
  BY <1>8 DEF Check, Refused, Finishes, Ends
<1>9. ASSUME NEW t \in Threads, NEW x \in Places, Enter(t, x) PROVE Seen
  BY <1>9 DEF Enter, Refused, Finishes, Ends
<1>10. ASSUME NEW t \in Threads, NEW x \in Places, Exit(t, x) PROVE Seen
  BY <1>10 DEF Exit
<1>11. ASSUME NEW t \in Threads, NEW x \in Places, Last(t, x) PROVE Seen
  BY <1>11 DEF Last, AfterGate, Finishes, Ends
<1>12. ASSUME NEW t \in Threads, NEW x \in Places, Held(t, x) PROVE Seen
  BY <1>12, HeldParts DEF AfterGate, Finishes, Ends, flags
<1>13. ASSUME SendEvent PROVE Seen
  BY <1>13 DEF SendEvent, Unsolicited
<1>14. ASSUME NEW x \in Places, NEW f \in BOOLEAN, CallClose(x, f) PROVE Seen
  BY <1>14 DEF CallClose, CloseOf
<1>15. ASSUME Dispatch PROVE Seen
  BY <1>15 DEF Dispatch, Set
<1>16. ASSUME ReceiveResponse PROVE Seen
  BY <1>16 DEF ReceiveResponse
<1>17. ASSUME ReceiveEvent PROVE Seen
  BY <1>17 DEF ReceiveEvent, Set
<1>18. ASSUME Complete PROVE Seen
  BY <1>18 DEF Complete, Settle
<1>19. ASSUME BeginChannel PROVE Seen
  BY <1>19 DEF BeginChannel, ChannelReturns, Finishes, Ends
<1>20. ASSUME CancelNext PROVE Seen
  BY <1>20, CancelNextParts DEF Throws, Ends, flags, gates, net, ctl
<1>21. ASSUME CancelPending PROVE Seen
  BY <1>21 DEF CancelPending, Settle
<1>22. ASSUME BeginConnection PROVE Seen
  BY <1>22 DEF BeginConnection, AfterGate, Finishes, Ends
<1>23. ASSUME NEW x \in Places, Try(x) PROVE Seen
  BY <1>23 DEF Try
<1>24. ASSUME NEW x \in Places, Mark(x) PROVE Seen
  BY <1>24 DEF Mark, Throws, Finishes, Ends, Set
<1>25. ASSUME NEW x \in Places, Retry(x) PROVE Seen
  BY <1>25 DEF Retry, ChannelReturns, AfterGate, Finishes, Ends
<1>26. ASSUME ShutChannel PROVE Seen
  BY <1>26 DEF ShutChannel, ChannelReturns, Finishes, Ends
<1>27. ASSUME ShutConnection PROVE Seen
  BY <1>27 DEF ShutConnection, AfterGate, Finishes, Ends
<1>28. ASSUME Notify PROVE Seen
  BY <1>28 DEF Notify, Set
<1>29. ASSUME UNCHANGED vars PROVE Seen
  BY <1>29 DEF vars
<1>30. CASE ServiceStep
  BY <1>30, <1>7, <1>8, <1>9, <1>10, <1>11, <1>12, <1>15, <1>16, <1>17, <1>18, <1>19, <1>20, <1>21, <1>22, <1>23, <1>24, <1>25, <1>26, <1>27, <1>28 DEF ServiceStep, Pass
<1>31. ASSUME NEW c \in Clients, ClientStep(c) PROVE Seen
  BY <1>31, <1>4, <1>5, <1>6, <1>7, <1>8, <1>9, <1>10, <1>11, <1>12 DEF ClientStep, Pass
<1>32. CASE Environment
  BY <1>32, <1>1, <1>2, <1>3, <1>13, <1>14 DEF Environment
<1> QED
  BY <1>29, <1>30, <1>31, <1>32 DEF Next


\* Channel and connection are not opened again.
LEMMA OpenKept == ASSUME TypeOK, NEW y \in Places, open'[y], [Next]_vars PROVE open[y]
<1> USE DEF TypeOK, GatesOK
<1>1. ASSUME NEW c \in Clients, Register(c) PROVE open[y]
  BY <1>1 DEF Register
<1>2. ASSUME NEW c \in Clients, GiveUp(c) PROVE open[y]
  BY <1>2 DEF GiveUp
<1>3. ASSUME NEW c \in Clients, Answer(c) PROVE open[y]
  BY <1>3 DEF Answer
<1>4. ASSUME NEW c \in Clients, Send(c) PROVE open[y]
  BY <1>4 DEF Send
<1>5. ASSUME NEW c \in Clients, CancelUnsent(c) PROVE open[y]
  BY <1>5 DEF CancelUnsent
<1>6. ASSUME NEW c \in Clients, WaitEnds(c) PROVE open[y]
  BY <1>6 DEF WaitEnds
<1>7. ASSUME NEW t \in Threads, Unregister(t) PROVE open[y]
  BY <1>7 DEF Unregister
<1>8. ASSUME NEW t \in Threads, NEW x \in Places, Check(t, x) PROVE open[y]
  BY <1>8 DEF Check
<1>9. ASSUME NEW t \in Threads, NEW x \in Places, Enter(t, x) PROVE open[y]
  BY <1>9 DEF Enter
<1>10. ASSUME NEW t \in Threads, NEW x \in Places, Exit(t, x) PROVE open[y]
  BY <1>10 DEF Exit
<1>11. ASSUME NEW t \in Threads, NEW x \in Places, Last(t, x) PROVE open[y]
  BY <1>11 DEF Last
<1>12. ASSUME NEW t \in Threads, NEW x \in Places, Held(t, x) PROVE open[y]
  BY <1>12, HeldParts DEF flags
<1>13. ASSUME SendEvent PROVE open[y]
  BY <1>13 DEF SendEvent
<1>14. ASSUME NEW x \in Places, NEW f \in BOOLEAN, CallClose(x, f) PROVE open[y]
  BY <1>14 DEF CallClose
<1>15. ASSUME Dispatch PROVE open[y]
  BY <1>15 DEF Dispatch
<1>16. ASSUME ReceiveResponse PROVE open[y]
  BY <1>16 DEF ReceiveResponse
<1>17. ASSUME ReceiveEvent PROVE open[y]
  BY <1>17 DEF ReceiveEvent
<1>18. ASSUME Complete PROVE open[y]
  BY <1>18 DEF Complete
<1>19. ASSUME BeginChannel PROVE open[y]
  BY <1>19 DEF BeginChannel
<1>20. ASSUME CancelNext PROVE open[y]
  BY <1>20, CancelNextParts DEF flags
<1>21. ASSUME CancelPending PROVE open[y]
  BY <1>21 DEF CancelPending
<1>22. ASSUME BeginConnection PROVE open[y]
  BY <1>22 DEF BeginConnection
<1>23. ASSUME NEW x \in Places, Try(x) PROVE open[y]
  BY <1>23 DEF Try
<1>24. ASSUME NEW x \in Places, Mark(x) PROVE open[y]
  BY <1>24 DEF Mark
<1>25. ASSUME NEW x \in Places, Retry(x) PROVE open[y]
  BY <1>25 DEF Retry
<1>26. ASSUME ShutChannel PROVE open[y]
  BY <1>26 DEF ShutChannel
<1>27. ASSUME ShutConnection PROVE open[y]
  BY <1>27 DEF ShutConnection
<1>28. ASSUME Notify PROVE open[y]
  BY <1>28 DEF Notify
<1>29. ASSUME UNCHANGED vars PROVE open[y]
  BY <1>29 DEF vars
<1>30. CASE ServiceStep
  BY <1>30, <1>7, <1>8, <1>9, <1>10, <1>11, <1>12, <1>15, <1>16, <1>17, <1>18, <1>19, <1>20, <1>21, <1>22, <1>23, <1>24, <1>25, <1>26, <1>27, <1>28 DEF ServiceStep, Pass
<1>31. ASSUME NEW c \in Clients, ClientStep(c) PROVE open[y]
  BY <1>31, <1>4, <1>5, <1>6, <1>7, <1>8, <1>9, <1>10, <1>11, <1>12 DEF ClientStep, Pass
<1>32. CASE Environment
  BY <1>32, <1>1, <1>2, <1>3, <1>13, <1>14 DEF Environment
<1> QED
  BY <1>29, <1>30, <1>31, <1>32 DEF Next


\* What is about to be shut is shut by the next step of the service thread.
LEMMA ShutKept ==
    ASSUME TypeOK, NEW y \in Places, At(Service, y, "shut"), [Next]_vars
    PROVE  ~ open'[y] \/ Will(y)'
<1> DEFINE Kept == ~ open'[y] \/ At(Service, y, "shut")'
<1> SUFFICES Kept
  BY DEF Will, Closes, Closing, At
<1> USE DEF TypeOK, GatesOK, ControlOK, At, Goto
<1>1. ASSUME NEW c \in Clients, Register(c) PROVE Kept
  BY <1>1 DEF Register, Set
<1>2. ASSUME NEW c \in Clients, GiveUp(c) PROVE Kept
  BY <1>2 DEF GiveUp, Settle
<1>3. ASSUME NEW c \in Clients, Answer(c) PROVE Kept
  BY <1>3 DEF Answer, Response
<1>4. ASSUME NEW c \in Clients, Send(c) PROVE Kept
  BY <1>4 DEF Send, Set
<1>5. ASSUME NEW c \in Clients, CancelUnsent(c) PROVE Kept
  BY <1>5 DEF CancelUnsent, Settle
<1>6. ASSUME NEW c \in Clients, WaitEnds(c) PROVE Kept
  BY <1>6 DEF WaitEnds
<1>7. ASSUME NEW t \in Threads, Unregister(t) PROVE Kept
  BY <1>7 DEF Unregister
<1>8. ASSUME NEW t \in Threads, NEW x \in Places, Check(t, x) PROVE Kept
  BY <1>8 DEF Check, Refused, Finishes, Ends
<1>9. ASSUME NEW t \in Threads, NEW x \in Places, Enter(t, x) PROVE Kept
  BY <1>9 DEF Enter, Refused, Finishes, Ends
<1>10. ASSUME NEW t \in Threads, NEW x \in Places, Exit(t, x) PROVE Kept
  BY <1>10 DEF Exit
<1>11. ASSUME NEW t \in Threads, NEW x \in Places, Last(t, x) PROVE Kept
  BY <1>11 DEF Last, AfterGate, Finishes, Ends
<1>12. ASSUME NEW t \in Threads, NEW x \in Places, Held(t, x) PROVE Kept
  BY <1>12, HeldParts DEF AfterGate, Finishes, Ends, flags
<1>13. ASSUME SendEvent PROVE Kept
  BY <1>13 DEF SendEvent, Unsolicited
<1>14. ASSUME NEW x \in Places, NEW f \in BOOLEAN, CallClose(x, f) PROVE Kept
  BY <1>14 DEF CallClose, CloseOf
<1>15. ASSUME Dispatch PROVE Kept
  BY <1>15 DEF Dispatch, Set
<1>16. ASSUME ReceiveResponse PROVE Kept
  BY <1>16 DEF ReceiveResponse
<1>17. ASSUME ReceiveEvent PROVE Kept
  BY <1>17 DEF ReceiveEvent, Set
<1>18. ASSUME Complete PROVE Kept
  BY <1>18 DEF Complete, Settle
<1>19. ASSUME BeginChannel PROVE Kept
  BY <1>19 DEF BeginChannel, ChannelReturns, Finishes, Ends
<1>20. ASSUME CancelNext PROVE Kept
  BY <1>20, CancelNextParts DEF Throws, Ends, flags, gates, net, ctl
<1>21. ASSUME CancelPending PROVE Kept
  BY <1>21 DEF CancelPending, Settle
<1>22. ASSUME BeginConnection PROVE Kept
  BY <1>22 DEF BeginConnection, AfterGate, Finishes, Ends
<1>23. ASSUME NEW x \in Places, Try(x) PROVE Kept
  BY <1>23 DEF Try
<1>24. ASSUME NEW x \in Places, Mark(x) PROVE Kept
  BY <1>24 DEF Mark, Throws, Finishes, Ends, Set
<1>25. ASSUME NEW x \in Places, Retry(x) PROVE Kept
  BY <1>25 DEF Retry, ChannelReturns, AfterGate, Finishes, Ends
<1>26. ASSUME ShutChannel PROVE Kept
  BY <1>26 DEF ShutChannel, ChannelReturns, Finishes, Ends
<1>27. ASSUME ShutConnection PROVE Kept
  BY <1>27 DEF ShutConnection, AfterGate, Finishes, Ends
<1>28. ASSUME Notify PROVE Kept
  BY <1>28 DEF Notify, Set
<1>29. ASSUME UNCHANGED vars PROVE Kept
  BY <1>29 DEF vars
<1>30. CASE ServiceStep
  BY <1>30, <1>7, <1>8, <1>9, <1>10, <1>11, <1>12, <1>15, <1>16, <1>17, <1>18, <1>19, <1>20, <1>21, <1>22, <1>23, <1>24, <1>25, <1>26, <1>27, <1>28 DEF ServiceStep, Pass
<1>31. ASSUME NEW c \in Clients, ClientStep(c) PROVE Kept
  BY <1>31, <1>4, <1>5, <1>6, <1>7, <1>8, <1>9, <1>10, <1>11, <1>12 DEF ClientStep, Pass
<1>32. CASE Environment
  BY <1>32, <1>1, <1>2, <1>3, <1>13, <1>14 DEF Environment
<1> QED
  BY <1>29, <1>30, <1>31, <1>32 DEF Next


LEMMA HonourStep ==
    ASSUME Lossless, TypeOK, RequestsHeld, Placed, Holder, ExcMarked, Quiet, Plain, Honour, Emptied, Twice, [Next]_vars
    PROVE  Honour'
<1> SUFFICES ASSUME NEW y \in Places, closeOnExit'[y], open'[y] PROVE Look(y)' \/ Will(y)'
  BY DEF Honour
<1>1. open[y]
  BY OpenKept
<1>2. CASE ~ closeOnExit[y]
  BY <1>2, NewMark DEF Will, Closes, Closing
<1>3. CASE closeOnExit[y] /\ Look(y)
  <2>1. \/ Look(y)' \/ At(Service, y, "shut") \/ (place'[Service] = y /\ step'[Service] = "begin")
        \/ y = "chan" /\ place'[Service] = "conn" /\ step'[Service] = "begin" /\ full'[Service]
    BY <1>1, <1>3, LookKept
  <2>2. At(Service, y, "shut") => Will(y)'
    BY ShutKept
  <2> QED
    BY <2>1, <2>2 DEF Will, Closes, Closing
<1>4. CASE closeOnExit[y] /\ ~ Look(y)
  <2>1. Will(y)
    BY <1>1, <1>4 DEF Honour
  <2> QED
    BY <1>4, <2>1, WillKept
<1> QED
  BY <1>2, <1>3, <1>4

\* Where there is a request left to cancel and the array becomes empty, somebody inside
\* has taken it out.
LEMMA EmptyingStep ==
    ASSUME Lossless, TypeOK, Placed, NEW y \in Places, place'[Service] = "chan", step'[Service] \in {"next", "cancel"},
           svc'.more, table' = {}, [Next]_vars
    PROVE  \/ inside'[y] # {}
           \/ place[Service] = "chan" /\ step[Service] \in {"next", "cancel"} /\ svc.more /\ table = {}
<1> DEFINE Found == \/ inside'[y] # {}
                    \/ place[Service] = "chan" /\ step[Service] \in {"next", "cancel"} /\ svc.more /\ table = {}
<1> SUFFICES Found
  OBVIOUS
<1> USE DEF Placed, Stays, Lossless, TypeOK, GatesOK, RequestsOK, ControlOK, Tasks, NoTask, At, Goto
<1>1. ASSUME NEW c \in Clients, Register(c) PROVE Found
  BY <1>1 DEF Register, Set
<1>2. ASSUME NEW c \in Clients, GiveUp(c) PROVE Found
  BY <1>2 DEF GiveUp, Settle
<1>3. ASSUME NEW c \in Clients, Answer(c) PROVE Found
  BY <1>3 DEF Answer, Response
<1>4. ASSUME NEW c \in Clients, Send(c) PROVE Found
  BY <1>4 DEF Send, Set
<1>5. ASSUME NEW c \in Clients, CancelUnsent(c) PROVE Found
  BY <1>5 DEF CancelUnsent, Settle
<1>6. ASSUME NEW c \in Clients, WaitEnds(c) PROVE Found
  BY <1>6 DEF WaitEnds
<1>7. ASSUME NEW t \in Threads, Unregister(t) PROVE Found
  BY <1>7 DEF Unregister
<1>8. ASSUME NEW t \in Threads, NEW x \in Places, Check(t, x) PROVE Found
  BY <1>8 DEF Check, Refused, Finishes, Ends
<1>9. ASSUME NEW t \in Threads, NEW x \in Places, Enter(t, x) PROVE Found
  BY <1>9 DEF Enter, Refused, Finishes, Ends
<1>10. ASSUME NEW t \in Threads, NEW x \in Places, Exit(t, x) PROVE Found
  BY <1>10 DEF Exit
<1>11. ASSUME NEW t \in Threads, NEW x \in Places, Last(t, x) PROVE Found
  BY <1>11 DEF Last, AfterGate, Finishes, Ends
<1>12. ASSUME NEW t \in Threads, NEW x \in Places, Held(t, x) PROVE Found
  BY <1>12, HeldParts DEF AfterGate, Finishes, Ends, flags
<1>13. ASSUME SendEvent PROVE Found
  BY <1>13 DEF SendEvent, Unsolicited
<1>14. ASSUME NEW x \in Places, NEW f \in BOOLEAN, CallClose(x, f) PROVE Found
  BY <1>14 DEF CallClose, CloseOf
<1>15. ASSUME Dispatch PROVE Found
  BY <1>15 DEF Dispatch, Set
<1>16. ASSUME ReceiveResponse PROVE Found
  BY <1>16 DEF ReceiveResponse
<1>17. ASSUME ReceiveEvent PROVE Found
  BY <1>17 DEF ReceiveEvent, Set
<1>18. ASSUME Complete PROVE Found
  BY <1>18 DEF Complete, Settle
<1>19. ASSUME BeginChannel PROVE Found
  <2>1. CASE svc' = [svc EXCEPT !.more = (table # {})] /\ UNCHANGED table
    <3>1. svc'.more = (table # {})
      BY <2>1
    <3> QED
      BY <2>1, <3>1
  <2>2. CASE ~ open["chan"]
    BY <1>19, <2>2 DEF BeginChannel, ChannelReturns, Finishes, Ends
  <2> QED
    BY <1>19, <2>1, <2>2 DEF BeginChannel
<1>20. ASSUME CancelNext PROVE Found
  BY <1>20, CancelNextParts DEF Throws, Ends, flags, gates, net, ctl
<1>21. ASSUME CancelPending PROVE Found
  BY <1>21 DEF CancelPending, Settle
<1>22. ASSUME BeginConnection PROVE Found
  BY <1>22 DEF BeginConnection, AfterGate, Finishes, Ends
<1>23. ASSUME NEW x \in Places, Try(x) PROVE Found
  BY <1>23 DEF Try
<1>24. ASSUME NEW x \in Places, Mark(x) PROVE Found
  BY <1>24 DEF Mark, Throws, Finishes, Ends, Set
<1>25. ASSUME NEW x \in Places, Retry(x) PROVE Found
  BY <1>25 DEF Retry, ChannelReturns, AfterGate, Finishes, Ends
<1>26. ASSUME ShutChannel PROVE Found
  BY <1>26 DEF ShutChannel, ChannelReturns, Finishes, Ends
<1>27. ASSUME ShutConnection PROVE Found
  BY <1>27 DEF ShutConnection, AfterGate, Finishes, Ends
<1>28. ASSUME Notify PROVE Found
  BY <1>28 DEF Notify, Set
<1>29. ASSUME UNCHANGED vars PROVE Found
  BY <1>29 DEF vars
<1>30. CASE ServiceStep
  BY <1>30, <1>7, <1>8, <1>9, <1>10, <1>11, <1>12, <1>15, <1>16, <1>17, <1>18, <1>19, <1>20, <1>21, <1>22, <1>23, <1>24, <1>25, <1>26, <1>27, <1>28 DEF ServiceStep, Pass
<1>31. ASSUME NEW c \in Clients, ClientStep(c) PROVE Found
  BY <1>31, <1>4, <1>5, <1>6, <1>7, <1>8, <1>9, <1>10, <1>11, <1>12 DEF ClientStep, Pass
<1>32. CASE Environment
  BY <1>32, <1>1, <1>2, <1>3, <1>13, <1>14 DEF Environment
<1> QED
  BY <1>29, <1>30, <1>31, <1>32 DEF Next


LEMMA EmptiedStep ==
    ASSUME Lossless, TypeOK, Placed, Holder, ExcMarked, Emptied, [Next]_vars
    PROVE  Emptied'
<1> SUFFICES ASSUME NEW y \in Places, place'[Service] = "chan", step'[Service] \in {"next", "cancel"},
                    svc'.more, table' = {}, closeOnExit'[y], open'[y]
             PROVE  Look(y)'
  BY DEF Emptied
<1>1. inside'[y] # {} => Look(y)'
  BY DEF Look, Leaving
<1>2. CASE ~ closeOnExit[y]
  BY <1>2, NewMark
<1>3. CASE closeOnExit[y] /\ ~ (inside'[y] # {})
  <2>1. place[Service] = "chan" /\ step[Service] \in {"next", "cancel"} /\ svc.more /\ table = {}
    BY <1>3, EmptyingStep
  <2>2. open[y]
    BY OpenKept
  <2>3. Look(y)
    BY <1>3, <2>1, <2>2 DEF Emptied
  <2> QED
    BY <1>3, <2>1, <2>2, <2>3, LookKept DEF At
<1> QED
  BY <1>1, <1>2, <1>3

\* Who makes a close set the exception again is inside, as is whom it finds there.
LEMMA FoundStep ==
    ASSUME TypeOK, Placed, Holder, place'[Service] = "chan", step'[Service] = "mark", exc'["chan"], [Next]_vars,
           ~ (At(Service, "chan", "mark") /\ exc["chan"])
    PROVE  Leaving("chan")' # {}
<1> DEFINE Found == \/ inside'["chan"] # {}
                    \/ \E t \in Threads : place'[t] = "chan" /\ step'[t] = "held"
<1> SUFFICES Found
  BY DEF Leaving
<1> USE DEF Placed, Stays, Holder, TypeOK, GatesOK, ControlOK, CanClose, At, Goto
<1>1. ASSUME NEW c \in Clients, Register(c) PROVE Found
  BY <1>1 DEF Register, Set
<1>2. ASSUME NEW c \in Clients, GiveUp(c) PROVE Found
  BY <1>2 DEF GiveUp, Settle
<1>3. ASSUME NEW c \in Clients, Answer(c) PROVE Found
  BY <1>3 DEF Answer, Response
<1>4. ASSUME NEW c \in Clients, Send(c) PROVE Found
  BY <1>4 DEF Send, Set
<1>5. ASSUME NEW c \in Clients, CancelUnsent(c) PROVE Found
  BY <1>5 DEF CancelUnsent, Settle
<1>6. ASSUME NEW c \in Clients, WaitEnds(c) PROVE Found
  BY <1>6 DEF WaitEnds
<1>7. ASSUME NEW t \in Threads, Unregister(t) PROVE Found
  BY <1>7 DEF Unregister
<1>8. ASSUME NEW t \in Threads, NEW x \in Places, Check(t, x) PROVE Found
  BY <1>8 DEF Check, Refused, Finishes, Ends
<1>9. ASSUME NEW t \in Threads, NEW x \in Places, Enter(t, x) PROVE Found
  BY <1>9 DEF Enter, Refused, Finishes, Ends
<1>10. ASSUME NEW t \in Threads, NEW x \in Places, Exit(t, x) PROVE Found
  BY <1>10 DEF Exit
<1>11. ASSUME NEW t \in Threads, NEW x \in Places, Last(t, x) PROVE Found
  BY <1>11 DEF Last, AfterGate, Finishes, Ends
<1>12. ASSUME NEW t \in Threads, NEW x \in Places, Held(t, x) PROVE Found
  BY <1>12, HeldParts DEF AfterGate, Finishes, Ends, flags
<1>13. ASSUME SendEvent PROVE Found
  BY <1>13 DEF SendEvent, Unsolicited
<1>14. ASSUME NEW x \in Places, NEW f \in BOOLEAN, CallClose(x, f) PROVE Found
  BY <1>14 DEF CallClose, CloseOf
<1>15. ASSUME Dispatch PROVE Found
  BY <1>15 DEF Dispatch, Set
<1>16. ASSUME ReceiveResponse PROVE Found
  BY <1>16 DEF ReceiveResponse
<1>17. ASSUME ReceiveEvent PROVE Found
  BY <1>17 DEF ReceiveEvent, Set
<1>18. ASSUME Complete PROVE Found
  BY <1>18 DEF Complete, Settle
<1>19. ASSUME BeginChannel PROVE Found
  BY <1>19 DEF BeginChannel, ChannelReturns, Finishes, Ends
<1>20. ASSUME CancelNext PROVE Found
  BY <1>20, CancelNextParts DEF Throws, Ends, flags, gates, net, ctl
<1>21. ASSUME CancelPending PROVE Found
  BY <1>21 DEF CancelPending, Settle
<1>22. ASSUME BeginConnection PROVE Found
  BY <1>22 DEF BeginConnection, AfterGate, Finishes, Ends
<1>23. ASSUME NEW x \in Places, Try(x) PROVE Found
  BY <1>23 DEF Try
<1>24. ASSUME NEW x \in Places, Mark(x) PROVE Found
  BY <1>24 DEF Mark, Throws, Finishes, Ends, Set
<1>25. ASSUME NEW x \in Places, Retry(x) PROVE Found
  BY <1>25 DEF Retry, ChannelReturns, AfterGate, Finishes, Ends
<1>26. ASSUME ShutChannel PROVE Found
  BY <1>26 DEF ShutChannel, ChannelReturns, Finishes, Ends
<1>27. ASSUME ShutConnection PROVE Found
  BY <1>27 DEF ShutConnection, AfterGate, Finishes, Ends
<1>28. ASSUME Notify PROVE Found
  BY <1>28 DEF Notify, Set
<1>29. ASSUME UNCHANGED vars PROVE Found
  BY <1>29 DEF vars
<1>30. CASE ServiceStep
  BY <1>30, <1>7, <1>8, <1>9, <1>10, <1>11, <1>12, <1>15, <1>16, <1>17, <1>18, <1>19, <1>20, <1>21, <1>22, <1>23, <1>24, <1>25, <1>26, <1>27, <1>28 DEF ServiceStep, Pass
<1>31. ASSUME NEW c \in Clients, ClientStep(c) PROVE Found
  BY <1>31, <1>4, <1>5, <1>6, <1>7, <1>8, <1>9, <1>10, <1>11, <1>12 DEF ClientStep, Pass
<1>32. CASE Environment
  BY <1>32, <1>1, <1>2, <1>3, <1>13, <1>14 DEF Environment
<1> QED
  BY <1>29, <1>30, <1>31, <1>32 DEF Next


LEMMA TwiceStep ==
    ASSUME TypeOK, RequestsHeld, Placed, Holder, ExcMarked, Twice, [Next]_vars
    PROVE  Twice'
<1> SUFFICES ASSUME place'[Service] = "chan", step'[Service] = "mark", exc'["chan"] PROVE Look("chan")'
  BY DEF Twice, At
<1>1. CASE At(Service, "chan", "mark") /\ exc["chan"]
  <2>1. Look("chan") /\ closeOnExit["chan"] /\ open["chan"]
    BY <1>1 DEF Twice, ExcMarked, RequestsHeld, Shuts, At
  <2> QED
    BY <1>1, <2>1, LookKept DEF At
<1>2. CASE ~ (At(Service, "chan", "mark") /\ exc["chan"])
  BY <1>2, FoundStep DEF Look, Leaving
<1> QED
  BY <1>1, <1>2

(***************************************************************************)
(* MarkInv is inductive where Lossless holds.                              *)
(***************************************************************************)
MarkInv ==
    /\ ChannelInv /\ Placed /\ Holder /\ Resting /\ ExcMarked /\ Quiet /\ Plain
    /\ Honour /\ Emptied /\ Twice

LEMMA MarkInvInit == Init => MarkInv
<1> SUFFICES ASSUME Init PROVE MarkInv
  OBVIOUS
<1>1. ChannelInv
  BY ChannelInvInit
<1>2. /\ \A t \in Threads : place[t] = "call" /\ step[t] = "idle"
      /\ \A x \in Places : inside[x] = {} /\ owner[x] = None /\ ~ closeOnExit[x] /\ ~ exc[x]
      /\ queue = <<>> /\ ~ svc.nested /\ ~ svc.event
  BY DEF Init, NoTask
<1>3. Placed /\ Holder
  BY <1>2 DEF Placed, Holder, Stays, Goes, At
<1>4. Resting /\ ExcMarked /\ Quiet
  BY <1>2 DEF Resting, ExcMarked, Quiet, Closes
<1>5. CausesKnown
  BY <1>2 DEF CausesKnown
<1>6. Plain
  BY <1>2, <1>5 DEF Plain, Closes
<1>7. Honour /\ Emptied /\ Twice
  BY <1>2 DEF Honour, Emptied, Twice, At
<1> QED
  BY <1>1, <1>3, <1>4, <1>6, <1>7 DEF MarkInv

LEMMA MarkInvStep == ASSUME Lossless, MarkInv, [Next]_vars PROVE MarkInv'
<1>1. ChannelInv'
  BY ChannelInvStep DEF MarkInv
<1>2. TypeOK /\ GateHeld /\ RequestsHeld
  BY DEF MarkInv, ChannelInv
<1>3. Placed' /\ Holder' /\ Resting' /\ ExcMarked'
  BY <1>2, PlacedStep, HolderStep, RestingStep, ExcMarkedStep DEF MarkInv
<1>4. Quiet' /\ Plain'
  BY <1>2, QuietStep, PlainStep DEF MarkInv
<1>5. Honour'
  BY <1>2, HonourStep DEF MarkInv
<1>6. Emptied' /\ Twice'
  BY <1>2, EmptiedStep, TwiceStep DEF MarkInv
<1> QED
  BY <1>1, <1>3, <1>4, <1>5, <1>6 DEF MarkInv

\* No mark is lost, for any number of threads and closes: when closeInternal cannot have
\* the gate it leaves the mark, and tries once more, so that whoever was inside sees the
\* mark in gateExit and closes, or asks for it.  This needs Lossless, which says of the
\* usages what PofChannel::closeInternal survives.
THEOREM MarksAreHonoured == ASSUME Lossless PROVE Spec => []MarkIsHonoured
<1>1. Init => MarkInv
  BY MarkInvInit
<1>2. MarkInv /\ [Next]_vars => MarkInv'
  BY MarkInvStep
<1>3. MarkInv => MarkIsHonoured
  BY DEF MarkInv, Honour, MarkIsHonoured, Look, Queued, Will, Closes, CloseUnderWay
<1> QED
  BY <1>1, <1>2, <1>3, PTL DEF Spec
=============================================================================
