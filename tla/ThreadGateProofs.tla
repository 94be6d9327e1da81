-------------------------- MODULE ThreadGateProofs --------------------------
(***************************************************************************)
(* Proofs about ThreadGate.tla, for every set of threads and every bound.  *)
(***************************************************************************)
EXTENDS ThreadGate, FiniteSetTheorems, TLAPS

\* What adjustState leaves in the 30 bits of the count is never negative.
LEMMA AdjustType ==
    ASSUME NEW c \in Nat, NEW d \in {1, -1}
    PROVE  Adjust(c, d) \in Nat
BY DEF Adjust

\* closeFinally keeps the types, whatever the outcome of its enter(-1).
LEMMA ReentersType ==
    ASSUME TypeOK, NEW t \in Threads, NEW c \in Nat, NEW W \in SUBSET Threads,
           NEW returns \in BOOLEAN, Reenters(t, c, W, returns),
           UNCHANGED <<cClose, cMillis>>, lock' \in Threads \cup {None}
    PROVE  TypeOK'
<1>1. Adjust(c, 1) \in Nat  BY AdjustType
<1>2. local' \in [Threads -> Int]
  BY DEF TypeOK, Reenters
<1>3. nStatus' \in Status /\ cEnters' \in Nat /\ closing' \in Threads \cup {None}
        /\ waitSet' \subseteq Threads
  BY <1>1 DEF TypeOK, Reenters, Status
<1>4. pc' \in [Threads -> Labels]
  BY DEF TypeOK, Reenters, Goto, Labels, Entering, Parking
<1>5. fReenter' \in [Threads -> BOOLEAN] /\ fReopen' \in [Threads -> BOOLEAN]
  BY DEF TypeOK, Reenters, Leaves
<1> QED  BY <1>2, <1>3, <1>4, <1>5 DEF TypeOK

\* Each step of the gate, of its callers and of its timers keeps the types.
LEMMA TypeStep == TypeOK /\ [Next]_vars => TypeOK'
<1> SUFFICES ASSUME TypeOK, [Next]_vars PROVE TypeOK'  OBVIOUS
<1> USE GateConstants DEF TypeOK, Status, Waits
<1>0. CASE UNCHANGED vars
  BY <1>0 DEF vars, word, owners, flags
<1>a. SUFFICES ASSUME NEW t \in Threads,
                      Call(t) \/ Exit(t) \/ Open(t) \/ Step(t) \/ Event(t)
               PROVE  TypeOK'
  BY <1>0 DEF Next
<1>1. ASSUME NEW label \in Labels, Goto(t, label) PROVE pc' \in [Threads -> Labels]
  BY <1>1 DEF Goto
<1>2. {"idle", "enter_peek", "enter_loop", "enter_sync", "enter_wait", "reenter_wait",
       "bar_wait", "close_wait", "exit_notify", "bar_sync", "close_sync", "close_try",
       "close_mark", "close_promote", "open_sync"} = Labels
  BY DEF Labels, Entering, Parking
<1>3. Adjust(cEnters, 1) \in Nat /\ Adjust(cEnters, -1) \in Nat /\ Adjust(0, 1) \in Nat
  BY AdjustType
<1>4. CASE EnterNested(t) \/ BarAgain(t) \/ CloseAgain(t) \/ Destroy(t)
  BY <1>4 DEF EnterNested, BarAgain, CloseAgain, Destroy, word, owners, flags
<1>5. ASSUME NEW w \in Waits, Enter(t, w) \/ Bar(t, w) \/ Close(t, w) PROVE TypeOK'
  BY <1>1, <1>2, <1>5 DEF Enter, Bar, Close, word, owners, flags
<1>6. CASE Exit(t) \/ ExitNotify(t)
  BY <1>1, <1>2, <1>3, <1>6 DEF Exit, ExitNotify, word, owners, flags
<1>7. CASE Open(t) \/ OpenSync(t)
  BY <1>1, <1>2, <1>7 DEF Open, OpenSync, word, owners, flags
<1>8. CASE EnterPeek(t) \/ EnterOpen(t) \/ EnterBarred(t) \/ EnterDestroyed(t)
  BY <1>1, <1>2, <1>3, <1>8
     DEF EnterPeek, EnterOpen, EnterBarred, EnterDestroyed, word, owners, flags
<1>9. CASE EnterSync(t) \/ EnterWake(t)
  BY <1>1, <1>2, <1>9 DEF EnterSync, EnterWake, Park, word, owners, flags
<1>10. CASE BarSync(t) \/ BarWake(t)
  BY <1>1, <1>2, <1>10 DEF BarSync, BarWake, Park, word, owners, flags
<1>11. CASE CloseSync(t) \/ CloseFails(t) \/ CloseMark(t) \/ ClosePromote(t)
  BY <1>1, <1>2, <1>3, <1>11
     DEF CloseSync, CloseFails, CloseMark, ClosePromote, word, owners, flags
<1>12. CASE CloseSucceeds(t)
  BY <1>1, <1>2, <1>3, <1>12 DEF CloseSucceeds, Leaves
<1>13. CASE CloseWaits(t) \/ CloseRetries(t)
  <2>1. CASE CloseWaits(t) /\ closing # t /\ StepsOut(t)
    <3>1. cEnters' \in Nat /\ waitSet' \subseteq Threads /\ fReenter' \in [Threads -> BOOLEAN]
      BY <1>3, <2>1 DEF CloseWaits
    <3> QED  BY <1>1, <1>2, <2>1, <3>1 DEF CloseWaits, owners
  <2>2. CASE CloseWaits(t) /\ ~(closing # t /\ StepsOut(t))
    BY <1>1, <1>2, <2>2 DEF CloseWaits, owners
  <2>3. CASE CloseRetries(t)
    BY <1>1, <1>2, <2>3 DEF CloseRetries, word, owners, flags
  <2> QED  BY <1>13, <2>1, <2>2, <2>3
<1>14. CASE CloseImmediate(t)
  <2> DEFINE c == Adjust(cEnters, -1)
             W == IF c = 0 THEN {} ELSE waitSet
  <2>1. CASE closing # t /\ StepsOut(t)
    <3>1. Reenters(t, c, W, local[t] = 1)  BY <1>14, <2>1 DEF CloseImmediate
    <3>2. c \in Nat /\ W \in SUBSET Threads /\ (local[t] = 1) \in BOOLEAN  BY <1>3
    <3>3. UNCHANGED <<cClose, cMillis>> /\ lock' \in Threads \cup {None}
      BY <1>14 DEF CloseImmediate
    <3> QED  BY <3>1, <3>2, <3>3, ReentersType
  <2>2. CASE ~(closing # t /\ StepsOut(t))
    <3>1. Reenters(t, cEnters, waitSet, Returns(t))  BY <1>14, <2>2 DEF CloseImmediate
    <3>2. UNCHANGED <<cClose, cMillis>> /\ lock' \in Threads \cup {None}
      BY <1>14 DEF CloseImmediate
    <3> QED  BY <3>1, <3>2, ReentersType DEF Returns
  <2> QED  BY <2>1, <2>2
<1>15. CASE CloseGivesUp(t) \/ ReenterWake(t)
  <2>1. CASE Reenters(t, cEnters, waitSet, Returns(t)) /\ UNCHANGED <<cClose, lock, cMillis>>
    BY <2>1, ReentersType DEF Returns
  <2>2. CASE /\ local' = [local EXCEPT ![t] = @ - 1]
             /\ Goto(t, "idle") /\ Leaves(t)
             /\ UNCHANGED <<word, owners, lock, waitSet, cMillis>>
    BY <1>1, <1>2, <2>2 DEF Leaves, word, owners
  <2> QED  BY <1>15, <2>1, <2>2, Zenon DEF CloseGivesUp, ReenterWake
<1>16. CASE ReenterInterrupted(t)
  BY <1>1, <1>2, <1>16 DEF ReenterInterrupted, Leaves, owners
<1>17. CASE Event(t)
  BY <1>17 DEF Event, Expire, Interrupt, word, owners, flags
<1> QED
  BY <1>a, <1>4, <1>5, <1>6, <1>7, <1>8, <1>9, <1>10, <1>11, <1>12, <1>13, <1>14,
     <1>15, <1>16, <1>17 DEF Call, Step

\* Type correctness under every usage, promotion and destruction included: the
\* status, the counts and the wait set of the gate stay what they are declared.
THEOREM TypeCorrect == Spec => []TypeOK
<1>1. Init => TypeOK
  BY GateConstants DEF Init, TypeOK, Status, Labels
<1> QED  BY <1>1, TypeStep, PTL DEF Spec

-----------------------------------------------------------------------------
(***************************************************************************)
(* Any gate, promotion and destruction included.                           *)
(***************************************************************************)

\* Who owns the gate: somebody does exactly while it is barred, and m_vClosingThread
\* and the monitor agree with how far each thread is in close and open.
Ownership ==
    /\ nStatus \in Barred <=> closing # None
    /\ \A t \in Threads :
          /\ lock = t <=> pc[t] \in {"close_try", "close_mark", "close_promote"}
          /\ t \in waitSet => pc[t] \in Parking
          /\ pc[t] = "close_mark" => closing = None
          /\ pc[t] \in {"open_sync", "close_promote"} => closing = t
          /\ pc[t] \in {"close_sync", "close_try", "close_wait", "close_promote"} /\ closing = t
                => nStatus = "closing"
          /\ fReopen[t] => closing = t /\ pc[t] \in {"close_try", "close_wait", "close_promote"}

\* What closeFinally does to the owner, the count c and the wait set W: the call that barred
\* the gate opens it and wakes everyone; otherwise the caller is done, or waits to get in again.
GoesBack(t, c, W) ==
    /\ cEnters' \in Nat /\ (c > 0 => cEnters' > 0)
    /\ \/ /\ pc' = [pc EXCEPT ![t] = "idle"] /\ fReopen' = [fReopen EXCEPT ![t] = FALSE]
          /\ \/ closing = t /\ nStatus' = "open" /\ closing' = None /\ waitSet' = {}
             \/ UNCHANGED <<nStatus, closing>> /\ waitSet' = W
       \/ /\ pc' = [pc EXCEPT ![t] = "reenter_wait"] /\ waitSet' = W \cup {t}
          /\ closing # t /\ nStatus \in Barred /\ UNCHANGED <<nStatus, closing, fReopen>>

LEMMA ReentersGoesBack ==
    ASSUME TypeOK, Ownership, NEW t \in Threads, NEW c \in Nat, NEW W,
           NEW returns \in BOOLEAN, Reenters(t, c, W, returns)
    PROVE  GoesBack(t, c, W)
<1>1. fReopen[t] => closing = t
  BY DEF Ownership
<1>2. Adjust(c, 1) \in Nat /\ (c > 0 => Adjust(c, 1) > 0)
  BY DEF Adjust
<1> QED
  BY <1>1, <1>2 DEF Reenters, Leaves, Goto, TypeOK, GoesBack

\* closeFinally after a failed close: the thread steps out first if it is still inside, and
\* wakes everyone if that emptied the gate.
LEMMA GivesBack ==
    ASSUME TypeOK, Ownership, NEW t \in Threads, CloseImmediate(t)
    PROVE  \E c \in Nat, W \in SUBSET waitSet :
              /\ GoesBack(t, c, W)
              /\ \/ W = waitSet /\ c = cEnters
                 \/ closing # t /\ (W # {} => W = waitSet /\ c > 0)
<1> DEFINE c == Adjust(cEnters, -1)
           W == IF c = 0 THEN {} ELSE waitSet
<1>1. c \in Nat
  BY AdjustType DEF TypeOK
<1>2. CASE closing # t /\ StepsOut(t)
  <2>1. Reenters(t, c, W, local[t] = 1) /\ (local[t] = 1) \in BOOLEAN
    BY <1>2 DEF CloseImmediate
  <2>2. W \in SUBSET waitSet /\ (W # {} => W = waitSet /\ c > 0)
    BY <1>1
  <2> HIDE DEF c, W
  <2>3. GoesBack(t, c, W)
    BY <1>1, <2>1, ReentersGoesBack
  <2> QED
    BY <1>1, <1>2, <2>2, <2>3
<1>3. CASE ~ (closing # t /\ StepsOut(t))
  <2>1. Reenters(t, cEnters, waitSet, Returns(t)) /\ Returns(t) \in BOOLEAN /\ cEnters \in Nat
    BY <1>3 DEF CloseImmediate, Returns, TypeOK
  <2>2. GoesBack(t, cEnters, waitSet)
    BY <2>1, ReentersGoesBack
  <2>3. waitSet \in SUBSET waitSet
    OBVIOUS
  <2> QED
    BY <2>1, <2>2, <2>3
<1> QED
  BY <1>2, <1>3

LEMMA WakesGoesBack ==
    ASSUME TypeOK, Ownership, NEW t \in Threads, Reenters(t, cEnters, waitSet, Returns(t))
    PROVE  GoesBack(t, cEnters, waitSet)
<1>1. Returns(t) \in BOOLEAN /\ cEnters \in Nat
  BY DEF Returns, TypeOK
<1> QED
  BY <1>1, ReentersGoesBack

\* Each step of any gate keeps who owns it.
LEMMA OwnershipStep ==
    ASSUME TypeOK, Ownership, [Next]_vars
    PROVE  Ownership'
<1> USE GateConstants DEF Ownership
<1>0. CASE UNCHANGED vars
  BY <1>0 DEF vars, word, owners, flags
<1>a. SUFFICES ASSUME NEW t \in Threads,
                      Call(t) \/ Exit(t) \/ Open(t) \/ Step(t) \/ Event(t)
               PROVE  Ownership'
  BY <1>0 DEF Next
<1> USE DEF TypeOK, Status, Entering, Parking, Barred, Goto, word, owners, flags
<1>1. CASE EnterNested(t)  BY <1>1 DEF EnterNested
<1>2. CASE BarAgain(t) \/ CloseAgain(t)  BY <1>2 DEF BarAgain, CloseAgain
<1>3. CASE Destroy(t)  BY <1>3 DEF Destroy
<1>4. ASSUME NEW w \in Waits, Enter(t, w) PROVE Ownership'
  BY <1>4 DEF Enter
<1>5. ASSUME NEW w \in Waits, Bar(t, w) PROVE Ownership'
  BY <1>5 DEF Bar
<1>6. ASSUME NEW w \in Waits, Close(t, w) PROVE Ownership'
  BY <1>6 DEF Close
<1>7. CASE Exit(t)  BY <1>7 DEF Exit
<1>8. CASE Open(t)  BY <1>8 DEF Open
<1>9. CASE EnterPeek(t)  BY <1>9 DEF EnterPeek
<1>10. CASE EnterOpen(t)  BY <1>10 DEF EnterOpen
<1>11. CASE EnterBarred(t) \/ EnterDestroyed(t)  BY <1>11 DEF EnterBarred, EnterDestroyed
<1>12. CASE EnterSync(t)  BY <1>12 DEF EnterSync, Park
<1>13. CASE EnterWake(t)  BY <1>13 DEF EnterWake, Wakes
<1>14. CASE ExitNotify(t)  BY <1>14 DEF ExitNotify
<1>15. CASE BarSync(t)  BY <1>15 DEF BarSync, Park
<1>16. CASE BarWake(t)  BY <1>16 DEF BarWake, Wakes
<1>17. CASE CloseSync(t)  BY <1>17 DEF CloseSync
<1>18. CASE CloseSucceeds(t)  BY <1>18 DEF CloseSucceeds, Shuts, Leaves
<1>19. CASE CloseFails(t)  BY <1>19 DEF CloseFails
<1>20. CASE CloseMark(t)  BY <1>20 DEF CloseMark
<1>21. CASE ClosePromote(t)  BY <1>21 DEF ClosePromote
<1>22. CASE CloseWaits(t)
  <2>1. /\ pc[t] = "close_try" /\ lock' = None /\ pc' = [pc EXCEPT ![t] = "close_wait"]
        /\ waitSet' \subseteq waitSet \cup {t}
        /\ UNCHANGED <<nStatus, closing, fReopen>>
    BY <1>22 DEF CloseWaits
  <2> QED  BY <2>1
<1>23. CASE CloseRetries(t)  BY <1>23 DEF CloseRetries, Wakes
<1>24. CASE CloseImmediate(t)
  <2>1. PICK c \in Nat, W \in SUBSET waitSet : GoesBack(t, c, W)
    BY <1>24, GivesBack
  <2>2. pc[t] = "close_try" /\ lock' = None
    BY <1>24 DEF CloseImmediate
  <2> QED  BY <2>1, <2>2 DEF GoesBack
<1>25. CASE CloseGivesUp(t)
  <2>1. GoesBack(t, cEnters, waitSet)
    BY <1>25, WakesGoesBack DEF CloseGivesUp
  <2>2. pc[t] = "close_wait" /\ t \notin waitSet /\ UNCHANGED lock
    BY <1>25 DEF CloseGivesUp, Wakes
  <2> QED  BY <2>1, <2>2 DEF GoesBack
<1>26. CASE ReenterWake(t)
  <2>1. pc[t] = "reenter_wait" /\ t \notin waitSet /\ UNCHANGED lock
    BY <1>26 DEF ReenterWake, Wakes
  <2>2. CASE Reenters(t, cEnters, waitSet, Returns(t))
    <3>1. GoesBack(t, cEnters, waitSet)
      BY <2>2, WakesGoesBack
    <3> QED  BY <2>1, <3>1 DEF GoesBack
  <2>3. CASE Goto(t, "idle") /\ Leaves(t) /\ UNCHANGED <<word, owners, lock, waitSet>>
    BY <2>1, <2>3 DEF Leaves
  <2> QED  BY <1>26, <2>2, <2>3 DEF ReenterWake
<1>27. CASE ReenterInterrupted(t)
  BY <1>27 DEF ReenterInterrupted, Wakes, Leaves
<1>28. CASE OpenSync(t)  BY <1>28 DEF OpenSync
<1>29. CASE Event(t)  BY <1>29 DEF Event, Expire, Interrupt
<1> QED
  BY <1>a, <1>1, <1>2, <1>3, <1>4, <1>5, <1>6, <1>7, <1>8, <1>9, <1>10, <1>11, <1>12,
     <1>13, <1>14, <1>15, <1>16, <1>17, <1>18, <1>19, <1>20, <1>21, <1>22, <1>23,
     <1>24, <1>25, <1>26, <1>27, <1>28, <1>29, Zenon DEF Call, Step

\* No step leaves a thread asleep whose condition came true: each step that
\* opens the gate or gives it up notifies everyone, and the exit that brings
\* the count of a closing gate to 0, for good or for a promotion, notifies or
\* goes on to do so.
LEMMA WakeupStep ==
    ASSUME TypeOK, Ownership, NoLostWakeup, [Next]_vars
    PROVE  NoLostWakeup'
<1> USE GateConstants DEF Ownership, NoLostWakeup
<1>0. CASE UNCHANGED vars
  BY <1>0 DEF vars, word, owners, flags
<1>a. SUFFICES ASSUME NEW t \in Threads,
                      Call(t) \/ Exit(t) \/ Open(t) \/ Step(t) \/ Event(t)
               PROVE  NoLostWakeup'
  BY <1>0 DEF Next
<1> USE DEF TypeOK, Parking, Barred, Goto, word, owners, flags
<1>1. CASE EnterNested(t)  BY <1>1 DEF EnterNested
<1>2. CASE BarAgain(t) \/ CloseAgain(t)  BY <1>2 DEF BarAgain, CloseAgain
<1>3. CASE Destroy(t)  BY <1>3 DEF Destroy
<1>4. ASSUME NEW w \in Waits, Enter(t, w) \/ Bar(t, w) \/ Close(t, w) PROVE NoLostWakeup'
  BY <1>4 DEF Enter, Bar, Close
<1>7. CASE Exit(t)
  <2>1. Adjust(cEnters, -1) \in Nat  BY AdjustType
  <2> QED  BY <1>7, <2>1 DEF Exit, LastOut
<1>8. CASE Open(t)  BY <1>8 DEF Open
<1>9. CASE EnterPeek(t)  BY <1>9 DEF EnterPeek, Adjust
<1>10. CASE EnterOpen(t)  BY <1>10 DEF EnterOpen
<1>11. CASE EnterBarred(t) \/ EnterDestroyed(t)  BY <1>11 DEF EnterBarred, EnterDestroyed
<1>12. CASE EnterSync(t)  BY <1>12 DEF EnterSync, Park
<1>13. CASE EnterWake(t)  BY <1>13 DEF EnterWake, Wakes
<1>14. CASE ExitNotify(t)  BY <1>14 DEF ExitNotify
<1>15. CASE BarSync(t)  BY <1>15 DEF BarSync, Park
<1>16. CASE BarWake(t)  BY <1>16 DEF BarWake, Wakes
<1>17. CASE CloseSync(t)  BY <1>17 DEF CloseSync
<1>18. CASE CloseSucceeds(t)  BY <1>18 DEF CloseSucceeds, Shuts
<1>19. CASE CloseFails(t)  BY <1>19 DEF CloseFails
<1>20. CASE CloseMark(t)  BY <1>20 DEF CloseMark
<1>21. CASE ClosePromote(t)  BY <1>21 DEF ClosePromote
<1>22. CASE CloseWaits(t)
  <2>1. /\ pc[t] = "close_try" /\ closing # None /\ (closing = t => cEnters > 0)
        /\ pc' = [pc EXCEPT ![t] = "close_wait"] /\ UNCHANGED <<nStatus, closing>>
    BY <1>22 DEF CloseWaits, Shuts
  <2>2. CASE closing # t /\ StepsOut(t)
    <3>1. Adjust(cEnters, -1) \in Nat  BY AdjustType
    <3>2. /\ cEnters' = Adjust(cEnters, -1)
          /\ waitSet' = (IF cEnters' = 0 THEN {} ELSE waitSet) \cup {t}
      BY <1>22, <2>2 DEF CloseWaits
    <3> QED  BY <2>1, <2>2, <3>1, <3>2
  <2>3. CASE ~(closing # t /\ StepsOut(t))
    <3>1. waitSet' = waitSet \cup {t} /\ UNCHANGED cEnters
      BY <1>22, <2>3 DEF CloseWaits
    <3> QED  BY <2>1, <3>1
  <2> QED  BY <2>2, <2>3
<1>23. CASE CloseRetries(t)  BY <1>23 DEF CloseRetries, Wakes
<1>24. CASE CloseImmediate(t)
  <2>1. pc[t] = "close_try" /\ t \notin waitSet
    BY <1>24 DEF CloseImmediate
  <2>2. PICK c \in Nat, W \in SUBSET waitSet :
            /\ GoesBack(t, c, W)
            /\ \/ W = waitSet /\ c = cEnters
               \/ closing # t /\ (W # {} => W = waitSet /\ c > 0)
    BY <1>24, GivesBack
  <2> QED  BY <2>1, <2>2 DEF GoesBack
<1>25. CASE CloseGivesUp(t) \/ ReenterWake(t)
  <2>1. pc[t] \in {"close_wait", "reenter_wait"} /\ t \notin waitSet
    BY <1>25 DEF CloseGivesUp, ReenterWake, Wakes
  <2>2. CASE Reenters(t, cEnters, waitSet, Returns(t))
    <3>1. GoesBack(t, cEnters, waitSet)
      BY <2>2, WakesGoesBack
    <3> QED  BY <2>1, <3>1 DEF GoesBack
  <2>3. CASE Goto(t, "idle") /\ Leaves(t) /\ UNCHANGED <<word, owners, lock, waitSet>>
    BY <2>1, <2>3
  <2> QED  BY <1>25, <2>2, <2>3 DEF CloseGivesUp, ReenterWake
<1>26. CASE ReenterInterrupted(t)
  BY <1>26 DEF ReenterInterrupted, Wakes
<1>27. CASE OpenSync(t)  BY <1>27 DEF OpenSync
<1>28. CASE Event(t)  BY <1>28 DEF Event, Expire, Interrupt
<1> QED
  BY <1>a, <1>1, <1>2, <1>3, <1>4, <1>7, <1>8, <1>9, <1>10, <1>11, <1>12,
     <1>13, <1>14, <1>15, <1>16, <1>17, <1>18, <1>19, <1>20, <1>21, <1>22, <1>23,
     <1>24, <1>25, <1>26, <1>27, <1>28, Zenon DEF Call, Step

\* No wake-up of the gate is lost, whoever promotes, destroys or gives up: who sleeps on
\* the gate still has something to wait for, or the thread that will wake it is on its way
\* to notify.
THEOREM NoWakeupIsLost == Spec => []NoLostWakeup
<1>1. Init => TypeOK /\ Ownership /\ NoLostWakeup
  BY GateConstants DEF Init, TypeOK, Status, Labels, Ownership, Barred, NoLostWakeup
<1>2. TypeOK /\ Ownership /\ NoLostWakeup /\ [Next]_vars => (TypeOK /\ Ownership /\ NoLostWakeup)'
  BY TypeStep, OwnershipStep, WakeupStep
<1> QED  BY <1>1, <1>2, PTL DEF Spec

-----------------------------------------------------------------------------
(***************************************************************************)
(* The disciplined gate.                                                   *)
(***************************************************************************)

\* closeFinally under the discipline: nobody re-enters, and the gate reopens
\* exactly when the call that gives up is the one that barred it.
LEMMA GiveUp ==
    ASSUME TypeOK, Protocol, NEW t \in Threads,
           Reenters(t, cEnters, waitSet, Returns(t))
    PROVE  /\ cEnters' = cEnters /\ UNCHANGED local
           /\ pc' = [pc EXCEPT ![t] = "idle"]
           /\ fReenter' = [fReenter EXCEPT ![t] = FALSE]
           /\ fReopen' = [fReopen EXCEPT ![t] = FALSE]
           /\ \/ fReopen[t] /\ nStatus' = "open" /\ closing' = None /\ waitSet' = {}
              \/ ~fReopen[t] /\ UNCHANGED <<nStatus, closing, waitSet>>
<1>1. ~fReenter[t]  BY DEF Protocol
<1> QED  BY <1>1 DEF Reenters, Returns, Leaves, Goto, TypeOK

\* Each step of a disciplined gate preserves the protocol.
LEMMA ProtocolStep ==
    ASSUME Disciplined, TypeOK, Protocol, [Next]_vars
    PROVE  Protocol'
<1> USE GateConstants DEF Disciplined, Protocol
<1>0. CASE UNCHANGED vars
  BY <1>0 DEF vars, word, owners, flags
<1>a. SUFFICES ASSUME NEW t \in Threads,
                      Call(t) \/ Exit(t) \/ Open(t) \/ Step(t) \/ Event(t)
               PROVE  Protocol'
  BY <1>0 DEF Next
<1> USE DEF TypeOK, Entering, Parking, Barred, Goto, word, owners, flags
<1>1. CASE EnterNested(t)  BY <1>1 DEF EnterNested
<1>2. CASE BarAgain(t) \/ CloseAgain(t)  BY <1>2 DEF BarAgain, CloseAgain
<1>3. CASE Destroy(t)  BY <1>3 DEF Destroy
<1>4. ASSUME NEW w \in Waits, Enter(t, w) PROVE Protocol'
  BY <1>4 DEF Enter
<1>5. ASSUME NEW w \in Waits, Bar(t, w) PROVE Protocol'
  BY <1>5 DEF Bar, FromOutside
<1>6. ASSUME NEW w \in Waits, Close(t, w) PROVE Protocol'
  BY <1>6 DEF Close, FromOutside, Status
<1>7. CASE Exit(t)  BY <1>7 DEF Exit
<1>8. CASE Open(t)  BY <1>8 DEF Open, FromOutside
<1>9. CASE EnterPeek(t)  BY <1>9 DEF EnterPeek
<1>10. CASE EnterOpen(t)  BY <1>10 DEF EnterOpen
<1>11. CASE EnterBarred(t) \/ EnterDestroyed(t)  BY <1>11 DEF EnterBarred, EnterDestroyed
<1>12. CASE EnterSync(t)  BY <1>12 DEF EnterSync, Park
<1>13. CASE EnterWake(t)  BY <1>13 DEF EnterWake, Wakes
<1>14. CASE ExitNotify(t)  BY <1>14 DEF ExitNotify
<1>15. CASE BarSync(t)  BY <1>15 DEF BarSync, Park
<1>16. CASE BarWake(t)  BY <1>16 DEF BarWake, Wakes
<1>17. CASE CloseSync(t)  BY <1>17 DEF CloseSync, StepsOut
<1>18. CASE CloseSucceeds(t)  BY <1>18 DEF CloseSucceeds, Shuts, Leaves
<1>19. CASE CloseFails(t)  BY <1>19 DEF CloseFails
<1>20. CASE CloseMark(t)  BY <1>20 DEF CloseMark, StepsOut
<1>21. CASE ClosePromote(t)  BY <1>21 DEF ClosePromote
<1>22. CASE CloseWaits(t)  BY <1>22 DEF CloseWaits, StepsOut
<1>23. CASE CloseRetries(t)  BY <1>23 DEF CloseRetries, Wakes
<1>24. CASE CloseImmediate(t)
  <2>1. Reenters(t, cEnters, waitSet, Returns(t))
    BY <1>24 DEF CloseImmediate, StepsOut
  <2> QED  BY <1>24, <2>1, GiveUp DEF CloseImmediate
<1>25. CASE CloseGivesUp(t)
  <2>1. Reenters(t, cEnters, waitSet, Returns(t))
    BY <1>25 DEF CloseGivesUp
  <2> QED  BY <1>25, <2>1, GiveUp DEF CloseGivesUp, Wakes
<1>26. CASE ReenterWake(t) \/ ReenterInterrupted(t)
  BY <1>26 DEF ReenterWake, ReenterInterrupted, Wakes
<1>27. CASE OpenSync(t)  BY <1>27 DEF OpenSync
<1>28. CASE Event(t)  BY <1>28 DEF Event, Expire, Interrupt
<1> QED
  BY <1>a, <1>1, <1>2, <1>3, <1>4, <1>5, <1>6, <1>7, <1>8, <1>9, <1>10, <1>11, <1>12,
     <1>13, <1>14, <1>15, <1>16, <1>17, <1>18, <1>19, <1>20, <1>21, <1>22, <1>23,
     <1>24, <1>25, <1>26, <1>27, <1>28 DEF Call, Step

-----------------------------------------------------------------------------
(***************************************************************************)
(* What a step does to the threads inside, to the owner and to the count.  *)
(***************************************************************************)
Stays == Inside' = Inside /\ UNCHANGED <<closing, nStatus, cEnters>>

GetsIn(t) ==
    /\ t \notin Inside /\ Inside' = Inside \cup {t}
    /\ UNCHANGED <<closing, nStatus>>
    /\ \/ nStatus = "open" /\ cEnters' = cEnters + 1
       \/ closing = t /\ cEnters' = Adjust(cEnters, 1)

GetsOut(t) ==
    /\ t \in Inside /\ Inside' = Inside \ {t}
    /\ UNCHANGED <<closing, nStatus>> /\ cEnters' = Adjust(cEnters, -1)

Bars(t) ==
    /\ closing = None /\ closing' = t /\ nStatus' = "closing"
    /\ Inside' = Inside /\ cEnters' = cEnters

ClosesEmpty(t) ==
    /\ closing \in {None, t} /\ t \notin Inside /\ cEnters = 0
    /\ closing' = t /\ nStatus' = "closed"
    /\ Inside' = Inside /\ cEnters' = 0

Opens(t) ==
    /\ closing = t /\ t \notin Inside
    /\ closing' = None /\ nStatus' = "open"
    /\ Inside' = Inside /\ cEnters' = cEnters

Moves(t) == GetsIn(t) \/ GetsOut(t) \/ Bars(t) \/ ClosesEmpty(t) \/ Opens(t)

\* Each step of a disciplined gate leaves the threads inside alone or is one of
\* the five moves.
LEMMA StepMoves ==
    ASSUME Disciplined, TypeOK, Protocol, [Next]_vars
    PROVE  Stays \/ \E t \in Threads : Moves(t)
<1> USE GateConstants DEF Disciplined, Protocol, Inside
<1>0. CASE UNCHANGED vars
  BY <1>0 DEF vars, word, owners, flags, Stays
<1>a. SUFFICES ASSUME NEW t \in Threads,
                      Call(t) \/ Exit(t) \/ Open(t) \/ Step(t) \/ Event(t)
               PROVE  Stays \/ Moves(t)
  BY <1>0 DEF Next
<1> USE DEF TypeOK, Entering, Goto, word, owners, flags
<1>1. CASE EnterNested(t)  BY <1>1 DEF EnterNested, Stays
<1>2. CASE BarAgain(t) \/ CloseAgain(t)  BY <1>2 DEF BarAgain, CloseAgain, Stays
<1>3. CASE Destroy(t)  BY <1>3 DEF Destroy
<1>4. ASSUME NEW w \in Waits, Enter(t, w) PROVE Stays
  BY <1>4 DEF Enter, Stays
<1>5. ASSUME NEW w \in Waits, Bar(t, w) \/ Close(t, w) PROVE Stays
  BY <1>5 DEF Bar, Close, Stays
<1>7. CASE Exit(t)
  <2>1. CASE local[t] = 1
    <3>1. GetsOut(t)  BY <1>7, <2>1 DEF Exit, GetsOut
    <3> QED  BY <3>1 DEF Moves
  <2>2. CASE local[t] # 1  BY <1>7, <2>2 DEF Exit, Stays
  <2> QED  BY <2>1, <2>2
<1>8. CASE Open(t)  BY <1>8 DEF Open, Stays
<1>9. CASE EnterPeek(t)
  <2>1. CASE nStatus # "open" /\ closing = t
    <3>1. GetsIn(t)  BY <1>9, <2>1 DEF EnterPeek, GetsIn
    <3> QED  BY <3>1 DEF Moves
  <2>2. CASE ~(nStatus # "open" /\ closing = t)  BY <1>9, <2>2 DEF EnterPeek, Stays
  <2> QED  BY <2>1, <2>2
<1>10. CASE EnterOpen(t)
  <2>1. GetsIn(t)  BY <1>10 DEF EnterOpen, Admits, GetsIn
  <2> QED  BY <2>1 DEF Moves
<1>11. CASE EnterBarred(t) \/ EnterDestroyed(t)
  BY <1>11 DEF EnterBarred, EnterDestroyed, Stays
<1>12. CASE EnterSync(t)  BY <1>12 DEF EnterSync, Park, Stays
<1>13. CASE EnterWake(t)  BY <1>13 DEF EnterWake, Wakes, Stays
<1>14. CASE ExitNotify(t)  BY <1>14 DEF ExitNotify, Stays
<1>15. CASE BarSync(t)
  <2>1. CASE closing = None
    <3>1. Bars(t)  BY <1>15, <2>1 DEF BarSync, Bars
    <3> QED  BY <3>1 DEF Moves
  <2>2. CASE closing # None  BY <1>15, <2>2 DEF BarSync, Park, Stays
  <2> QED  BY <2>1, <2>2
<1>16. CASE BarWake(t)  BY <1>16 DEF BarWake, Wakes, Stays
<1>17. CASE CloseSync(t)  BY <1>17 DEF CloseSync, StepsOut, Stays
<1>18. CASE CloseSucceeds(t)
  <2>1. ClosesEmpty(t)
    BY <1>18 DEF CloseSucceeds, Shuts, Returns, Leaves, ClosesEmpty
  <2> QED  BY <2>1 DEF Moves
<1>19. CASE CloseFails(t)  BY <1>19 DEF CloseFails, Stays
<1>20. CASE CloseMark(t)
  <2>1. Bars(t)  BY <1>20 DEF CloseMark, StepsOut, Bars
  <2> QED  BY <2>1 DEF Moves
<1>21. CASE ClosePromote(t)  BY <1>21 DEF ClosePromote
<1>22. CASE CloseWaits(t)  BY <1>22 DEF CloseWaits, StepsOut, Stays
<1>23. CASE CloseRetries(t)  BY <1>23 DEF CloseRetries, Wakes, Stays
<1>24. CASE CloseImmediate(t) \/ CloseGivesUp(t)
  <2>1. Reenters(t, cEnters, waitSet, Returns(t)) /\ pc[t] \in {"close_try", "close_wait"}
    BY <1>24 DEF CloseImmediate, CloseGivesUp, Wakes, StepsOut
  <2>2. Inside' = Inside /\ t \notin Inside
    BY <2>1, GiveUp
  <2>3. CASE fReopen[t]
    <3>1. Opens(t)  BY <2>1, <2>2, <2>3, GiveUp DEF Opens
    <3> QED  BY <3>1 DEF Moves
  <2>4. CASE ~fReopen[t]  BY <2>1, <2>2, <2>4, GiveUp DEF Stays
  <2> QED  BY <2>3, <2>4
<1>26. CASE ReenterWake(t) \/ ReenterInterrupted(t)
  BY <1>26 DEF ReenterWake, ReenterInterrupted, Wakes
<1>27. CASE OpenSync(t)
  <2>1. Opens(t)  BY <1>27 DEF OpenSync, Opens
  <2> QED  BY <2>1 DEF Moves
<1>28. CASE Event(t)  BY <1>28 DEF Event, Expire, Interrupt, Stays
<1> QED
  BY <1>a, <1>1, <1>2, <1>3, <1>4, <1>5, <1>7, <1>8, <1>9, <1>10, <1>11, <1>12,
     <1>13, <1>14, <1>15, <1>16, <1>17, <1>18, <1>19, <1>20, <1>21, <1>22, <1>23,
     <1>24, <1>26, <1>27, <1>28, Zenon DEF Call, Step

\* The count follows the threads inside through every move.
LEMMA CountStep ==
    ASSUME Disciplined, TypeOK, Protocol, EnterCount, [Next]_vars
    PROVE  EnterCount'
<1> USE GateConstants DEF EnterCount
<1>1. IsFiniteSet(Inside) /\ Inside \subseteq Threads
  BY FS_Subset DEF Inside
<1>2. CASE Stays  BY <1>2 DEF Stays
<1>3. SUFFICES ASSUME NEW t \in Threads, Moves(t) PROVE EnterCount'
  BY <1>2, StepMoves
<1>4. (nStatus = "open" <=> closing = None) /\ cEnters \in Nat
  BY DEF Protocol, TypeOK
<1>5. CASE GetsIn(t)
  <2>1. Cardinality(Inside') = Cardinality(Inside) + 1 /\ Cardinality(Inside) \in Nat
    BY <1>1, <1>5, FS_AddElement, FS_CardinalityType DEF GetsIn
  <2>2. CASE cEnters = Cardinality(Inside) /\ cEnters # 0
    BY <1>5, <2>1, <2>2 DEF GetsIn, Adjust
  <2>3. CASE Inside = {}
    BY <1>4, <1>5, <2>1, <2>3, FS_EmptySet DEF GetsIn, Adjust
  <2>4. CASE cEnters = Cardinality(Inside) /\ cEnters = 0
    BY <1>1, <2>3, <2>4, FS_EmptySet
  <2>5. CASE Inside = {closing}
    BY <1>1, <1>4, <1>5, <2>5 DEF GetsIn
  <2> QED  BY <2>2, <2>4, <2>5
<1>6. CASE GetsOut(t)
  <2>1. Cardinality(Inside') = Cardinality(Inside) - 1 /\ Cardinality(Inside) \in Nat
    BY <1>1, <1>6, FS_RemoveElement, FS_CardinalityType DEF GetsOut
  <2>2. CASE cEnters = Cardinality(Inside) /\ cEnters # 0
    BY <1>6, <2>1, <2>2 DEF GetsOut, Adjust
  <2>3. CASE cEnters = Cardinality(Inside) /\ cEnters = 0
    BY <1>1, <1>6, <2>3, FS_EmptySet DEF GetsOut
  <2>4. CASE cEnters = 0 /\ Inside = {closing}
    <3>1. Inside' = {}  BY <1>6, <2>4 DEF GetsOut
    <3> QED  BY <1>6, <2>4, <3>1, FS_EmptySet DEF GetsOut, Adjust
  <2> QED  BY <2>2, <2>3, <2>4
<1>7. CASE Bars(t)  BY <1>1, <1>7 DEF Bars
<1>8. CASE ClosesEmpty(t)  BY <1>1, <1>8, FS_EmptySet DEF ClosesEmpty
<1>9. CASE Opens(t)  BY <1>1, <1>9 DEF Opens
<1> QED  BY <1>3, <1>5, <1>6, <1>7, <1>8, <1>9 DEF Moves

\* An owner finds the gate it closes empty: a count of 0 can hide only the owner.
LEMMA ClosesEmptyGate ==
    ASSUME TypeOK, Protocol, EnterCount, NEW t \in Threads, ClosesEmpty(t)
    PROVE  Inside = {}
<1>1. IsFiniteSet(Inside) /\ Inside \subseteq Threads
  BY GateConstants, FS_Subset DEF Inside
<1> QED  BY <1>1, GateConstants, FS_EmptySet DEF ClosesEmpty, EnterCount

\* No move lets a second thread into a closed gate.
LEMMA ExclusionStep ==
    ASSUME Disciplined, TypeOK, Protocol, EnterCount, Exclusion, [Next]_vars
    PROVE  Exclusion'
<1>1. CASE Stays  BY <1>1 DEF Stays, Exclusion
<1>2. ASSUME NEW t \in Threads, ClosesEmpty(t) PROVE Exclusion'
  BY <1>2, ClosesEmptyGate DEF ClosesEmpty, Exclusion
<1>3. ASSUME NEW t \in Threads, Moves(t), ~ClosesEmpty(t) PROVE Exclusion'
  BY <1>3 DEF Moves, GetsIn, GetsOut, Bars, Opens, Exclusion
<1> QED  BY <1>1, <1>2, <1>3, StepMoves

DisciplinedInv == TypeOK /\ Protocol /\ EnterCount /\ Exclusion

\* The inductive invariant of the disciplined gate.
LEMMA DisciplinedInvariant ==
    ASSUME Disciplined
    PROVE  Spec => []DisciplinedInv
<1>1. Init => DisciplinedInv
  <2> SUFFICES ASSUME Init PROVE DisciplinedInv  OBVIOUS
  <2>1. TypeOK  BY GateConstants DEF Init, TypeOK, Status, Labels
  <2>2. Protocol  BY GateConstants DEF Init, Protocol, Entering, Parking
  <2>3. Inside = {}  BY DEF Init, Inside
  <2> QED  BY <2>1, <2>2, <2>3, FS_EmptySet DEF Init, DisciplinedInv, EnterCount, Exclusion
<1>2. DisciplinedInv /\ [Next]_vars => DisciplinedInv'
  BY TypeStep, ProtocolStep, CountStep, ExclusionStep DEF DisciplinedInv
<1> QED  BY <1>1, <1>2, PTL DEF Spec

\* A closed gate is exclusive, for any number of threads that never promote and
\* never destroy: when close returns true no other thread is inside, although
\* enter and exit only touch an atomic word and close a lock.
THEOREM GateIsExclusive ==
    ASSUME Disciplined
    PROVE  Spec => []Exclusion
BY DisciplinedInvariant, PTL DEF DisciplinedInv

\* The atomic count agrees with the threads' own counters up to the owner.
THEOREM CountIsRight ==
    ASSUME Disciplined
    PROVE  Spec => []EnterCount
BY DisciplinedInvariant, PTL DEF DisciplinedInv

\* The status agrees with the closing thread, and the counter of each thread, the lock of
\* the gate and the wait set with how far the thread is in enter, barEntry, close or open.
THEOREM ProtocolHolds ==
    ASSUME Disciplined
    PROVE  Spec => []Protocol
BY DisciplinedInvariant, PTL DEF DisciplinedInv

\* The lock-free gate implements the abstract gate of Gate.tla.
THEOREM ThreadGateImplementsGate ==
    ASSUME Disciplined
    PROVE  Spec => ImplementsGate
<1>1. Init => G!Init
  BY DEF Init, G!Init, Inside, Mode
<1>2. ASSUME DisciplinedInv, [Next]_vars PROVE [G!Next]_(G!gvars)
  <2> USE <1>2 DEF DisciplinedInv
  <2>0. nStatus = "open" <=> closing = None  BY DEF Protocol
  <2>1. CASE Stays  BY <2>1 DEF Stays, Mode, G!gvars
  <2>2. SUFFICES ASSUME NEW t \in Threads, Moves(t) PROVE G!Next
    BY <2>1, StepMoves
  <2>3. CASE GetsIn(t)
    <3>1. G!Enter(t)  BY <2>0, <2>3 DEF GetsIn, G!Enter, Mode
    <3> QED  BY <3>1 DEF G!Next
  <2>4. CASE GetsOut(t)
    <3>1. G!Exit(t)  BY <2>4 DEF GetsOut, G!Exit, Mode
    <3> QED  BY <3>1 DEF G!Next
  <2>5. CASE Bars(t)
    <3>1. G!Bar(t)  BY <2>5 DEF Bars, G!Bar, Mode
    <3> QED  BY <3>1 DEF G!Next
  <2>6. CASE ClosesEmpty(t)
    <3>1. G!Close(t)  BY <2>6, ClosesEmptyGate DEF ClosesEmpty, G!Close, Mode
    <3> QED  BY <3>1 DEF G!Next
  <2>7. CASE Opens(t)
    <3>1. G!Open(t)  BY <2>7 DEF Opens, G!Open, Mode
    <3> QED  BY <3>1 DEF G!Next
  <2> QED  BY <2>2, <2>3, <2>4, <2>5, <2>6, <2>7 DEF Moves
<1> QED  BY <1>1, <1>2, DisciplinedInvariant, PTL DEF Spec, ImplementsGate, G!Spec
=============================================================================
