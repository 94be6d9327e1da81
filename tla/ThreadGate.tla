----------------------------- MODULE ThreadGate -----------------------------
(***************************************************************************)
(* coherence::util::ThreadGate: a gate many threads enter and exit and     *)
(* that one thread at a time may bar, close, reopen or destroy.  A step    *)
(* stands for one access to shared memory: a compare-and-set on the atomic *)
(* word (nStatus, cEnters), the acquisition of the gate's monitor, a wait, *)
(* a wake-up.  Code between two such accesses only touches thread-local    *)
(* data and is merged into the step before it.                             *)
(*                                                                         *)
(* The thread-local Counter of a thread is local[t]; the arguments and the *)
(* flags of the call a thread is in are cMillis[t], fReenter[t] and        *)
(* fReopen[t].  Calls that only throw (an unmatched exit, open by a        *)
(* stranger, destroy of a gate that is not closed) leave the gate as it is *)
(* and have no action.  doWait interrupts the thread again before it        *)
(* rethrows, so that each later wait of the same call throws at once.      *)
(***************************************************************************)
EXTENDS Integers, FiniteSets

CONSTANTS Threads,
          None,
          MaxEnters,  \* ThreadGate::max_enters, the limit of nested enters
          MaxClose,   \* bound on nested close and barEntry calls
          MaxDebt,    \* bound on how far a local counter may fall below 0
          MaxCount,   \* bound on the shared count, which may drift upwards
          Usage       \* what callers and the platform may do, see below

(***************************************************************************)
(* "timed"     callers pass a positive number of milliseconds              *)
(* "interrupt" a waiting thread may be interrupted                         *)
(* "clockback" System::currentTimeMillis may step back during a wait       *)
(* "promote"   a thread may bar, close, open or destroy while inside       *)
(* "destroy"   the closing thread may destroy the gate                     *)
(***************************************************************************)
ASSUME GateConstants ==
    /\ None \notin Threads /\ IsFiniteSet(Threads)
    /\ MaxEnters \in Nat /\ MaxEnters > 1
    /\ MaxClose \in Nat /\ MaxDebt \in Nat /\ MaxCount \in Nat
    /\ Usage \subseteq {"timed", "interrupt", "clockback", "promote", "destroy"}

VARIABLES nStatus,   \* gate_open, gate_closing, gate_closed, gate_destroyed
          cEnters,   \* the entered threads, in the same atomic word as nStatus
          closing,   \* m_vClosingThread
          cClose,    \* m_cClose
          local,     \* f_htlcEnters: each thread's count of unmatched enters
          lock,      \* the owner of the gate's monitor
          waitSet,   \* the threads waiting on the monitor
          pc, cMillis, fReenter, fReopen

word   == <<nStatus, cEnters>>
owners == <<closing, cClose>>
flags  == <<fReenter, fReopen>>
vars   == <<word, owners, local, lock, waitSet, pc, cMillis, flags>>

Status == {"open", "closing", "closed", "destroyed"}
Barred == {"closing", "closed"}
Waits  == {"infinite", "immediate"} \cup (IF "timed" \in Usage THEN {"timed"} ELSE {})

Entering == {"enter_peek", "enter_loop", "enter_sync", "enter_wait", "reenter_wait"}
Parking  == {"enter_wait", "bar_wait", "close_wait", "reenter_wait"}
Labels   == Entering \cup Parking \cup
            {"idle", "exit_notify", "bar_sync", "close_sync", "close_try",
             "close_mark", "close_promote", "open_sync"}

TypeOK ==
    /\ nStatus \in Status /\ cEnters \in Nat
    /\ closing \in Threads \cup {None} /\ cClose \in Nat
    /\ local \in [Threads -> Int]
    /\ lock \in Threads \cup {None} /\ waitSet \subseteq Threads
    /\ pc \in [Threads -> Labels]
    /\ cMillis \in [Threads -> {"infinite", "immediate", "timed", "expired", "interrupted"}]
    /\ fReenter \in [Threads -> BOOLEAN] /\ fReopen \in [Threads -> BOOLEAN]

Init ==
    /\ nStatus = "open" /\ cEnters = 0 /\ closing = None /\ cClose = 0
    /\ local = [t \in Threads |-> 0]
    /\ lock = None /\ waitSet = {}
    /\ pc = [t \in Threads |-> "idle"]
    /\ cMillis = [t \in Threads |-> "infinite"]
    /\ fReenter = [t \in Threads |-> FALSE] /\ fReopen = [t \in Threads |-> FALSE]

Goto(t, label) == pc' = [pc EXCEPT ![t] = label]

\* Fault: a count of 0 is not incremented but is decremented.
AdjustUnderflow(c, d) == IF c = 0 /\ d > 0 THEN 0 ELSE c + d

(***************************************************************************)
(* AtomicState::adjustState on ENTERS.  The condition reads                *)
(*     cEnters += cAdjust == max_enters                                    *)
(* where == binds tighter than +=, so it adds 0 and is true when cEnters   *)
(* is not 0; the count is adjusted only inside COH_ENSURE, on that branch. *)
(***************************************************************************)
Adjust(c, d) == IF c = 0 THEN 0 ELSE c + d

\* doWait returns the time left: all of an infinite wait, none of a timed one
\* (cMillis - lEnd - lTime is negative), none if the clock stepped back.
Retries(t) == cMillis[t] = "infinite"
GivesUp(t) == cMillis[t] # "infinite" \/ "clockback" \in Usage

\* A waiting thread that was notified holds the monitor again.
Wakes(t, label) == pc[t] = label /\ t \notin waitSet /\ lock = None

Park(t, label) == waitSet' = waitSet \cup {t} /\ Goto(t, label)

\* The timer of a timed wait runs out (Object::wait loops over spurious wake-ups
\* of an infinite one), or the waiting thread is interrupted.
Expire(t) ==
    /\ t \in waitSet /\ cMillis[t] = "timed" /\ pc[t] # "reenter_wait"
    /\ waitSet' = waitSet \ {t}
    /\ cMillis' = [cMillis EXCEPT ![t] = "expired"]
    /\ UNCHANGED <<word, owners, local, lock, pc, flags>>

Interrupt(t) ==
    /\ "interrupt" \in Usage
    /\ t \in waitSet
    /\ waitSet' = waitSet \ {t}
    /\ cMillis' = [cMillis EXCEPT ![t] = "interrupted"]
    /\ UNCHANGED <<word, owners, local, lock, pc, flags>>

-----------------------------------------------------------------------------
(* enter *)

\* Fault: a nested enter is counted as another thread.
EnterNestedCounted(t) ==
    /\ pc[t] = "idle" /\ local[t] > 0 /\ local[t] + 1 < MaxEnters
    /\ local' = [local EXCEPT ![t] = @ + 1]
    /\ cEnters' = cEnters + 1
    /\ UNCHANGED <<nStatus, owners, lock, waitSet, pc, cMillis, flags>>

\* A thread that is already inside gets in whatever the state of the gate.
EnterNested(t) ==
    /\ pc[t] = "idle" /\ local[t] > 0
    /\ local' = [local EXCEPT ![t] = IF @ + 1 = MaxEnters THEN @ ELSE @ + 1]
    /\ UNCHANGED <<word, owners, lock, waitSet, pc, cMillis, flags>>

Enter(t, w) ==
    /\ pc[t] = "idle" /\ local[t] <= 0 /\ local[t] >= -MaxDebt /\ cEnters < MaxCount
    /\ local' = [local EXCEPT ![t] = @ + 1]
    /\ cMillis' = [cMillis EXCEPT ![t] = w]
    /\ Goto(t, "enter_peek")
    /\ UNCHANGED <<word, owners, lock, waitSet, flags>>

EnterPeek(t) ==
    /\ pc[t] = "enter_peek"
    /\ IF nStatus # "open" /\ closing = t
          THEN cEnters' = Adjust(cEnters, 1) /\ Goto(t, "idle")
          ELSE UNCHANGED cEnters /\ Goto(t, "enter_loop")
    /\ UNCHANGED <<nStatus, owners, local, lock, waitSet, cMillis, flags>>

\* Fault: only a closed gate keeps threads out, not a closing one.
AdmitsClosing == nStatus # "closed"

Admits == nStatus = "open"

EnterOpen(t) ==
    /\ pc[t] = "enter_loop" /\ Admits
    /\ cEnters' = cEnters + 1
    /\ Goto(t, "idle")
    /\ UNCHANGED <<nStatus, owners, local, lock, waitSet, cMillis, flags>>

EnterBarred(t) ==
    /\ pc[t] = "enter_loop" /\ nStatus \in Barred
    /\ Goto(t, "enter_sync")
    /\ UNCHANGED <<word, owners, local, lock, waitSet, cMillis, flags>>

\* The counter is decremented by the switch and again by enterFinally.
EnterDestroyed(t) ==
    /\ pc[t] = "enter_loop" /\ nStatus = "destroyed"
    /\ local' = [local EXCEPT ![t] = @ - 2]
    /\ Goto(t, "idle")
    /\ UNCHANGED <<word, owners, lock, waitSet, cMillis, flags>>

EnterSync(t) ==
    /\ pc[t] = "enter_sync" /\ lock = None
    /\ \/ /\ nStatus \notin Barred
          /\ Goto(t, "enter_loop")
          /\ UNCHANGED <<local, waitSet>>
       \/ /\ nStatus \in Barred /\ cMillis[t] = "immediate"
          /\ local' = [local EXCEPT ![t] = @ - 1]
          /\ Goto(t, "idle")
          /\ UNCHANGED waitSet
       \/ /\ nStatus \in Barred /\ cMillis[t] # "immediate"
          /\ Park(t, "enter_wait")
          /\ UNCHANGED local
    /\ UNCHANGED <<word, owners, lock, cMillis, flags>>

EnterWake(t) ==
    /\ Wakes(t, "enter_wait")
    /\ \/ /\ Retries(t)
          /\ Goto(t, "enter_loop")
          /\ UNCHANGED local
       \/ /\ GivesUp(t)
          /\ local' = [local EXCEPT ![t] = @ - 1]
          /\ Goto(t, "idle")
    /\ UNCHANGED <<word, owners, lock, waitSet, cMillis, flags>>

-----------------------------------------------------------------------------
(* exit *)

\* Fault: the test for the last thread out reads the count before the exit.
LastOutOffByOne(c) == nStatus = "closing" /\ c = 1

\* The last thread to leave a closing gate must wake the closing thread.
LastOut(c) == nStatus = "closing" /\ c = 0

Exit(t) ==
    /\ pc[t] = "idle" /\ local[t] > 0
    /\ local' = [local EXCEPT ![t] = @ - 1]
    /\ IF local[t] = 1
          THEN LET c == Adjust(cEnters, -1)
               IN  /\ cEnters' = c
                   /\ Goto(t, IF LastOut(c) THEN "exit_notify" ELSE "idle")
          ELSE UNCHANGED <<cEnters, pc>>
    /\ UNCHANGED <<nStatus, owners, lock, waitSet, cMillis, flags>>

ExitNotify(t) ==
    /\ pc[t] = "exit_notify" /\ lock = None
    /\ waitSet' = {}
    /\ Goto(t, "idle")
    /\ UNCHANGED <<word, owners, local, lock, cMillis, flags>>

-----------------------------------------------------------------------------
(* barEntry *)

\* What callers who never promote ask of the gate: a thread bars, closes,
\* opens or destroys it only from the outside.
FromOutside(t) == "promote" \in Usage \/ local[t] <= 0

BarAgain(t) ==
    /\ pc[t] = "idle" /\ closing = t /\ cClose < MaxClose
    /\ cClose' = cClose + 1
    /\ UNCHANGED <<word, closing, local, lock, waitSet, pc, cMillis, flags>>

Bar(t, w) ==
    /\ pc[t] = "idle" /\ closing # t /\ FromOutside(t)
    /\ cMillis' = [cMillis EXCEPT ![t] = w]
    /\ Goto(t, "bar_sync")
    /\ UNCHANGED <<word, owners, local, lock, waitSet, flags>>

\* updateStatus returns the status it has just written, never gate_destroyed,
\* so the test for a destroyed gate does not fire.
BarSync(t) ==
    /\ pc[t] = "bar_sync" /\ lock = None
    /\ \/ /\ closing = None
          /\ nStatus' = "closing" /\ closing' = t /\ cClose' = 1
          /\ Goto(t, "idle")
          /\ UNCHANGED waitSet
       \/ /\ closing # None /\ cMillis[t] = "immediate"
          /\ Goto(t, "idle")
          /\ UNCHANGED <<nStatus, owners, waitSet>>
       \/ /\ closing # None /\ cMillis[t] # "immediate"
          /\ Park(t, "bar_wait")
          /\ UNCHANGED <<nStatus, owners>>
    /\ UNCHANGED <<cEnters, local, lock, cMillis, flags>>

BarWake(t) ==
    /\ Wakes(t, "bar_wait")
    /\ \/ Retries(t) /\ Goto(t, "bar_sync")
       \/ GivesUp(t) /\ Goto(t, "idle")
    /\ UNCHANGED <<word, owners, local, lock, waitSet, cMillis, flags>>

-----------------------------------------------------------------------------
(* close *)

CloseAgain(t) ==
    /\ pc[t] = "idle" /\ closing = t /\ nStatus = "closed" /\ cClose < MaxClose
    /\ cClose' = cClose + 1
    /\ UNCHANGED <<word, closing, local, lock, waitSet, pc, cMillis, flags>>

Close(t, w) ==
    /\ pc[t] = "idle" /\ FromOutside(t)
    /\ closing = t => nStatus # "closed" /\ cClose < MaxClose
    /\ cMillis' = [cMillis EXCEPT ![t] = w]
    /\ Goto(t, "close_sync")
    /\ UNCHANGED <<word, owners, local, lock, waitSet, flags>>

\* A thread that closes from inside leaves the gate for the time being.
StepsOut(t) == local[t] > 0 /\ ~fReenter[t]

CloseSync(t) ==
    /\ pc[t] = "close_sync" /\ lock = None
    /\ lock' = t
    /\ IF closing = t /\ StepsOut(t)
          THEN /\ fReenter' = [fReenter EXCEPT ![t] = TRUE]
               /\ cEnters' = Adjust(cEnters, -1)
          ELSE UNCHANGED <<fReenter, cEnters>>
    /\ Goto(t, "close_try")
    /\ UNCHANGED <<nStatus, owners, local, waitSet, cMillis, fReopen>>

\* Fault: the gate shuts on its status alone.
ShutsOccupied(t) == nStatus = IF closing = t THEN "closing" ELSE "open"

\* statusReq: open if nobody bars the gate, closing if this thread does.
Shuts(t) == cEnters = 0 /\ nStatus = IF closing = t THEN "closing" ELSE "open"

\* closeFinally undoes the temporary exit with enter(-1), which adjusts the
\* shared count only for a thread whose local counter is back at 1.
Returns(t) == fReenter[t] /\ local[t] = 1

Leaves(t) ==
    /\ fReenter' = [fReenter EXCEPT ![t] = FALSE]
    /\ fReopen' = [fReopen EXCEPT ![t] = FALSE]

CloseSucceeds(t) ==
    /\ pc[t] = "close_try" /\ Shuts(t)
    /\ nStatus' = "closed" /\ closing' = t /\ cClose' = cClose + 1
    /\ cEnters' = IF Returns(t) THEN Adjust(0, 1) ELSE 0
    /\ lock' = None /\ Goto(t, "idle") /\ Leaves(t)
    /\ UNCHANGED <<local, waitSet, cMillis>>

CloseFails(t) ==
    /\ pc[t] = "close_try" /\ ~Shuts(t) /\ closing = None
    /\ Goto(t, "close_mark")
    /\ UNCHANGED <<word, owners, local, lock, waitSet, cMillis, flags>>

\* Fault: close waits right after it marked the gate, without the retest.
CloseMarkNoRetest(t) ==
    /\ pc[t] = "close_mark"
    /\ nStatus' = "closing" /\ closing' = t
    /\ fReopen' = [fReopen EXCEPT ![t] = TRUE]
    /\ lock' = None
    /\ Park(t, "close_wait")
    /\ UNCHANGED <<cEnters, cClose, local, cMillis, fReenter>>

\* As in barEntry, a destroyed gate is not recognised.
CloseMark(t) ==
    /\ pc[t] = "close_mark"
    /\ nStatus' = "closing" /\ closing' = t
    /\ fReopen' = [fReopen EXCEPT ![t] = TRUE]
    /\ Goto(t, IF StepsOut(t) THEN "close_promote" ELSE "close_try")
    /\ UNCHANGED <<cEnters, cClose, local, lock, waitSet, cMillis, fReenter>>

ClosePromote(t) ==
    /\ pc[t] = "close_promote"
    /\ fReenter' = [fReenter EXCEPT ![t] = TRUE]
    /\ cEnters' = Adjust(cEnters, -1)
    /\ Goto(t, "close_try")
    /\ UNCHANGED <<nStatus, owners, local, lock, waitSet, cMillis, fReopen>>

\* The owner waits for the last thread to exit; another thread first steps
\* out and wakes the owner if that emptied the gate.  wait frees the monitor.
CloseWaits(t) ==
    /\ pc[t] = "close_try" /\ ~Shuts(t) /\ closing # None
    /\ cMillis[t] # "immediate"
    /\ IF closing # t /\ StepsOut(t)
          THEN LET c == Adjust(cEnters, -1)
               IN  /\ cEnters' = c
                   /\ waitSet' = (IF c = 0 THEN {} ELSE waitSet) \cup {t}
                   /\ fReenter' = [fReenter EXCEPT ![t] = TRUE]
          ELSE waitSet' = waitSet \cup {t} /\ UNCHANGED <<cEnters, fReenter>>
    /\ lock' = None
    /\ Goto(t, "close_wait")
    /\ UNCHANGED <<nStatus, owners, local, cMillis, fReopen>>

CloseRetries(t) ==
    /\ Wakes(t, "close_wait") /\ Retries(t)
    /\ lock' = t
    /\ Goto(t, "close_try")
    /\ UNCHANGED <<word, owners, local, waitSet, cMillis, flags>>

(***************************************************************************)
(* closeFinally after a failed close, from the shared count c and the wait *)
(* set W: the thread re-enters (waiting if another thread bars the gate,   *)
(* throwing if it was interrupted) and then reopens the gate if this very  *)
(* call barred it.                                                         *)
(***************************************************************************)
Reenters(t, c, W, returns) ==
    \/ /\ ~returns \/ closing = t
       /\ cEnters' = IF returns THEN Adjust(c, 1) ELSE c
       /\ IF fReopen[t]
             THEN nStatus' = "open" /\ closing' = None /\ waitSet' = {}
             ELSE UNCHANGED <<nStatus, closing>> /\ waitSet' = W
       /\ Goto(t, "idle") /\ Leaves(t)
       /\ UNCHANGED local
    \/ /\ returns /\ closing # t /\ nStatus = "open"
       /\ cEnters' = c + 1 /\ waitSet' = W
       /\ Goto(t, "idle") /\ Leaves(t)
       /\ UNCHANGED <<nStatus, closing, local>>
    \/ /\ returns /\ closing # t /\ nStatus \in Barred /\ cMillis[t] = "interrupted"
       /\ local' = [local EXCEPT ![t] = @ - 1]
       /\ cEnters' = c /\ waitSet' = W
       /\ Goto(t, "idle") /\ Leaves(t)
       /\ UNCHANGED <<nStatus, closing>>
    \/ /\ returns /\ closing # t /\ nStatus \in Barred /\ cMillis[t] # "interrupted"
       /\ cEnters' = c /\ waitSet' = W \cup {t}
       /\ Goto(t, "reenter_wait")
       /\ fReenter' = [fReenter EXCEPT ![t] = TRUE]
       /\ UNCHANGED <<nStatus, closing, local, fReopen>>
    \/ /\ returns /\ closing # t /\ nStatus = "destroyed"
       \* enter throws, the catch of close runs closeFinally once more
       /\ local' = [local EXCEPT ![t] = @ - IF cMillis[t] = "interrupted" THEN 2 ELSE 4]
       /\ cEnters' = c /\ waitSet' = W
       /\ Goto(t, "idle") /\ Leaves(t)
       /\ UNCHANGED <<nStatus, closing>>

CloseImmediate(t) ==
    /\ pc[t] = "close_try" /\ ~Shuts(t) /\ closing # None
    /\ cMillis[t] = "immediate"
    /\ IF closing # t /\ StepsOut(t)
          THEN LET c == Adjust(cEnters, -1)
               IN  Reenters(t, c, IF c = 0 THEN {} ELSE waitSet, local[t] = 1)
          ELSE Reenters(t, cEnters, waitSet, Returns(t))
    /\ lock' = None
    /\ UNCHANGED <<cClose, cMillis>>

CloseGivesUp(t) ==
    /\ Wakes(t, "close_wait") /\ GivesUp(t)
    /\ Reenters(t, cEnters, waitSet, Returns(t))
    /\ UNCHANGED <<cClose, lock, cMillis>>

\* The enter(-1) of closeFinally is notified; its result is ignored.
ReenterWake(t) ==
    /\ Wakes(t, "reenter_wait") /\ cMillis[t] # "interrupted"
    /\ \/ /\ Reenters(t, cEnters, waitSet, Returns(t))
          /\ UNCHANGED <<cClose, lock, cMillis>>
       \/ /\ "clockback" \in Usage
          /\ local' = [local EXCEPT ![t] = @ - 1]
          /\ Goto(t, "idle") /\ Leaves(t)
          /\ UNCHANGED <<word, owners, lock, waitSet, cMillis>>

\* It is interrupted: the catch of close runs closeFinally once more, whose
\* enter throws again unless the gate has opened.
ReenterInterrupted(t) ==
    /\ Wakes(t, "reenter_wait") /\ cMillis[t] = "interrupted"
    /\ local' = [local EXCEPT ![t] = @ - IF nStatus = "open" THEN 1
                                        ELSE IF nStatus \in Barred THEN 2 ELSE 3]
    /\ cEnters' = IF nStatus = "open" THEN cEnters + 1 ELSE cEnters
    /\ Goto(t, "idle") /\ Leaves(t)
    /\ UNCHANGED <<nStatus, owners, lock, waitSet, cMillis>>

-----------------------------------------------------------------------------
(* open and destroy *)

Open(t) ==
    /\ pc[t] = "idle" /\ closing = t /\ cClose > 0
    /\ cClose > 1 \/ FromOutside(t)
    /\ cClose' = cClose - 1
    /\ Goto(t, IF cClose = 1 THEN "open_sync" ELSE "idle")
    /\ UNCHANGED <<word, closing, local, lock, waitSet, cMillis, flags>>

\* Fault: open does not clear m_vClosingThread.
OpenSyncStale(t) ==
    /\ pc[t] = "open_sync" /\ lock = None
    /\ nStatus' = "open" /\ waitSet' = {}
    /\ Goto(t, "idle")
    /\ UNCHANGED <<cEnters, owners, local, lock, cMillis, flags>>

\* Fault: open does not notify the waiting threads.
OpenSyncSilent(t) ==
    /\ pc[t] = "open_sync" /\ lock = None
    /\ nStatus' = "open" /\ closing' = None
    /\ Goto(t, "idle")
    /\ UNCHANGED <<cEnters, cClose, local, lock, waitSet, cMillis, flags>>

OpenSync(t) ==
    /\ pc[t] = "open_sync" /\ lock = None
    /\ nStatus' = "open" /\ closing' = None /\ waitSet' = {}
    /\ Goto(t, "idle")
    /\ UNCHANGED <<cEnters, cClose, local, lock, cMillis, flags>>

Destroy(t) ==
    /\ "destroy" \in Usage /\ FromOutside(t) /\ cClose < MaxClose
    /\ pc[t] = "idle" /\ lock = None /\ closing = t /\ nStatus = "closed"
    /\ nStatus' = "destroyed" /\ closing' = None /\ waitSet' = {}
    /\ UNCHANGED <<cEnters, cClose, local, lock, pc, cMillis, flags>>

-----------------------------------------------------------------------------
Call(t) ==
    \/ EnterNested(t) \/ BarAgain(t) \/ CloseAgain(t) \/ Destroy(t)
    \/ \E w \in Waits : Enter(t, w) \/ Bar(t, w) \/ Close(t, w)

Step(t) ==
    \/ EnterPeek(t) \/ EnterOpen(t) \/ EnterBarred(t) \/ EnterDestroyed(t)
    \/ EnterSync(t) \/ EnterWake(t) \/ ExitNotify(t)
    \/ BarSync(t) \/ BarWake(t)
    \/ CloseSync(t) \/ CloseSucceeds(t) \/ CloseFails(t) \/ CloseMark(t)
    \/ ClosePromote(t) \/ CloseWaits(t) \/ CloseRetries(t)
    \/ CloseImmediate(t) \/ CloseGivesUp(t) \/ ReenterWake(t) \/ ReenterInterrupted(t)
    \/ OpenSync(t)

Event(t) == Expire(t) \/ Interrupt(t)

Next == \E t \in Threads : Call(t) \/ Exit(t) \/ Open(t) \/ Step(t) \/ Event(t)

Spec == Init /\ [][Next]_vars

(***************************************************************************)
(* A running thread keeps executing its code and is not starved by the     *)
(* monitor or by lost compare-and-sets; the GateBlock destructors match    *)
(* each enter with an exit and each barEntry and close with an open.       *)
(* Nothing obliges a thread to make a new call.                            *)
(***************************************************************************)
Fairness(t) ==
    /\ SF_vars(Step(t))
    /\ WF_vars(Exit(t)) /\ SF_vars(local[t] = 1 /\ Exit(t))
    /\ WF_vars(Open(t)) /\ SF_vars(cClose = 1 /\ Open(t))

FairSpec == Spec /\ \A t \in Threads : Fairness(t)

-----------------------------------------------------------------------------
(***************************************************************************)
(* Properties.  A thread is inside between the compare-and-set of an       *)
(* outermost enter and the one of the matching exit, except while close    *)
(* has taken it out to promote it.                                         *)
(***************************************************************************)
Inside == {t \in Threads : local[t] > 0 /\ pc[t] \notin Entering /\ ~fReenter[t]}

\* A closed gate is exclusive: close returns true iff no other thread remains
\* in the gate, and none gets in until the owner reopens it.
Exclusion == nStatus = "closed" => Inside \subseteq {closing}

\* The discipline under which the gate keeps its promise.
Disciplined == Usage \cap {"promote", "destroy"} = {}

\* How the pieces of the state that no lock protects together fit: the status
\* agrees with m_vClosingThread; a call's local counter agrees with its place in
\* the code; the owner keeps the gate until its own close, open or give-up.
Protocol ==
    /\ nStatus # "destroyed" /\ (nStatus = "open" <=> closing = None)
    /\ \A t \in Threads :
          /\ local[t] >= 0 /\ ~fReenter[t]
          /\ pc[t] \notin {"close_promote", "reenter_wait"}
          /\ pc[t] \in Entering => local[t] = 1
          /\ pc[t] \notin Entering \cup {"idle"} => local[t] = 0
          /\ lock = t <=> pc[t] \in {"close_try", "close_mark"}
          /\ t \in waitSet => pc[t] \in Parking
          /\ pc[t] = "close_mark" => closing = None
          /\ pc[t] = "open_sync" => closing = t
          /\ pc[t] \in {"close_sync", "close_try", "close_wait"} /\ closing = t
                => nStatus = "closing"
          /\ fReopen[t] => closing = t /\ pc[t] \in {"close_try", "close_wait"}

\* The lock-free count of entered threads agrees with the threads' own
\* counters, except that an owner who enters the gate he emptied goes
\* uncounted (adjustState does not move a count of 0).
EnterCount ==
    \/ cEnters = Cardinality(Inside)
    \/ cEnters = 0 /\ Inside = {closing}

\* Nobody sleeps on a gate that could let him go on: enterers wait only while
\* the gate is barred, other closers only while somebody owns it, and the
\* owner only while a thread inside has yet to exit or to notify him.
NoLostWakeup ==
    \A t \in waitSet :
        /\ pc[t] \in {"enter_wait", "reenter_wait"} => nStatus \in Barred
        /\ pc[t] \in {"bar_wait", "close_wait"} => closing # None
        /\ pc[t] = "close_wait" /\ closing = t =>
              cEnters > 0 \/ \E u \in Threads : pc[u] = "exit_notify"

\* The gate keeps the promise of Gate.tla.
Mode == IF nStatus = "open" THEN "open"
        ELSE IF nStatus = "closing" THEN "barred" ELSE "exclusive"

G == INSTANCE Gate WITH inside <- Inside, owner <- closing, mode <- Mode

ImplementsGate == G!Spec

\* A thread that barred the gate and waits to close it gets exclusive access
\* (or gives up on a timeout): the last thread to exit wakes it.
CloserServed ==
    \A t \in Threads : pc[t] = "close_wait" /\ closing = t ~> pc[t] = "idle"

\* A barred gate opens again and its infinite waiters are woken.
Reopens == nStatus \in Barred ~> nStatus = "open" /\ waitSet = {}
=============================================================================
