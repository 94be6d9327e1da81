-------------------------------- MODULE Gate --------------------------------
(***************************************************************************)
(* What a coherence::util::ThreadGate promises to its users: threads enter *)
(* and exit concurrently; at most one thread at a time bars the gate; the  *)
(* gate is exclusive only when nobody but its owner is inside; only the    *)
(* owner reopens it.  ThreadGate.tla shows that the lock-free code keeps   *)
(* this promise, Channel.tla builds the request protocol on top of it.     *)
(***************************************************************************)
CONSTANTS Threads, None

VARIABLES inside,   \* the threads that have entered and not yet exited
          owner,    \* the thread that barred or closed the gate, or None
          mode      \* "open", "barred" or "exclusive"

gvars == <<inside, owner, mode>>

Init == inside = {} /\ owner = None /\ mode = "open"

Enter(t) == /\ t \notin inside
            /\ mode = "open" \/ owner = t
            /\ inside' = inside \cup {t}
            /\ UNCHANGED <<owner, mode>>

Exit(t) == /\ t \in inside
           /\ inside' = inside \ {t}
           /\ UNCHANGED <<owner, mode>>

Bar(t) == /\ owner = None
          /\ owner' = t /\ mode' = "barred"
          /\ UNCHANGED inside

Close(t) == /\ owner \in {None, t}
            /\ inside \subseteq {t}
            /\ owner' = t /\ mode' = "exclusive"
            /\ UNCHANGED inside

Open(t) == /\ owner = t
           /\ owner' = None /\ mode' = "open"
           /\ UNCHANGED inside

Next == \E t \in Threads : Enter(t) \/ Exit(t) \/ Bar(t) \/ Close(t) \/ Open(t)

Spec == Init /\ [][Next]_gvars
=============================================================================
