----------------------------- MODULE NearCacheSound -----------------------------
(***************************************************************************)
(* What NearCache keeps in the uses the code is made for (Sound), for any  *)
(* number of clients and keys, any size of the front map, and any set of   *)
(* modes: on top of the invariant of NearCacheProofs.                      *)
(***************************************************************************)
EXTENDS NearCacheProofs

(***************************************************************************)
(* In the uses the code is made for, the operations are those of the mode, *)
(* nothing is reset, and the front map evicts keys one by one;             *)
(***************************************************************************)
Unreset == \A i \in DOMAIN inbox : inbox[i].type # "truncate"
Usual ==
    /\ \A c \in Clients : job[c].op \in mode.ops \cup {"none"}
    /\ Unreset
    /\ target = "all" => \A c \in Clients : job[c].evicted = {}

\* locks are counted exactly;
Counted == \A c \in Clients, k \in Keys : lock[k].owner = c =>
              /\ k \in job[c].locked \cup job[c].evicted
              /\ lock[k].count = IF k \in job[c].locked \cap job[c].evicted THEN 2 ELSE 1

\* and every entry of the front map is listened to.
Heeded ==
    /\ \A k \in Keys : front[k] # Absent => k \in listening
    /\ strategy = "all" => listening = Keys
    /\ target = "all" /\ strategy # "all" => \A k \in Keys : front[k] = Absent

\* The global listener is registered once.
Alone == \A c, d \in Clients : job[c].at = "ensuring" /\ job[d].at = "ensuring" => c = d

\* A client knows whether it is listened to: a get that is sure of its registration,
\* and a put that will look at its list.
Confirmed(c) == \/ job[c].reply = "ok"
                \/ \E i \in Answers : inbox[i] = Reply(c, "ok")
Filling == {"ask", "asked", "finish"}

Tracks(c) ==
    /\ job[c].at = "ensuring" => strategy # "all" /\ listening = Keys
    /\ target = "all" /\ job[c].op \in {"get", "getAll"} /\ job[c].at \in Filling \cup {"locks", "front"}
          => strategy = "all"
    /\ job[c].all => strategy = "all"
    /\ job[c].op = "get" /\ (job[c].at \in Filling \/ (job[c].at = "registering" /\ Confirmed(c)))
          => job[c].locked \subseteq listening
    /\ job[c].op \in {"put", "putAll"} => \A k \in Keys : list[k] = c =>
          /\ k \in listening \/ (front[k] = Absent /\ target = "present")
          /\ target = "all" => strategy = "all"
    /\ \A k \in job[c].evicted : front[k] = Absent

Keen == Usual /\ Counted /\ Heeded /\ Alone /\ \A c \in Clients : Tracks(c)

Attentive == Sound => Keen

-----------------------------------------------------------------------------
(***************************************************************************)
(* What a step of one thread t leaves to the others.                       *)
(***************************************************************************)
Threads == Clients \cup {Service}

\* What the mode excludes.
LEMMA SoundHas ==
    ASSUME Sound, Steady, Keen, NEW c \in Clients
    PROVE  /\ job[c].op = "getAll" => target = "all" /\ "fail" \notin usage
           /\ job[c].op = "clear" => target # "all"
           /\ job[c].op = "putAll" => target # "auto"
           /\ target = "all" => job[c].evicted = {} /\ strategy # "present"
           /\ target # "all" => strategy # "all"
           /\ "reset" \notin usage /\ "refresh" \notin usage
           /\ target \in {"present", "auto", "all"}
<1>1. target \in {"present", "auto", "all"}
  BY NearCacheConstants DEF Steady, Typed, TypeOK, target
<1> QED
  BY <1>1 DEF Sound, Keen, Usual, Steady, Suited

LEMMA UsualKept ==
    ASSUME Usual, UNCHANGED mode, NEW t \in Threads, Others(t), Unreset',
           t \in Clients => /\ job'[t].op \in {job[t].op, "none"} \cup mode.ops
                            /\ target = "all" => job'[t].evicted = {}
    PROVE  Usual'
<1>1. ASSUME NEW d \in Clients
      PROVE  /\ job'[d].op \in mode'.ops \cup {"none"}
             /\ target' = "all" => job'[d].evicted = {}
  <2>1. CASE d = t
    BY <2>1 DEF Usual, target
  <2>2. CASE d # t
    BY <2>2 DEF Usual, Others, target
  <2> QED
    BY <2>1, <2>2
<1> QED
  BY <1>1 DEF Usual

LEMMA CountedKept ==
    ASSUME Counted, Steady, NEW t \in Threads, Others(t), NEW S \in SUBSET Keys,
           \A k \in S : lock'[k].owner \in Clients =>
              /\ lock'[k].owner = t
              /\ k \in job'[t].locked \cup job'[t].evicted
              /\ lock'[k].count = IF k \in job'[t].locked \cap job'[t].evicted THEN 2 ELSE 1,
           \A k \in Keys \ S : lock'[k] = lock[k],
           t \in Clients => \A k \in Keys \ S : /\ k \in job'[t].locked <=> k \in job[t].locked
                                                /\ k \in job'[t].evicted <=> k \in job[t].evicted
    PROVE  Counted'
<1>1. SUFFICES ASSUME NEW c \in Clients, NEW k \in Keys, lock'[k].owner = c
               PROVE  /\ k \in job'[c].locked \cup job'[c].evicted
                      /\ lock'[k].count = IF k \in job'[c].locked \cap job'[c].evicted THEN 2 ELSE 1
  BY DEF Counted
<1>2. CASE k \in S
  BY <1>1, <1>2
<1>3. CASE k \notin S
  <2>1. lock'[k] = lock[k] /\ lock[k].owner = c
    BY <1>1, <1>3
  <2>2. /\ k \in job[c].locked \cup job[c].evicted
        /\ lock[k].count = IF k \in job[c].locked \cap job[c].evicted THEN 2 ELSE 1
    BY <2>1 DEF Counted
  <2>3. (k \in job'[c].locked <=> k \in job[c].locked) /\ (k \in job'[c].evicted <=> k \in job[c].evicted)
    <3>1. CASE c = t
      BY <1>3, <3>1
    <3>2. CASE c # t
      BY <3>2 DEF Others
    <3> QED
      BY <3>1, <3>2
  <2> QED
    BY <2>1, <2>2, <2>3
<1> QED
  BY <1>2, <1>3

\* The front map and the listeners change for keys that t has or could have.
Tends(t) ==
    /\ strategy' = strategy \/ target # "all"
    /\ \A k \in listening : k \in listening' \/ /\ lock[k].owner \in {None, t}
                                                /\ front'[k] = Absent /\ target # "all"
    /\ \A k \in Keys : \/ front'[k] = Absent
                       \/ front'[k] = front[k]
                       \/ /\ lock[k].owner = t /\ k \in listening'
                          /\ target = "all" => strategy = "all"

LEMMA HeededKept ==
    ASSUME Heeded, Steady, Steady', UNCHANGED mode, NEW t \in Threads, Tends(t)
    PROVE  Heeded'
<1>1. target' = target /\ (strategy' = "all" => target = "all") /\ listening' \subseteq Keys
  BY TypesGiven DEF target, Steady, Suited, Typed, TypeOK
<1>2. \A k \in Keys : front'[k] # Absent => k \in listening'
  BY DEF Tends, Heeded
<1>3. strategy' = "all" => listening' = Keys
  <2>1. SUFFICES ASSUME strategy' = "all" PROVE \A k \in Keys : k \in listening'
    BY <1>1
  <2>2. listening = Keys
    BY <1>1, <2>1 DEF Tends, Heeded
  <2> QED
    BY <1>1, <2>1, <2>2 DEF Tends
<1>4. target' = "all" /\ strategy' # "all" => \A k \in Keys : front'[k] = Absent
  BY <1>1 DEF Tends, Heeded
<1> QED
  BY <1>2, <1>3, <1>4 DEF Heeded

LEMMA TracksKept ==
    ASSUME Steady, Steady', UNCHANGED mode, NEW t \in Threads, Tends(t), NEW d \in Clients, d # t,
           Tracks(d), job'[d] = job[d], \A k \in Keys : list'[k] = d => list[k] = d,
           Confirmed(d)' => Confirmed(d)
    PROVE  Tracks(d)'
<1>1. target' = target /\ (strategy' = "all" => target = "all") /\ (strategy = "all" => target = "all")
      /\ listening' \subseteq Keys
  BY TypesGiven DEF target, Steady, Suited, Typed, TypeOK
<1>2. job[d].at = "ensuring" => strategy' # "all" /\ listening' = Keys
  <2>1. SUFFICES ASSUME job[d].at = "ensuring" PROVE strategy' # "all" /\ listening' = Keys
    OBVIOUS
  <2>2. target = "all" /\ listening = Keys /\ strategy # "all"
    BY <2>1 DEF Tracks, Steady, Suited
  <2> QED
    BY <1>1, <2>2 DEF Tends
<1>3. \A k \in Keys : k \in job[d].locked \cup job[d].evicted => lock[k].owner = d
  BY DEF Steady, Locking
<1>4. d # None /\ d # Service
  BY Parties
<1>5. \A k \in Keys : k \in job[d].locked /\ k \in listening => k \in listening'
  BY <1>3, <1>4 DEF Tends
<1>6. \A k \in Keys : k \in job[d].locked \cup job[d].evicted /\ front[k] = Absent => front'[k] = Absent
  BY <1>3, <1>4 DEF Tends
<1>7. job[d].locked \subseteq Keys /\ job[d].evicted \subseteq Keys
  BY PlaceOps DEF Jobs
<1>8. \A k \in Keys : list[k] = d => k \in job[d].locked
  BY DEF Steady, Listed
<1>9. target = "all" /\ job[d].op \in {"get", "getAll"} /\ job[d].at \in Filling \cup {"locks", "front"}
          => strategy' = "all"
  BY DEF Tracks, Tends
<1>10. job[d].all => strategy' = "all"
  BY <1>1 DEF Tracks, Tends
<1>11. job[d].op = "get" /\ (job[d].at \in Filling \/ (job[d].at = "registering" /\ Confirmed(d)))
          => job[d].locked \subseteq listening'
  BY <1>5, <1>7 DEF Tracks
<1>12. job[d].op \in {"put", "putAll"} => \A k \in Keys : list[k] = d =>
          /\ k \in listening' \/ (front'[k] = Absent /\ target = "present")
          /\ target = "all" => strategy' = "all"
  <2>1. SUFFICES ASSUME job[d].op \in {"put", "putAll"}, NEW k \in Keys, list[k] = d
                 PROVE  /\ k \in listening' \/ (front'[k] = Absent /\ target = "present")
                        /\ target = "all" => strategy' = "all"
    OBVIOUS
  <2>2. /\ k \in listening \/ (front[k] = Absent /\ target = "present")
        /\ target = "all" => strategy = "all"
    BY <2>1 DEF Tracks
  <2>3. k \in job[d].locked
    BY <1>8, <2>1
  <2> QED
    BY <1>5, <1>6, <2>2, <2>3 DEF Tends
<1>13. \A k \in job[d].evicted : front'[k] = Absent
  BY <1>6, <1>7 DEF Tracks
<1> QED
  BY <1>1, <1>2, <1>9, <1>10, <1>11, <1>12, <1>13 DEF Tracks

\* All of it together.
LEMMA KeenStep ==
    ASSUME Keen, Steady, Steady', UNCHANGED mode, NEW t \in Threads, Others(t), Unreset', Tends(t),
           NEW S \in SUBSET Keys,
           \A k \in S : lock'[k].owner \in Clients =>
              /\ lock'[k].owner = t
              /\ k \in job'[t].locked \cup job'[t].evicted
              /\ lock'[k].count = IF k \in job'[t].locked \cap job'[t].evicted THEN 2 ELSE 1,
           \A k \in Keys \ S : lock'[k] = lock[k],
           t \in Clients => \A k \in Keys \ S : /\ k \in job'[t].locked <=> k \in job[t].locked
                                                /\ k \in job'[t].evicted <=> k \in job[t].evicted,
           t \in Clients => /\ job'[t].op \in {job[t].op, "none"} \cup mode.ops
                            /\ target = "all" => job'[t].evicted = {}
                            /\ job'[t].at = "ensuring" => job[t].at = "ensuring"
                            /\ Tracks(t)',
           \A d \in Clients : d # t => /\ \A k \in Keys : list'[k] = d => list[k] = d
                                       /\ Confirmed(d)' => Confirmed(d)
    PROVE  Keen'
<1>1. Usual'
  BY UsualKept DEF Keen
<1>2. Counted'
  BY CountedKept DEF Keen
<1>3. Heeded'
  BY HeededKept DEF Keen
<1>4. Alone'
  <2>1. \A d \in Clients : job'[d].at = "ensuring" => job[d].at = "ensuring"
    BY DEF Others
  <2> QED
    BY <2>1 DEF Keen, Alone
<1>5. ASSUME NEW d \in Clients PROVE Tracks(d)'
  <2>1. CASE d = t
    BY <2>1
  <2>2. CASE d # t
    <3>1. job'[d] = job[d] /\ Tracks(d)
      BY <2>2 DEF Others, Keen
    <3> QED
      BY <2>2, <3>1, TracksKept
  <2> QED
    BY <2>1, <2>2
<1> QED
  BY <1>1, <1>2, <1>3, <1>4, <1>5 DEF Keen

\* A step that touches no lock, no listener and no entry of the front map.
LEMMA PlainKeen ==
    ASSUME Keen, Steady, Steady', NEW t \in Threads, Others(t), Unreset',
           UNCHANGED <<mode, front, listening, strategy, lock>>,
           t \in Clients => /\ job'[t].locked = job[t].locked /\ job'[t].evicted = job[t].evicted
                            /\ job'[t].op \in {job[t].op, "none"} \cup mode.ops
                            /\ job'[t].at = "ensuring" => job[t].at = "ensuring"
                            /\ Tracks(t)',
           \A d \in Clients : d # t => /\ \A k \in Keys : list'[k] = d => list[k] = d
                                       /\ Confirmed(d)' => Confirmed(d)
    PROVE  Keen'
<1>1. Tends(t)
  BY DEF Tends
<1>2. t \in Clients => (target = "all" => job'[t].evicted = {})
  BY DEF Keen, Usual
<1> DEFINE S == {}
<1>3. /\ S \in SUBSET Keys /\ \A k \in Keys \ S : lock'[k] = lock[k]
      /\ \A k \in S : lock'[k].owner \in Clients =>
              /\ lock'[k].owner = t
              /\ k \in job'[t].locked \cup job'[t].evicted
              /\ lock'[k].count = IF k \in job'[t].locked \cap job'[t].evicted THEN 2 ELSE 1
      /\ t \in Clients => \A k \in Keys \ S : /\ k \in job'[t].locked <=> k \in job[t].locked
                                              /\ k \in job'[t].evicted <=> k \in job[t].evicted
  OBVIOUS
<1> HIDE DEF S, Others
<1> QED
  BY <1>1, <1>2, <1>3, KeenStep

\* A client without an operation needs nothing.
LEMMA IdleTracks ==
    ASSUME Steady', NEW c \in Clients, job'[c] = IdleJob
    PROVE  Tracks(c)' /\ job'[c].op = "none" /\ job'[c].evicted = {} /\ job'[c].locked = {} /\ job'[c].at = "idle"
<1>1. /\ job'[c].op = "none" /\ job'[c].at = "idle" /\ job'[c].all = FALSE /\ job'[c].evicted = {}
      /\ job'[c].locked = {}
  BY DEF IdleJob
<1> QED
  BY <1>1 DEF Tracks

\* A client that only moves on keeps what it has.
LEMMA MoveTracks ==
    ASSUME Steady, Keen, UNCHANGED <<mode, front, listening, strategy, list>>, NEW c \in Clients,
           job'[c].op = job[c].op, job'[c].all = job[c].all, job'[c].locked = job[c].locked,
           job'[c].evicted = job[c].evicted,
           job'[c].at = "ensuring" => job[c].at = "ensuring",
           job[c].op \in {"get", "getAll"} /\ job'[c].at \in Filling \cup {"locks", "front"}
              => job[c].at \in Filling \cup {"locks", "front"} \/ target # "all",
           job[c].op = "get" /\ (job'[c].at \in Filling \/ (job'[c].at = "registering" /\ Confirmed(c)'))
              => job[c].at \in Filling \/ (job[c].at = "registering" /\ Confirmed(c))
    PROVE  Tracks(c)'
<1>1. Tracks(c) /\ target' = target
  BY DEF Keen, target
<1> QED
  BY <1>1 DEF Tracks

\* The answers that have come or are on their way.
LEMMA ConfirmedKept ==
    ASSUME UNCHANGED inbox, NEW c \in Clients, job'[c].reply = "ok" => job[c].reply = "ok"
    PROVE  Confirmed(c)' => Confirmed(c)
BY DEF Confirmed, Answers

LEMMA ConfirmedTells ==
    ASSUME Typed, Tells, NEW c \in Clients, job'[c].reply = "ok" => job[c].reply = "ok"
    PROVE  Confirmed(c)' => Confirmed(c)
<1>1. /\ Len(inbox) \in Nat /\ DOMAIN inbox = 1..Len(inbox)
      /\ DOMAIN inbox' = 1..Len(inbox') /\ Len(inbox') \in Nat
      /\ \A i \in 1..Len(inbox) : inbox'[i] = inbox[i]
  BY LenProperties DEF Tells, Grows, Typed, Incoming
<1>2. \A i \in DOMAIN inbox' : inbox'[i].type = "reply" => i \in DOMAIN inbox
  BY <1>1, MessageParts DEF Tells
<1>3. ASSUME NEW i \in Answers', inbox'[i] = Reply(c, "ok") PROVE i \in Answers /\ inbox[i] = Reply(c, "ok")
  BY <1>1, <1>2, <1>3 DEF Answers
<1> QED
  BY <1>3 DEF Confirmed

LEMMA ConfirmedAsks ==
    ASSUME Typed, NEW c \in Clients, NEW o \in {"ok", "error"}, Answering(c, o),
           NEW d \in Clients, d # c \/ o = "error", job'[d].reply = "ok" => job[d].reply = "ok"
    PROVE  Confirmed(d)' => Confirmed(d)
<1>1. /\ Len(inbox) \in Nat /\ DOMAIN inbox = 1..Len(inbox)
      /\ DOMAIN inbox' = 1..Len(inbox') /\ Len(inbox') \in Nat /\ Len(inbox) < Len(inbox')
      /\ \A i \in 1..Len(inbox) : inbox'[i] = inbox[i]
  BY LenProperties DEF Answering, Grows, Typed, Incoming
<1>2. \A i \in (Len(inbox) + 1)..(Len(inbox') - 1) : inbox'[i].type # "reply"
  BY MessageParts DEF Answering
<1>3. inbox'[Len(inbox')] # Reply(d, "ok")
  BY DEF Answering, Reply
<1>4. \A i \in DOMAIN inbox' : inbox'[i].type = "reply" => i \in DOMAIN inbox \/ i = Len(inbox')
  BY <1>1, <1>2
<1>5. ASSUME NEW i \in Answers', inbox'[i] = Reply(d, "ok") PROVE i \in Answers /\ inbox[i] = Reply(d, "ok")
  BY <1>1, <1>3, <1>4, <1>5 DEF Answers
<1> QED
  BY <1>5 DEF Confirmed

LEMMA UnresetGrows ==
    ASSUME Typed, Unreset, Grows, \A i \in (Len(inbox) + 1)..Len(inbox') : inbox'[i].type # "truncate"
    PROVE  Unreset'
<1>1. /\ Len(inbox) \in Nat /\ DOMAIN inbox = 1..Len(inbox)
      /\ DOMAIN inbox' = 1..Len(inbox') /\ Len(inbox') \in Nat
      /\ \A i \in 1..Len(inbox) : inbox'[i] = inbox[i]
  BY LenProperties DEF Grows, Typed, Incoming
<1> QED
  BY <1>1 DEF Unreset

-----------------------------------------------------------------------------
(***************************************************************************)
(* The steps of the peer and of the service thread.                        *)
(***************************************************************************)
LEMMA ServiceIsThread ==
    /\ Service \in Threads /\ Service \notin Clients /\ Clients \subseteq Threads
    /\ UNCHANGED job => Others(Service)
BY NearCacheConstants DEF Threads, Others

LEMMA PeerKeen ==
    ASSUME Sound, Keen, Steady, Steady', Peer
    PROVE  Keen'
<1>1. mode.keys \subseteq Keys
  <2>1. mode \in [keys : SUBSET Keys, target : {"present", "auto", "all"}, ops : SUBSET Operations,
                  usage : SUBSET {"expire", "load", "refresh", "fail", "reset"}]
    BY NearCacheConstants DEF Steady, Typed, TypeOK
  <2> QED
    BY <2>1
<1>2. PICK k \in Keys : OthersWrite(k)
  BY <1>1 DEF Peer, Refresh, Truncate, Sound
<1>3. /\ Tells /\ OnlyChanges
      /\ UNCHANGED <<mode, front, listening, strategy, lock, list, job>>
  BY <1>2, OthersWriteEffect DEF Steady, mapVars, ctrlVars
<1>4. Unreset'
  BY <1>3, UnresetGrows DEF Tells, OnlyChanges, Steady, Keen, Usual
<1>5. \A d \in Clients : Confirmed(d)' => Confirmed(d)
  BY <1>3, ConfirmedTells DEF Steady
<1>6. Others(Service)
  BY <1>3, ServiceIsThread
<1> HIDE DEF Others
<1> QED
  BY <1>3, <1>4, <1>5, <1>6, ServiceIsThread, PlainKeen

LEMMA ReceiveKeen ==
    ASSUME Sound, Keen, Steady, Steady', Receive
    PROVE  Keen'
<1>1. /\ Shrinks /\ inbox[1] \in Msgs
      /\ UNCHANGED <<mode, listening, lock, list>>
  BY ReceiveEffect DEF ctrlVars, Steady
<1>2. /\ Len(inbox) \in Nat /\ DOMAIN inbox = 1..Len(inbox)
      /\ DOMAIN inbox' = 1..Len(inbox') /\ Len(inbox') = Len(inbox) - 1 /\ 1 \in DOMAIN inbox
      /\ \A i \in 1..Len(inbox') : inbox'[i] = inbox[i + 1]
  BY <1>1, LenProperties DEF Shrinks, Steady, Typed, Incoming
<1>3. Unreset' /\ inbox[1].type # "truncate"
  <2>1. \A i \in DOMAIN inbox : inbox[i].type # "truncate"
    BY DEF Keen, Usual, Unreset
  <2>2. \A i \in 1..Len(inbox') : i + 1 \in DOMAIN inbox
    BY <1>2
  <2>3. \A i \in DOMAIN inbox' : inbox'[i].type # "truncate"
    BY <1>2, <2>1, <2>2
  <2> QED
    BY <1>2, <2>1, <2>3 DEF Unreset
<1>4. \A i \in Answers' : i + 1 \in Answers /\ inbox'[i] = inbox[i + 1]
  BY <1>2 DEF Answers
<1>5. CASE inbox[1].type = "reply"
  <2>1. PICK c \in Clients : c = inbox[1].client
    BY <1>5, ReceiveEffect DEF Steady
  <2>2. /\ inbox[1] = Reply(c, inbox[1].outcome)
        /\ Goes(c, job[c].at, job[c].locked, job[c].evicted, inbox[1].outcome)
        /\ UNCHANGED <<svc, front, strategy>>
    BY <1>5, <2>1, ReceiveEffect DEF Steady
  <2>3. /\ Others(c) /\ job'[c].op = job[c].op /\ job'[c].all = job[c].all
        /\ job'[c].at = job[c].at /\ job'[c].locked = job[c].locked
        /\ job'[c].evicted = job[c].evicted /\ job'[c].reply = inbox[1].outcome
    BY <2>2 DEF Goes
  <2>4. 1 \in Answers
    BY <1>2, <1>5 DEF Answers
  <2>5. ASSUME NEW d \in Clients, Confirmed(d)' PROVE Confirmed(d)
    <3>1. CASE \E i \in Answers' : inbox'[i] = Reply(d, "ok")
      BY <1>4, <3>1 DEF Confirmed
    <3>2. CASE job'[d].reply = "ok" /\ d = c
      <4>1. inbox[1] = Reply(d, "ok")
        BY <2>2, <2>3, <3>2
      <4> QED
        BY <2>4, <4>1 DEF Confirmed
    <3>3. CASE job'[d].reply = "ok" /\ d # c
      BY <2>3, <3>3 DEF Confirmed, Others
    <3> QED
      BY <2>5, <3>1, <3>2, <3>3 DEF Confirmed
  <2>6. Tracks(c)'
    BY <1>1, <2>2, <2>3, <2>5, MoveTracks
  <2> HIDE DEF Others
  <2> QED
    BY <1>1, <1>3, <2>2, <2>3, <2>5, <2>6, ServiceIsThread, PlainKeen
<1>6. CASE inbox[1].type # "reply"
  <2>1. UNCHANGED <<job, front, strategy>>
    BY <1>3, <1>6, ReceiveEffect DEF Steady
  <2>2. \A d \in Clients : Confirmed(d)' => Confirmed(d)
    BY <1>4, <2>1 DEF Confirmed
  <2>3. Others(Service)
    BY <2>1, ServiceIsThread
  <2> HIDE DEF Others
  <2> QED
    BY <1>1, <1>3, <2>1, <2>2, <2>3, ServiceIsThread, PlainKeen
<1> QED
  BY <1>5, <1>6

\* What the service thread does for an event.
LEMMA ServiceKeen ==
    ASSUME Keen, Steady, Steady', UNCHANGED <<mode, strategy, inbox, list, job>>, Tends(Service),
           NEW k \in Keys, lock'[k].owner \in {None, Service}, \A j \in Keys \ {k} : lock'[j] = lock[j]
    PROVE  Keen'
<1> DEFINE S == {k}
<1>1. S \in SUBSET Keys /\ (\A j \in Keys \ S : lock'[j] = lock[j]) /\ \A j \in S : lock'[j].owner \notin Clients
  BY Parties, ServiceIsThread
<1>2. Unreset'
  BY DEF Keen, Usual, Unreset
<1>3. \A d \in Clients : Confirmed(d)' => Confirmed(d)
  BY ConfirmedKept
<1>4. Others(Service)
  BY ServiceIsThread
<1> HIDE DEF S, Others
<1> QED
  BY <1>1, <1>2, <1>3, <1>4, ServiceIsThread, KeenStep

LEMMA ServiceLockKeen ==
    ASSUME Keen, Steady, Steady', ServiceLock
    PROVE  Keen'
<1> DEFINE k == svc.event.key
<1>1. k \in Keys /\ svc.at = "lock"
  BY ServiceHas DEF ServiceLock
<1>2. UNCHANGED <<mode, front, listening, strategy, inbox, list, job>>
  BY DEF ServiceLock, mapVars, peerVars
<1>3. Tends(Service)
  BY <1>2 DEF Tends
<1>4. lock \in LockMaps /\ {k} \in SUBSET Keys /\ Service \in Clients \cup {Service}
  BY <1>1, TypesGiven DEF Steady, Typed
<1>5. \A j \in Keys : lock[j].owner = Service => svc.at = "validate"
  BY DEF Steady, Locking
<1>6. CASE Free(k, Service)
  <2>1. lock' = Locked(lock, {k}, Service)
    BY <1>6 DEF ServiceLock
  <2>2. /\ \A j \in {k} : lock'[j] = [owner |-> Service, count |-> lock[j].count + 1]
        /\ \A j \in Keys \ {k} : lock'[j] = lock[j]
    <3>1. /\ \A j \in {k} : Locked(lock, {k}, Service)[j] = [owner |-> Service, count |-> lock[j].count + 1]
          /\ \A j \in Keys \ {k} : Locked(lock, {k}, Service)[j] = lock[j]
      BY <1>4, LockedParts
    <3> HIDE DEF k
    <3> QED
      BY <2>1, <3>1
  <2>3. lock'[k].owner = Service
    BY <2>2
  <2> HIDE DEF k
  <2> QED
    BY <1>1, <1>2, <1>3, <2>2, <2>3, ServiceKeen
<1>7. CASE ~ Free(k, Service)
  <2>1. UNCHANGED lock
    BY <1>7 DEF ServiceLock
  <2>2. Others(Service) /\ Unreset' /\ \A d \in Clients : Confirmed(d)' => Confirmed(d)
    BY <1>2, ServiceIsThread, ConfirmedKept DEF Keen, Usual, Unreset
  <2> HIDE DEF Others
  <2> QED
    BY <1>2, <2>1, <2>2, ServiceIsThread, PlainKeen
<1> QED
  BY <1>6, <1>7

\* Entries that leave the front map, with their listeners if nobody else has the key.
LEMMA LeavesTends ==
    ASSUME Steady, NEW t \in Threads, UNCHANGED strategy, front \in [Keys -> Versions], NEW S \in SUBSET Keys,
           NEW T \in SUBSET S, front' = Without(front, S), listening' = listening \ Unregistered(T, t)
    PROVE  Tends(t)
<1>1. \A k \in Keys : front'[k] = IF k \in S THEN Absent ELSE front[k]
  BY WithoutParts
<1>2. \A k \in Unregistered(T, t) : k \in S /\ lock[k].owner \in {None, t} /\ strategy = "present"
  BY DEF Unregistered, Free
<1>3. strategy = "present" => target # "all"
  BY DEF Steady, Suited
<1> QED
  BY <1>1, <1>2, <1>3 DEF Tends

LEMMA ValidateKeen ==
    ASSUME Keen, Steady, Steady', Validate
    PROVE  Keen'
<1> DEFINE k == svc.event.key
<1>1. /\ k \in Keys /\ svc.at = "validate" /\ lock' = Released(lock, {k})
      /\ UNCHANGED <<mode, strategy, inbox, list, job>>
  BY ServiceHas DEF Validate, peerVars
<1>2. lock \in LockMaps /\ front \in [Keys -> Versions]
  BY TypesGiven DEF Steady, Typed
<1>3. lock[k].owner = Service /\ lock[k].count = 1
  BY <1>1 DEF Steady, Locking
<1>4. /\ lock'[k] = Unlocked
      /\ \A j \in Keys \ {k} : lock'[j] = lock[j]
  <2>1. {k} \in SUBSET Keys /\ \A j \in {k} : lock[j].count >= 1 /\ lock[j].count = 1
    BY <1>1, <1>3
  <2> QED
    BY <1>1, <1>2, <2>1, ReleasedParts
<1>5. Tends(Service)
  <2>1. CASE UNCHANGED <<front, listening>>
    BY <1>1, <2>1 DEF Tends
  <2>2. CASE /\ front' = Without(front, {k})
             /\ listening' = listening \ Unregistered({k} \cap Cached(front), Service)
    <3> DEFINE S == {k}
               T == {k} \cap Cached(front)
    <3>1. S \in SUBSET Keys /\ T \in SUBSET S
      BY <1>1
    <3>2. front' = Without(front, S) /\ listening' = listening \ Unregistered(T, Service)
      BY <2>2
    <3> HIDE DEF S, T
    <3> QED
      BY <1>1, <1>2, <3>1, <3>2, ServiceIsThread, LeavesTends
  <2> QED
    BY <2>1, <2>2 DEF Validate
<1>6. lock'[k].owner \in {None, Service}
  BY <1>4 DEF Unlocked
<1> HIDE DEF k
<1> QED
  BY <1>1, <1>4, <1>5, <1>6, ServiceKeen

LEMMA FindAddKeen ==
    ASSUME Keen, Steady, Steady', Find \/ Add
    PROVE  Keen'
<1>1. UNCHANGED <<mode, front, listening, strategy, inbox, lock, list, job>>
  BY DEF Find, Add, mapVars, ctrlVars, peerVars
<1>2. Others(Service) /\ Unreset' /\ \A d \in Clients : Confirmed(d)' => Confirmed(d)
  BY <1>1, ServiceIsThread, ConfirmedKept DEF Keen, Usual, Unreset
<1> HIDE DEF Others
<1> QED
  BY <1>1, <1>2, ServiceIsThread, PlainKeen

-----------------------------------------------------------------------------
(***************************************************************************)
(* The steps of the clients that only move on.                             *)
(***************************************************************************)
\* A client and the others: what they hear while the inbox stays as it is.
LEMMA QuietHas ==
    ASSUME Keen, UNCHANGED inbox, NEW c \in Clients, Others(c)
    PROVE  Unreset' /\ c \in Threads /\ \A d \in Clients : d # c => (Confirmed(d)' => Confirmed(d))
<1>1. \A d \in Clients : d # c => (Confirmed(d)' => Confirmed(d))
  BY ConfirmedKept DEF Others
<1> QED
  BY <1>1, ServiceIsThread DEF Keen, Usual, Unreset

LEMMA StartKeen ==
    ASSUME Keen, Steady, Steady', NEW c \in Clients, NEW op \in Operations,
           NEW a \in {"lock", "ensure", "locks", "close"}, NEW K \in SUBSET Keys, Start(c, op, a, K),
           a = "locks" => op = "putAll"
    PROVE  Keen'
<1>1. /\ job[c].at = "idle" /\ op \in mode.ops
      /\ UNCHANGED <<mode, front, listening, strategy, lock, list, inbox>>
  BY DEF Start, mapVars, peerVars
<1>2. a \in Places
  BY DEF Places
<1>3. Working' /\ Begins(c, op, a, K)
  BY <1>2, StartEffect DEF Steady, Typed
<1>4. /\ Others(c) /\ job'[c].op = op /\ job'[c].at = a /\ job'[c].locked = {}
      /\ job'[c].evicted = {} /\ job'[c].reply = "no"
      /\ job'[c].all => op \in {"put", "putAll"} /\ strategy = "all"
  BY <1>3 DEF Begins
<1>5. job[c].locked = {} /\ job[c].evicted = {} /\ \A k \in Keys : list[k] # c
  BY <1>1, IdleHasNothing
<1>6. Unreset' /\ c \in Threads /\ \A d \in Clients : d # c => (Confirmed(d)' => Confirmed(d))
  BY <1>1, <1>4, QuietHas
<1>7. Tracks(c)'
  BY <1>1, <1>4, <1>5 DEF Tracks, Filling
<1> HIDE DEF Others
<1> QED
  BY <1>1, <1>4, <1>5, <1>6, <1>7, PlainKeen

\* A step from one place to another that hears nothing new.
LEMMA MoveKeen ==
    ASSUME Keen, Steady, Steady', NEW c \in Clients, NEW a, Moves(c, a),
           UNCHANGED <<mode, front, listening, strategy, lock, list, inbox>>,
           a # "ensuring",
           job[c].op \in {"get", "getAll"} /\ a \in Filling \cup {"locks", "front"}
              => job[c].at \in Filling \cup {"locks", "front"} \/ target # "all",
           job[c].op = "get" /\ a \in Filling \cup {"registering"} => job[c].at \in Filling
    PROVE  Keen'
<1>1. /\ Others(c) /\ job'[c].op = job[c].op /\ job'[c].all = job[c].all /\ job'[c].at = a
      /\ job'[c].locked = job[c].locked /\ job'[c].evicted = job[c].evicted /\ job'[c].reply = job[c].reply
  BY DEF Moves, Goes
<1>2. Unreset' /\ c \in Threads /\ \A d \in Clients : d # c => (Confirmed(d)' => Confirmed(d))
  BY <1>1, QuietHas
<1>3. Tracks(c)'
  BY <1>1, MoveTracks
<1> HIDE DEF Others
<1> QED
  BY <1>1, <1>2, <1>3, PlainKeen

LEMMA LocksDoneKeen ==
    ASSUME Sound, Keen, Steady, Steady', NEW c \in Clients, LocksDone(c)
    PROVE  Keen'
<1>1. /\ job[c].at = "locks" /\ UNCHANGED <<mode, front, listening, lock, list, inbox>>
      /\ job[c].op \in {"getAll", "putAll"}
  BY PlaceOps DEF LocksDone, ctrlVars, peerVars
<1>2. job' = [job EXCEPT ![c].at = "ask"] /\ UNCHANGED strategy
  BY SoundHas DEF LocksDone
<1>3. Moves(c, "ask")
  BY <1>2, MoveEffect DEF Places, Steady, Typed
<1>4. job[c].op = "get" /\ "ask" \in Filling \cup {"registering"} => job[c].at \in Filling
  BY <1>1
<1>5. job[c].at \in Filling \cup {"locks", "front"} /\ "ask" # "ensuring"
  BY <1>1
<1> HIDE DEF Moves
<1> QED
  BY <1>1, <1>2, <1>3, <1>4, <1>5, MoveKeen

LEMMA CloseFailsKeen ==
    ASSUME Keen, Steady, Steady', NEW c \in Clients, CloseFails(c)
    PROVE  Keen'
<1>1. /\ job[c].op = "clear" /\ job' = [job EXCEPT ![c].at = "ask"]
      /\ UNCHANGED <<mode, front, listening, strategy, lock, list, inbox>>
  BY PlaceOps DEF CloseFails, mapVars, ctrlVars, peerVars
<1>2. Moves(c, "ask")
  BY <1>1, MoveEffect DEF Places, Steady, Typed
<1>3. /\ job[c].op \notin {"get", "getAll"} /\ "ask" # "ensuring"
      /\ job[c].op = "get" /\ "ask" \in Filling \cup {"registering"} => job[c].at \in Filling
  BY <1>1
<1> HIDE DEF Moves
<1> QED
  BY <1>1, <1>2, <1>3, MoveKeen

LEMMA JudgeKeen ==
    ASSUME Keen, Steady, Steady', NEW c \in Clients, Judge(c)
    PROVE  Keen'
<1> DEFINE a == IF job[c].locked = {} THEN "release" ELSE "front"
<1>1. /\ job[c].op = "getAll"
      /\ job[c].at = "finish" \/ (job[c].at = "asked" /\ job[c].reply = "ok")
      /\ Goes(c, a, job[c].locked, job[c].evicted, job[c].reply)
      /\ UNCHANGED <<mode, strategy, front, listening, lock, list, inbox>>
  BY JudgeEffect DEF Judge, Steady, Typed, mapVars, peerVars
<1>2. /\ a # "ensuring" /\ job[c].at \in Filling \cup {"locks", "front"} /\ job[c].op # "get"
      /\ Moves(c, a)
  BY <1>1 DEF Moves, Filling
<1> HIDE DEF a, Moves
<1> QED
  BY <1>1, <1>2, MoveKeen

LEMMA OpenKeen ==
    ASSUME Keen, Steady, Steady', NEW c \in Clients, Open(c)
    PROVE  Keen'
<1>1. /\ job[c].op = "clear" /\ job' = [job EXCEPT ![c] = IdleJob]
      /\ UNCHANGED <<mode, front, listening, strategy, lock, list, inbox>>
  BY DEF Open, mapVars, peerVars
<1>2. job[c].locked = {} /\ job[c].evicted = {}
  BY <1>1, ClearHas
<1>3. Others(c) /\ job'[c] = IdleJob
  BY <1>1, EndsEffect DEF Ends, Steady, Typed
<1>4. Tracks(c)' /\ job'[c].op = "none" /\ job'[c].evicted = {} /\ job'[c].locked = {} /\ job'[c].at = "idle"
  BY <1>3, IdleTracks
<1>5. Unreset' /\ c \in Threads /\ \A d \in Clients : d # c => (Confirmed(d)' => Confirmed(d))
  BY <1>1, <1>3, QuietHas
<1> HIDE DEF Others
<1> QED
  BY <1>1, <1>2, <1>3, <1>4, <1>5, PlainKeen

LEMMA RegisteredKeen ==
    ASSUME Keen, Steady, Steady', NEW c \in Clients, Registered(c)
    PROVE  Keen'
<1> DEFINE a == IF job[c].keys \subseteq Primed(c) THEN "finish" ELSE "ask"
<1>1. /\ job[c].at = "registering" /\ job[c].reply = "ok"
      /\ Goes(c, a, job[c].locked, job[c].evicted, "no")
      /\ UNCHANGED <<mode, front, listening, strategy, lock, list, inbox>>
  BY RegisteredEffect DEF Registered, mapVars, peerVars, Steady
<1>2. /\ Others(c) /\ job'[c].op = job[c].op /\ job'[c].all = job[c].all /\ job'[c].at = a
      /\ job'[c].locked = job[c].locked /\ job'[c].evicted = job[c].evicted
  BY <1>1 DEF Goes
<1>3. a \in {"finish", "ask"}
  OBVIOUS
<1> HIDE DEF a
<1>4. Unreset' /\ c \in Threads /\ \A d \in Clients : d # c => (Confirmed(d)' => Confirmed(d))
  BY <1>1, <1>2, QuietHas
<1>5. target # "all" /\ Confirmed(c)
  BY <1>1 DEF Steady, Suited, Confirmed
<1>6. Tracks(c)'
  BY <1>1, <1>2, <1>3, <1>5, MoveTracks
<1>7. job'[c].at # "ensuring"
  BY <1>2, <1>3
<1> HIDE DEF Others
<1> QED
  BY <1>1, <1>2, <1>4, <1>6, <1>7, PlainKeen

\* A step that asks the peer.
LEMMA AskKeen ==
    ASSUME Keen, Steady, Steady', NEW c \in Clients, NEW a \in {"asked", "registering"}, Moves(c, a),
           NEW o \in {"ok", "error"}, Answering(c, o),
           \A i \in (Len(inbox) + 1)..Len(inbox') : inbox'[i].type # "truncate",
           UNCHANGED <<mode, front, listening, strategy, lock, list>>,
           a = "asked" => job[c].at = "ask",
           a = "registering" => job[c].at = "register" /\ o = "error"
    PROVE  Keen'
<1>1. /\ Others(c) /\ job'[c].op = job[c].op /\ job'[c].all = job[c].all /\ job'[c].at = a
      /\ job'[c].locked = job[c].locked /\ job'[c].evicted = job[c].evicted /\ job'[c].reply = job[c].reply
  BY DEF Moves, Goes
<1>2. Unreset'
  BY UnresetGrows DEF Answering, Steady, Keen, Usual
<1>3. \A d \in Clients : d # c => (Confirmed(d)' => Confirmed(d))
  BY <1>1, ConfirmedAsks DEF Steady, Others
<1>4. CASE a = "asked"
  <2>1. Tracks(c)'
    BY <1>1, <1>4, MoveTracks DEF Filling
  <2> HIDE DEF Others
  <2> QED
    BY <1>1, <1>2, <1>3, <1>4, <2>1, ServiceIsThread, PlainKeen
<1>5. CASE a = "registering"
  <2>1. ~ Confirmed(c)
    <3>1. job[c].reply # "ok" /\ ~ Waits(c)
      BY <1>5, PlaceOps DEF ShapedJob, Waiting, Waits
    <3>2. \A i \in Answers : inbox[i].client # c
      BY <3>1 DEF Steady, Answered
    <3> QED
      BY <3>1, <3>2 DEF Confirmed, Reply
  <2>2. ~ Confirmed(c)'
    BY <1>1, <1>5, <2>1, ConfirmedAsks DEF Steady
  <2>3. Tracks(c)'
    BY <1>1, <1>5, <2>2, MoveTracks DEF Filling
  <2> HIDE DEF Others
  <2> QED
    BY <1>1, <1>2, <1>3, <1>5, <2>3, ServiceIsThread, PlainKeen
<1> QED
  BY <1>4, <1>5

LEMMA AskReadKeen ==
    ASSUME Keen, Steady, Steady', NEW c \in Clients, AskRead(c)
    PROVE  Keen'
<1>1. job[c].at = "ask" /\ UNCHANGED <<mode, front, listening, strategy, lock, list>>
  BY DEF AskRead, mapVars, ctrlVars
<1>2. PICK o \in {"ok", "error"} : Answering(c, o)
  BY AskReadEffect DEF Steady
<1>3. Moves(c, "asked") /\ \A i \in (Len(inbox) + 1)..Len(inbox') : inbox'[i].type # "truncate"
  BY AskReadEffect DEF Steady
<1> HIDE DEF Moves, Answering
<1> QED
  BY <1>1, <1>2, <1>3, AskKeen

LEMMA AskWriteKeen ==
    ASSUME Keen, Steady, Steady', NEW c \in Clients, AskWrite(c)
    PROVE  Keen'
<1>1. job[c].at = "ask" /\ UNCHANGED <<mode, front, listening, strategy, lock, list>>
  BY DEF AskWrite, mapVars, ctrlVars
<1>2. ShapedJob(job[c])
  BY PlaceOps
<1>3. PICK o \in {"ok", "error"} : Answering(c, o)
  BY <1>2, AskWriteEffect DEF Steady
<1>4. Moves(c, "asked") /\ \A i \in (Len(inbox) + 1)..Len(inbox') : inbox'[i].type # "truncate"
  BY <1>2, AskWriteEffect DEF Steady, OnlyChanges
<1> HIDE DEF Moves, Answering
<1> QED
  BY <1>1, <1>3, <1>4, AskKeen

LEMMA AskFailsKeen ==
    ASSUME Keen, Steady, Steady', NEW c \in Clients, AskFails(c)
    PROVE  Keen'
<1> DEFINE a == IF job[c].at = "ask" THEN "asked" ELSE "registering"
<1>1. /\ job[c].at \in {"register", "ask"}
      /\ UNCHANGED <<mode, front, listening, strategy, lock, list>>
  BY DEF AskFails, mapVars, ctrlVars
<1>2. Moves(c, a) /\ Answering(c, "error") /\ Len(inbox') = Len(inbox) + 1
  BY AskFailsEffect DEF Steady
<1>3. \A i \in (Len(inbox) + 1)..Len(inbox') : inbox'[i].type # "truncate"
  BY <1>2 DEF Answering, Reply, Steady, Typed, Incoming
<1>4. a \in {"asked", "registering"} /\ (a = "asked" => job[c].at = "ask")
      /\ (a = "registering" => job[c].at = "register")
  BY <1>1
<1> HIDE DEF a, Moves, Answering
<1> QED
  BY <1>1, <1>2, <1>3, <1>4, AskKeen

LEMMA RegisterKeen ==
    ASSUME Sound, Keen, Steady, Steady', NEW c \in Clients, Register(c)
    PROVE  Keen'
<1>1. /\ job[c].at = "register" /\ listening' = listening \cup job[c].locked
      /\ UNCHANGED <<mode, front, strategy, lock, list>>
  BY DEF Register, ctrlVars
<1>2. /\ Moves(c, "registering")
      /\ \A i \in (Len(inbox) + 1)..Len(inbox') : inbox'[i].type # "truncate"
  BY RegisterEffect DEF Steady
<1>3. PICK o \in {"ok", "error"} : Answering(c, o)
  BY RegisterEffect DEF Steady
<1>4. /\ Others(c) /\ job'[c].op = job[c].op /\ job'[c].all = job[c].all /\ job'[c].at = "registering"
      /\ job'[c].locked = job[c].locked /\ job'[c].evicted = job[c].evicted /\ job'[c].reply = job[c].reply
  BY <1>2 DEF Moves, Goes
<1>5. Unreset'
  BY <1>2, <1>3, UnresetGrows DEF Answering, Steady, Keen, Usual
<1>6. \A d \in Clients : d # c => (Confirmed(d)' => Confirmed(d))
  BY <1>3, <1>4, ConfirmedAsks DEF Steady, Others
<1>7. target # "all" /\ target' = target /\ Tracks(c)
  BY <1>1 DEF Steady, Suited, Keen, target
<1>8. job[c].op \in {"get", "getAll"} /\ job[c].op # "getAll"
  BY <1>1, <1>7, PlaceOps, SoundHas
<1>9. Tracks(c)'
  BY <1>1, <1>4, <1>7, <1>8 DEF Tracks, Filling
<1>10. Tends(c)
  BY <1>1 DEF Tends
<1> DEFINE S == {}
<1>11. /\ S \in SUBSET Keys /\ \A k \in Keys \ S : lock'[k] = lock[k]
       /\ \A k \in S : lock'[k].owner \in Clients =>
              /\ lock'[k].owner = c
              /\ k \in job'[c].locked \cup job'[c].evicted
              /\ lock'[k].count = IF k \in job'[c].locked \cap job'[c].evicted THEN 2 ELSE 1
       /\ \A k \in Keys \ S : /\ k \in job'[c].locked <=> k \in job[c].locked
                              /\ k \in job'[c].evicted <=> k \in job[c].evicted
  BY <1>1, <1>4
<1>12. /\ c \in Threads /\ UNCHANGED mode
       /\ job'[c].op \in {job[c].op, "none"} \cup mode.ops
       /\ target = "all" => job'[c].evicted = {}
       /\ job'[c].at = "ensuring" => job[c].at = "ensuring"
  BY <1>1, <1>4, <1>7, ServiceIsThread
<1>13. \A d \in Clients : d # c => /\ \A k \in Keys : list'[k] = d => list[k] = d
                                   /\ Confirmed(d)' => Confirmed(d)
  BY <1>1, <1>6
<1>14. Others(c)
  BY <1>4
<1> HIDE DEF S, Others
<1> QED
  BY <1>5, <1>9, <1>10, <1>11, <1>12, <1>13, <1>14, KeenStep

LEMMA EnsureKeen ==
    ASSUME Keen, Steady, Steady', NEW c \in Clients, Ensure(c)
    PROVE  Keen'
<1>1. /\ job[c].at = "ensure" /\ UNCHANGED <<mode, front, lock, list>> /\ target' = target
      /\ job[c].op \in {"get", "getAll"} /\ job[c].evicted = {} /\ Tracks(c) /\ job[c].locked \subseteq Keys
  BY PlaceOps, EvictsLate DEF Ensure, ctrlVars, Listing, Keen, Jobs, target
<1>2. ASSUME NEW a \in Places, job' = [job EXCEPT ![c].at = a]
      PROVE  /\ Others(c) /\ job'[c].op = job[c].op /\ job'[c].all = job[c].all /\ job'[c].at = a
             /\ job'[c].locked = job[c].locked /\ job'[c].evicted = job[c].evicted /\ job'[c].reply = job[c].reply
  BY <1>2, MoveEffect DEF Moves, Goes, Steady, Typed
<1> DEFINE S == {}
<1>3. ASSUME job'[c].locked = job[c].locked, job'[c].evicted = job[c].evicted
      PROVE  /\ S \in SUBSET Keys /\ \A k \in Keys \ S : lock'[k] = lock[k]
             /\ \A k \in S : lock'[k].owner \in Clients =>
                    /\ lock'[k].owner = c
                    /\ k \in job'[c].locked \cup job'[c].evicted
                    /\ lock'[k].count = IF k \in job'[c].locked \cap job'[c].evicted THEN 2 ELSE 1
             /\ \A k \in Keys \ S : /\ k \in job'[c].locked <=> k \in job[c].locked
                                    /\ k \in job'[c].evicted <=> k \in job[c].evicted
  BY <1>1, <1>3
<1> HIDE DEF S
<1>4. CASE target = "all" /\ strategy # "all"
  <2>1. /\ \A d \in Clients : job[d].at # "ensuring"
        /\ job' = [job EXCEPT ![c].at = "ensuring"] /\ listening' = Keys /\ UNCHANGED strategy
    BY <1>4 DEF Ensure
  <2>2. PICK o \in Outcomes : inbox' = Append(inbox, Reply(c, o))
    BY <1>4 DEF Ensure
  <2>3. o \in {"ok", "error"} /\ Reply(c, o) \in Msgs
    BY MessageParts DEF Outcomes
  <2>4. Grows /\ Len(inbox') = Len(inbox) + 1 /\ inbox'[Len(inbox) + 1] = Reply(c, o)
    BY <2>2, <2>3, InboxAppend DEF Steady, Typed, Incoming
  <2>5. Answering(c, o) /\ \A i \in (Len(inbox) + 1)..Len(inbox') : inbox'[i].type # "truncate"
    BY <2>4 DEF Answering, Reply, Steady, Typed, Incoming
  <2>6. /\ Others(c) /\ job'[c].op = job[c].op /\ job'[c].all = job[c].all /\ job'[c].at = "ensuring"
        /\ job'[c].locked = job[c].locked /\ job'[c].evicted = job[c].evicted /\ job'[c].reply = job[c].reply
    BY <1>2, <2>1 DEF Places
  <2>7. Unreset'
    BY <2>4, <2>5, UnresetGrows DEF Steady, Keen, Usual
  <2>8. Tends(c)
    BY <1>1, <2>1 DEF Tends, Steady, Typed, TypeOK
  <2>9. Usual'
    BY <1>1, <2>6, <2>7, ServiceIsThread, UsualKept DEF Keen
  <2>10. Counted'
    BY <1>1, <1>3, <2>6, ServiceIsThread, CountedKept DEF Keen
  <2>11. Heeded'
    BY <1>1, <2>8, ServiceIsThread, HeededKept DEF Keen
  <2>12. Alone'
    BY <2>1, <2>6 DEF Alone, Others
  <2>13. Tracks(c)'
    BY <1>1, <1>4, <2>1, <2>6 DEF Tracks, Filling
  <2>14. ASSUME NEW d \in Clients, d # c PROVE Tracks(d)'
    <3>1. job'[d] = job[d] /\ Tracks(d)
      BY <2>6, <2>14 DEF Others, Keen
    <3>2. Confirmed(d)' => Confirmed(d)
      BY <2>3, <2>5, <2>14, <3>1, ConfirmedAsks DEF Steady
    <3> QED
      BY <1>1, <2>8, <2>14, <3>1, <3>2, ServiceIsThread, TracksKept
  <2> QED
    BY <2>9, <2>10, <2>11, <2>12, <2>13, <2>14 DEF Keen
<1>5. CASE ~ (target = "all" /\ strategy # "all")
  <2> DEFINE a == AfterEnsure(c)
  <2>1. strategy' = ensured /\ job' = [job EXCEPT ![c].at = a] /\ UNCHANGED <<inbox, listening>>
    BY <1>5 DEF Ensure
  <2>2. a \in {"locks", "register", "ask"} /\ a \in Places /\ (a = "ask" => target = "all")
    BY DEF AfterEnsure, Places
  <2> HIDE DEF a
  <2>3. /\ Others(c) /\ job'[c].op = job[c].op /\ job'[c].all = job[c].all /\ job'[c].at = a
        /\ job'[c].locked = job[c].locked /\ job'[c].evicted = job[c].evicted /\ job'[c].reply = job[c].reply
    BY <1>2, <2>1, <2>2
  <2>4. (target = "all" => strategy' = "all" /\ strategy = "all") /\ (strategy = "all" => target = "all")
    BY <1>5, <2>1 DEF ensured, Steady, Suited
  <2>5. Tends(c)
    BY <1>1, <2>1, <2>4 DEF Tends
  <2>6. Unreset' /\ c \in Threads /\ \A d \in Clients : d # c => (Confirmed(d)' => Confirmed(d))
    BY <2>1, <2>3, QuietHas
  <2>7. Tracks(c)'
    <3>1. target = "all" => listening' = Keys
      BY <2>1, <2>4 DEF Keen, Heeded
    <3> QED
      BY <1>1, <2>1, <2>2, <2>3, <2>4, <3>1 DEF Tracks, Filling
  <2>8. job'[c].at # "ensuring" /\ (target = "all" => job'[c].evicted = {})
    BY <1>1, <2>2, <2>3
  <2> HIDE DEF Others
  <2> QED
    BY <1>1, <1>3, <2>1, <2>3, <2>5, <2>6, <2>7, <2>8, KeenStep
<1> QED
  BY <1>4, <1>5

LEMMA EnsuredKeen ==
    ASSUME Keen, Steady, Steady', NEW c \in Clients, Ensured(c)
    PROVE  Keen'
<1>1. /\ job[c].at = "ensuring" /\ strategy' = "all" /\ UNCHANGED <<mode, front, listening, lock, list, inbox>>
      /\ target' = target /\ Goes(c, AfterEnsure(c), job[c].locked, job[c].evicted, "no")
  BY EnsuredEffect DEF Ensured, ctrlVars, peerVars, target, Steady, Typed
<1>2. /\ Others(c) /\ job'[c].op = job[c].op /\ job'[c].all = job[c].all /\ job'[c].at # "ensuring"
      /\ job'[c].locked = job[c].locked /\ job'[c].evicted = job[c].evicted
  BY <1>1, AfterEnsureIsPlace DEF Goes
<1>3. target = "all" /\ listening = Keys
  BY <1>1 DEF Steady, Suited, Keen, Tracks
<1>4. \A d \in Clients : job'[d].at # "ensuring"
  BY <1>1, <1>2 DEF Keen, Alone, Others
<1>5. Usual'
  <2>1. Unreset' /\ c \in Threads
    BY <1>1, <1>2, QuietHas
  <2>2. job'[c].evicted = {}
    BY <1>2, <1>3 DEF Keen, Usual
  <2> QED
    BY <1>1, <1>2, <2>1, <2>2, UsualKept DEF Keen
<1>6. Counted'
  <2>1. \A d \in Clients : job'[d].locked = job[d].locked /\ job'[d].evicted = job[d].evicted
    BY <1>2 DEF Others
  <2> QED
    BY <1>1, <2>1 DEF Keen, Counted
<1>7. Heeded'
  BY <1>1, <1>3 DEF Heeded
<1>8. Alone'
  BY <1>4 DEF Alone
<1>9. ASSUME NEW d \in Clients PROVE Tracks(d)'
  <2>1. job'[d].locked \subseteq Keys /\ job'[d].evicted = {}
    BY <1>1, <1>3, <1>5, PlaceOps DEF Steady, Typed, Working, Jobs, Usual
  <2> QED
    BY <1>1, <1>3, <1>4, <2>1 DEF Tracks
<1> QED
  BY <1>5, <1>6, <1>7, <1>8, <1>9 DEF Keen

-----------------------------------------------------------------------------
(***************************************************************************)
(* The steps of the clients that change locks, listeners or the front map. *)
(***************************************************************************)
\* A step that touches no lock.
LEMMA FreeKeen ==
    ASSUME Keen, Steady, Steady', NEW c \in Clients, Others(c), UNCHANGED <<mode, inbox, lock>>, Tends(c),
           job'[c].locked = job[c].locked, job'[c].evicted = job[c].evicted,
           job'[c].op \in {job[c].op, "none"} \cup mode.ops, job'[c].at # "ensuring", Tracks(c)',
           \A d \in Clients : d # c => \A k \in Keys : list'[k] = d => list[k] = d
    PROVE  Keen'
<1>1. Unreset' /\ c \in Threads /\ \A d \in Clients : d # c => (Confirmed(d)' => Confirmed(d))
  BY QuietHas
<1>2. target = "all" => job'[c].evicted = {}
  BY DEF Keen, Usual
<1> DEFINE S == {}
<1>3. /\ S \in SUBSET Keys /\ \A k \in Keys \ S : lock'[k] = lock[k]
      /\ \A k \in S : lock'[k].owner \in Clients =>
              /\ lock'[k].owner = c
              /\ k \in job'[c].locked \cup job'[c].evicted
              /\ lock'[k].count = IF k \in job'[c].locked \cap job'[c].evicted THEN 2 ELSE 1
      /\ \A k \in Keys \ S : /\ k \in job'[c].locked <=> k \in job[c].locked
                             /\ k \in job'[c].evicted <=> k \in job[c].evicted
  OBVIOUS
<1> HIDE DEF S, Others
<1> QED
  BY <1>1, <1>2, <1>3, KeenStep

\* A step that ends an operation: all that its client has locked is unlocked.
LEMMA EndKeen ==
    ASSUME Keen, Steady, Steady', NEW c \in Clients, Ends(c), UNCHANGED <<mode, inbox>>, Tends(c),
           \A k \in job[c].locked \cup job[c].evicted : lock'[k] = Unlocked,
           \A k \in Keys \ (job[c].locked \cup job[c].evicted) : lock'[k] = lock[k],
           \A d \in Clients : d # c => \A k \in Keys : list'[k] = d => list[k] = d
    PROVE  Keen'
<1>1. Others(c) /\ job'[c] = IdleJob
  BY DEF Ends
<1>2. Tracks(c)' /\ job'[c].op = "none" /\ job'[c].evicted = {} /\ job'[c].locked = {} /\ job'[c].at = "idle"
  BY <1>1, IdleTracks
<1>3. Unreset' /\ c \in Threads /\ \A d \in Clients : d # c => (Confirmed(d)' => Confirmed(d))
  BY <1>1, QuietHas
<1> DEFINE S == job[c].locked \cup job[c].evicted
<1>4. S \in SUBSET Keys
  BY PlaceOps DEF Jobs
<1>5. /\ \A k \in Keys \ S : lock'[k] = lock[k]
      /\ \A k \in S : lock'[k].owner \notin Clients
      /\ \A k \in Keys \ S : /\ k \in job'[c].locked <=> k \in job[c].locked
                             /\ k \in job'[c].evicted <=> k \in job[c].evicted
  BY <1>2, Parties DEF Unlocked
<1> HIDE DEF S, Others
<1> QED
  BY <1>1, <1>2, <1>3, <1>4, <1>5, KeenStep

\* What is locked once and released is unlocked.
LEMMA ReleaseCounted ==
    ASSUME Keen, Steady, NEW c \in Clients, NEW S \in SUBSET job[c].locked, job[c].evicted = {},
           lock' = Released(lock, S)
    PROVE  /\ \A k \in S : lock'[k] = Unlocked
           /\ \A k \in Keys \ S : lock'[k] = lock[k]
<1>1. job[c].locked \subseteq Keys /\ lock \in LockMaps
  BY PlaceOps, TypesGiven DEF Jobs, Steady, Typed
<1>2. \A k \in S : lock[k].owner = c
  BY DEF Steady, Locking
<1>3. \A k \in S : lock[k].count = 1
  BY <1>1, <1>2 DEF Keen, Counted
<1>4. S \in SUBSET Keys /\ \A k \in S : lock[k].count >= 1
  BY <1>1, <1>3
<1> QED
  BY <1>1, <1>3, <1>4, ReleasedParts

LEMMA ExpireKeen ==
    ASSUME Keen, Steady, Steady', NEW c \in Clients, NEW k \in Keys, Expire(c, k)
    PROVE  Keen'
<1>1. /\ job[c].at = "idle" /\ front' = Without(front, {k}) /\ listening' = listening \ Unregistered({k}, c)
      /\ UNCHANGED <<mode, strategy, lock, list, inbox, job>>
  BY DEF Expire, ctrlVars, peerVars
<1>2. job'[c] = IdleJob /\ Others(c) /\ c \in Threads
  BY <1>1, IdleHasNothing, ServiceIsThread DEF Others
<1>3. Tends(c)
  <2> DEFINE S == {k}
  <2>1. S \in SUBSET Keys /\ S \in SUBSET S /\ front' = Without(front, S) /\ listening' = listening \ Unregistered(S, c)
    BY <1>1
  <2> HIDE DEF S
  <2> QED
    BY <1>1, <1>2, <2>1, LeavesTends, TypesGiven DEF Steady, Typed
<1>4. Tracks(c)' /\ job'[c].op = "none" /\ job'[c].at = "idle"
  BY <1>2, IdleTracks
<1> HIDE DEF Others
<1> QED
  BY <1>1, <1>2, <1>3, <1>4, FreeKeen

LEMMA LockKeen ==
    ASSUME Keen, Steady, Steady', NEW c \in Clients, Lock(c)
    PROVE  Keen'
<1> DEFINE S == job[c].keys
<1>1. /\ job[c].at = "lock" /\ lock' = Locked(lock, S, c) /\ \A k \in S : Free(k, c)
      /\ UNCHANGED <<mode, front, listening, strategy, list, inbox>>
  BY DEF Lock, mapVars, peerVars
<1>2. /\ job[c].op \in Ones /\ job[c] \in Jobs /\ ShapedJob(job[c])
  BY <1>1, PlaceOps
<1>3. job[c].locked = {} /\ job[c].evicted = {} /\ S \in SUBSET Keys
  BY <1>1, <1>2 DEF ShapedJob, ShapeOfOne, Jobs
<1>4. Others(c) /\ job'[c].op = job[c].op /\ job'[c].all = job[c].all /\ job'[c].at = "assign"
      /\ job'[c].locked = S /\ job'[c].evicted = job[c].evicted
  BY LockEffect DEF Goes, Steady, Typed
<1> HIDE DEF S
<1>5. /\ \A k \in S : lock'[k].owner = c /\ lock'[k].count = lock[k].count + 1
      /\ \A k \in Keys \ S : lock'[k] = lock[k]
  BY <1>1, <1>3, LockOnce
<1>6. \A k \in S : lock[k].owner = None
  BY <1>1, <1>3 DEF Free, Keen, Counted
<1>7. \A k \in S : lock'[k].count = 1
  BY <1>3, <1>5, <1>6, LocksGiven
<1>8. Tends(c)
  BY <1>1 DEF Tends
<1>9. Unreset' /\ c \in Threads /\ \A d \in Clients : d # c => (Confirmed(d)' => Confirmed(d))
  BY <1>1, <1>4, QuietHas
<1>10. \A k \in Keys : list[k] # c
  BY <1>1 DEF Steady, Listed, Listing
<1>11. Tracks(c)'
  BY <1>1, <1>3, <1>4, <1>10 DEF Tracks, Keen, Filling
<1>12. \A k \in S : /\ k \in job'[c].locked \cup job'[c].evicted
                    /\ lock'[k].count = IF k \in job'[c].locked \cap job'[c].evicted THEN 2 ELSE 1
  BY <1>3, <1>4, <1>7
<1>13. \A k \in Keys \ S : /\ k \in job'[c].locked <=> k \in job[c].locked
                           /\ k \in job'[c].evicted <=> k \in job[c].evicted
  BY <1>3, <1>4
<1> HIDE DEF Others
<1> QED
  BY <1>1, <1>3, <1>4, <1>5, <1>8, <1>9, <1>11, <1>12, <1>13, KeenStep

\* The list a put takes: it fills the front map only where it is listened to.
LEMMA PutLists ==
    ASSUME Keen, Steady, NEW c \in Clients, NEW k \in Keys, job[c].op \in {"put", "putAll"}, ListFor(c, k) = c
    PROVE  /\ k \in listening
           /\ target = "all" => strategy = "all"
<1>1. front[k] # Absent \/ job[c].all
  BY ListForParts DEF Fills
<1>2. job[c].all => strategy = "all"
  BY DEF Keen, Tracks
<1> QED
  BY <1>1, <1>2 DEF Keen, Heeded

LEMMA LockNextKeen ==
    ASSUME Keen, Steady, Steady', NEW c \in Clients, NEW k \in Keys, LockNext(c, k)
    PROVE  Keen'
<1> DEFINE L == IF Free(k, c) THEN job[c].locked \cup {k} ELSE job[c].locked
<1>1. /\ job[c].at = "locks" /\ k \notin job[c].locked
      /\ UNCHANGED <<mode, front, listening, strategy, inbox>>
  BY DEF LockNext, mapVars, peerVars
<1>2. job[c].evicted = {} /\ job[c].op \in {"getAll", "putAll"}
  BY <1>1, EvictsLate, PlaceOps DEF Listing
<1>3. Others(c) /\ job'[c].op = job[c].op /\ job'[c].all = job[c].all /\ job'[c].at = "locks"
      /\ job'[c].locked = L /\ job'[c].evicted = job[c].evicted
  BY LockNextEffect DEF Goes, Steady, Typed
<1>4. Tends(c)
  BY <1>1 DEF Tends
<1>5. Unreset' /\ c \in Threads /\ \A d \in Clients : d # c => (Confirmed(d)' => Confirmed(d))
  BY <1>1, <1>3, QuietHas
<1>6. CASE Free(k, c)
  <2>1. lock' = Locked(lock, {k}, c) /\ list' = [list EXCEPT ![k] = ListFor(c, k)]
    BY <1>6 DEF LockNext
  <2>2. list'[k] = ListFor(c, k) /\ \A j \in Keys \ {k} : list'[j] = list[j]
    BY <2>1, TypesGiven DEF Steady, Typed
  <2> DEFINE S == {k}
  <2>3. S \in SUBSET Keys /\ lock' = Locked(lock, S, c)
    BY <2>1
  <2> HIDE DEF S
  <2>4. /\ \A j \in S : lock'[j].owner = c /\ lock'[j].count = lock[j].count + 1
        /\ \A j \in Keys \ S : lock'[j] = lock[j]
    BY <2>3, LockOnce
  <2>5. lock[k].owner = None
    BY <1>1, <1>2, <1>6 DEF Free, Keen, Counted
  <2>6. \A j \in S : j = k /\ lock'[j].count = 1
    BY <2>4, <2>5, LocksGiven DEF S
  <2>7. \A d \in Clients : d # c => \A j \in Keys : list'[j] = d => list[j] = d
    BY <2>2, ListForParts, Parties
  <2>8. Tracks(c)'
    <3>1. job[c].op = "putAll" => \A j \in Keys : list'[j] = c =>
              /\ j \in listening' \/ (front'[j] = Absent /\ target = "present")
              /\ target = "all" => strategy' = "all"
      <4>1. SUFFICES ASSUME job[c].op = "putAll", NEW j \in Keys, list'[j] = c
                     PROVE  /\ j \in listening' \/ (front'[j] = Absent /\ target = "present")
                            /\ target = "all" => strategy' = "all"
        OBVIOUS
      <4>2. CASE j = k
        BY <1>1, <2>2, <4>1, <4>2, PutLists
      <4>3. CASE j # k
        BY <1>1, <2>2, <4>1, <4>3 DEF Keen, Tracks
      <4> QED
        BY <4>2, <4>3
    <3>2. Tracks(c) /\ target' = target
      BY <1>1 DEF Keen, target
    <3> QED
      BY <1>1, <1>2, <1>3, <3>1, <3>2 DEF Tracks, Filling
  <2>9. /\ \A j \in S : /\ j \in job'[c].locked \cup job'[c].evicted
                        /\ lock'[j].count = IF j \in job'[c].locked \cap job'[c].evicted THEN 2 ELSE 1
        /\ \A j \in Keys \ S : /\ j \in job'[c].locked <=> j \in job[c].locked
                               /\ j \in job'[c].evicted <=> j \in job[c].evicted
    BY <1>2, <1>3, <1>6, <2>6 DEF S
  <2>10. job'[c].evicted = {} /\ job'[c].at # "ensuring"
    BY <1>2, <1>3
  <2>11. \A j \in S : lock'[j].owner \in Clients =>
            /\ lock'[j].owner = c
            /\ j \in job'[c].locked \cup job'[c].evicted
            /\ lock'[j].count = IF j \in job'[c].locked \cap job'[c].evicted THEN 2 ELSE 1
    BY <2>4, <2>9
  <2>12. /\ S \in SUBSET Keys /\ (\A j \in Keys \ S : lock'[j] = lock[j])
         /\ c \in Clients => \A j \in Keys \ S : /\ j \in job'[c].locked <=> j \in job[c].locked
                                                 /\ j \in job'[c].evicted <=> j \in job[c].evicted
    BY <2>3, <2>4, <2>9
  <2>13. c \in Clients => /\ job'[c].op \in {job[c].op, "none"} \cup mode.ops
                          /\ target = "all" => job'[c].evicted = {}
                          /\ job'[c].at = "ensuring" => job[c].at = "ensuring"
                          /\ Tracks(c)'
    BY <1>3, <2>8, <2>10
  <2>14. Others(c) /\ UNCHANGED mode
    BY <1>1, <1>3
  <2> HIDE DEF Others, L
  <2> QED
    BY <1>4, <1>5, <2>7, <2>11, <2>12, <2>13, <2>14, KeenStep
<1>7. CASE ~ Free(k, c)
  <2>1. UNCHANGED <<lock, list>>
    BY <1>7 DEF LockNext
  <2>2. Tracks(c)'
    <3>1. Tracks(c) /\ target' = target
      BY <1>1 DEF Keen, target
    <3> QED
      BY <1>1, <1>2, <1>3, <2>1, <3>1 DEF Tracks, Filling
  <2>3. job'[c].locked = job[c].locked /\ job'[c].at # "ensuring"
    BY <1>3, <1>7
  <2> HIDE DEF Others, L
  <2> QED
    BY <1>1, <1>3, <1>4, <2>1, <2>2, <2>3, FreeKeen
<1> QED
  BY <1>6, <1>7

LEMMA AssignKeen ==
    ASSUME Keen, Steady, Steady', NEW c \in Clients, NEW k \in Keys, Assign(c, k)
    PROVE  Keen'
<1>1. /\ job[c].at = "assign" /\ job[c].keys = {k} /\ UNCHANGED <<mode, strategy, inbox>>
  BY DEF Assign, peerVars
<1>2. /\ job[c].op \in Ones /\ job[c] \in Jobs /\ ShapedJob(job[c])
  BY <1>1, PlaceOps
<1>3. job[c].locked = {k} /\ job[c].evicted = {}
  BY <1>1, <1>2 DEF ShapedJob, ShapeOfOne
<1>4. \A j \in Keys : list[j] # c
  BY <1>1 DEF Steady, Listed, Listing
<1>5. front \in [Keys -> Versions] /\ list \in [Keys -> Clients \cup {Ignore, None}]
  BY TypesGiven DEF Steady, Typed
<1>6. CASE job[c].op \in {"get", "containsKey"} /\ front[k] # Absent
  <2>1. /\ job' = [job EXCEPT ![c] = IdleJob] /\ lock' = Released(lock, {k})
        /\ UNCHANGED <<list, front, listening>>
    BY <1>6 DEF Assign
  <2>2. Ends(c)
    BY <2>1, EndsEffect DEF Steady, Typed
  <2>3. Tends(c)
    BY <1>1, <2>1 DEF Tends
  <2> DEFINE S == {k}
  <2>4. S \in SUBSET job[c].locked /\ lock' = Released(lock, S) /\ job[c].locked \cup job[c].evicted = S
    BY <1>3, <2>1
  <2> HIDE DEF S, Ends
  <2>5. (\A j \in S : lock'[j] = Unlocked) /\ \A j \in Keys \ S : lock'[j] = lock[j]
    BY <1>3, <2>4, ReleaseCounted
  <2> QED
    BY <1>1, <2>1, <2>2, <2>3, <2>4, <2>5, EndKeen
<1>7. CASE ~ (job[c].op \in {"get", "containsKey"} /\ front[k] # Absent)
  <2> DEFINE a == IF job[c].op = "get" THEN "ensure" ELSE "ask"
  <2>1. /\ list' = [list EXCEPT ![k] = ListFor(c, k)] /\ job' = [job EXCEPT ![c].at = a] /\ UNCHANGED lock
        /\ IF job[c].op = "remove"
           THEN /\ front' = Without(front, {k})
                /\ listening' = listening \ Unregistered({k} \cap Cached(front), c)
           ELSE UNCHANGED <<front, listening>>
    BY <1>7 DEF Assign
  <2>2. a \in {"ensure", "ask"} /\ a \in Places /\ (job[c].op = "get" => a = "ensure")
    BY DEF Places
  <2> HIDE DEF a
  <2>3. Moves(c, a)
    BY <2>1, <2>2, MoveEffect DEF Steady, Typed
  <2>4. /\ Others(c) /\ job'[c].op = job[c].op /\ job'[c].all = job[c].all /\ job'[c].at = a
        /\ job'[c].locked = job[c].locked /\ job'[c].evicted = job[c].evicted
    BY <2>3 DEF Moves, Goes
  <2>5. Tends(c)
    <3>1. CASE UNCHANGED <<front, listening>>
      BY <1>1, <3>1 DEF Tends
    <3>2. CASE /\ front' = Without(front, {k})
               /\ listening' = listening \ Unregistered({k} \cap Cached(front), c)
      <4> DEFINE S == {k}
                 T == {k} \cap Cached(front)
      <4>1. S \in SUBSET Keys /\ T \in SUBSET S /\ front' = Without(front, S)
            /\ listening' = listening \ Unregistered(T, c)
        BY <3>2
      <4> HIDE DEF S, T
      <4> QED
        BY <1>1, <1>5, <4>1, ServiceIsThread, LeavesTends
    <3> QED
      BY <2>1, <3>1, <3>2
  <2>6. list'[k] = ListFor(c, k) /\ \A j \in Keys \ {k} : list'[j] = list[j]
    BY <1>5, <2>1
  <2>7. \A d \in Clients : d # c => \A j \in Keys : list'[j] = d => list[j] = d
    BY <2>6, ListForParts, Parties
  <2>8. target' = target /\ Tracks(c)
    BY <1>1 DEF Keen, target
  <2>9. job[c].op = "put" => /\ UNCHANGED <<front, listening>>
                             /\ \A j \in Keys : list'[j] = c =>
                                   j \in listening /\ (target = "all" => strategy = "all")
    BY <1>4, <2>1, <2>6, PutLists
  <2>10. Tracks(c)'
    BY <1>1, <1>2, <1>3, <2>2, <2>4, <2>8, <2>9 DEF Tracks, Filling, Ones
  <2>11. job'[c].at # "ensuring"
    BY <2>2, <2>4
  <2> HIDE DEF Others
  <2> QED
    BY <1>1, <2>1, <2>4, <2>5, <2>7, <2>10, <2>11, FreeKeen
<1> QED
  BY <1>6, <1>7

LEMMA FinishGetKeen ==
    ASSUME Sound, Keen, Steady, Steady', NEW c \in Clients, NEW k \in Keys, FinishGet(c, k)
    PROVE  Keen'
<1>1. /\ job[c].op = "get" /\ k \in job[c].locked
      /\ job[c].at = "finish" \/ (job[c].at = "asked" /\ job[c].reply = "ok")
      /\ list' = [list EXCEPT ![k] = None]
      /\ UNCHANGED <<mode, strategy, inbox>>
  BY FinishGetEffect DEF FinishGet, Steady, peerVars
<1>2. /\ job[c].evicted = {} /\ job[c].at \in Listing /\ job[c].at \in Filling
  BY <1>1, ReadyHas DEF Filling
<1>3. job[c].locked = {k} /\ lock[k].owner = c /\ front[k] = Absent
  <2>1. job[c].locked = {k}
    BY <1>1, PlaceOps DEF Ones, ShapedJob, ShapeOfOne
  <2> QED
    BY <1>1, <1>2, <2>1 DEF Steady, Locking, Missing
<1>4. k \in listening /\ (target = "all" => strategy = "all") /\ target' = target /\ Tracks(c)
  BY <1>1, <1>2 DEF Keen, Tracks, target
<1>5. \A d \in Clients : d # c => \A j \in Keys : list'[j] = d => list[j] = d
  BY <1>1, Parties, TypesGiven DEF Steady, Typed
<1>6. CASE \E X, P, G \in SUBSET Keys : Puts(c, k, X, P, G) /\ Goes(c, "release", job[c].locked, G, job[c].reply)
           /\ UNCHANGED listening
  <2>1. PICK X \in SUBSET Keys, P \in SUBSET Keys, G \in SUBSET Keys :
           Puts(c, k, X, P, G) /\ Goes(c, "release", job[c].locked, G, job[c].reply)
    BY <1>6
  <2>2. /\ \A j \in G : strategy = "present" /\ Free(j, c)
        /\ lock' \in LockMaps
        /\ \A j \in G : lock'[j].owner = c /\ lock'[j].count >= lock[j].count + 1
        /\ \A j \in G \ {k} : lock'[j].count = lock[j].count + 1
        /\ \A j \in Keys \ G : lock'[j] = lock[j]
        /\ \A j \in Keys \ {k} : front'[j] \in {Absent, front[j]}
        /\ \A j \in G \ {k} : front'[j] = Absent
    BY <2>1, PutsParts
  <2>3. /\ Others(c) /\ job'[c].op = "get" /\ job'[c].all = job[c].all /\ job'[c].at = "release"
        /\ job'[c].locked = {k} /\ job'[c].evicted = G
    BY <1>1, <1>3, <2>1 DEF Goes
  <2>4. k \notin X /\ (k \in G => k \in P)
    BY <1>3, <2>1 DEF Puts
  <2>5. k \in G => front'[k] = Absent
    BY <2>1, <2>4 DEF Puts, FrontWith
  <2>6. k \in G => lock'[k].count = lock[k].count + 1
    <3> DEFINE A == G \cap X
               B == G \cap P
    <3>1. A \in SUBSET Keys /\ B \in SUBSET Keys /\ lock' = Locked(Locked(lock, A, c), B, c)
      BY <2>1 DEF Puts
    <3>2. k \in G => k \in A \cup B /\ k \notin A \cap B
      BY <2>4
    <3> HIDE DEF A, B
    <3> QED
      BY <3>1, <3>2, LockTwice
  <2>7. lock[k].count = 1
    BY <1>2, <1>3 DEF Keen, Counted
  <2>8. \A j \in G \ {k} : lock[j].owner = None
    BY <1>2, <1>3, <2>2 DEF Free, Keen, Counted
  <2>9. \A j \in G \ {k} : lock'[j].count = 1
    BY <2>2, <2>8, LocksGiven
  <2>10. k \in G => lock'[k].count = 2
    BY <2>6, <2>7
  <2>11. \A j \in G : lock'[j].owner \in Clients =>
            /\ lock'[j].owner = c
            /\ j \in job'[c].locked \cup job'[c].evicted
            /\ lock'[j].count = IF j \in job'[c].locked \cap job'[c].evicted THEN 2 ELSE 1
    BY <2>2, <2>3, <2>9, <2>10
  <2>12. c \in Clients => \A j \in Keys \ G : /\ j \in job'[c].locked <=> j \in job[c].locked
                                              /\ j \in job'[c].evicted <=> j \in job[c].evicted
    BY <1>2, <1>3, <2>3
  <2>13. Tends(c)
    BY <1>1, <1>3, <1>4, <1>6, <2>2 DEF Tends
  <2>14. Unreset' /\ c \in Threads /\ \A d \in Clients : d # c => (Confirmed(d)' => Confirmed(d))
    BY <1>1, <2>3, QuietHas
  <2>15. \A j \in G : front'[j] = Absent
    BY <2>2, <2>5
  <2>16. Tracks(c)'
    BY <1>1, <1>4, <2>3, <2>15 DEF Tracks, Filling
  <2>17. target = "all" => job'[c].evicted = {}
    BY <2>2, <2>3 DEF Steady, Suited
  <2>18. c \in Clients => /\ job'[c].op \in {job[c].op, "none"} \cup mode.ops
                          /\ target = "all" => job'[c].evicted = {}
                          /\ job'[c].at = "ensuring" => job[c].at = "ensuring"
                          /\ Tracks(c)'
    BY <1>1, <2>3, <2>16, <2>17
  <2>19. /\ Others(c) /\ UNCHANGED mode /\ \A j \in Keys \ G : lock'[j] = lock[j]
         /\ \A d \in Clients : d # c => /\ \A j \in Keys : list'[j] = d => list[j] = d
                                        /\ Confirmed(d)' => Confirmed(d)
    BY <1>1, <1>5, <2>2, <2>3, <2>14
  <2>20. G \in SUBSET Keys /\ Unreset' /\ c \in Threads
    BY <2>1, <2>14
  <2> HIDE DEF Others
  <2> QED
    BY <2>11, <2>12, <2>13, <2>18, <2>19, <2>20, KeenStep
<1>7. CASE /\ listening' = listening \ Unregistered({k}, c) /\ UNCHANGED <<front, lock>>
           /\ Moves(c, "release")
  <2>1. /\ Others(c) /\ job'[c].op = job[c].op /\ job'[c].all = job[c].all /\ job'[c].at = "release"
        /\ job'[c].locked = job[c].locked /\ job'[c].evicted = job[c].evicted
    BY <1>7 DEF Moves, Goes
  <2>2. \A j \in Unregistered({k}, c) : j = k /\ strategy = "present"
    BY DEF Unregistered
  <2>3. Tends(c)
    BY <1>1, <1>3, <1>7, <2>2 DEF Tends, Steady, Suited
  <2>4. Tracks(c)'
    BY <1>1, <1>2, <1>4, <2>1 DEF Tracks, Filling
  <2>5. job'[c].at # "ensuring"
    BY <2>1
  <2> HIDE DEF Others
  <2> QED
    BY <1>1, <1>5, <1>7, <2>1, <2>3, <2>4, <2>5, FreeKeen
<1> QED
  BY <1>6, <1>7, FinishGetEffect DEF Steady

LEMMA FrontKeyKeen ==
    ASSUME Sound, Keen, Steady, Steady', NEW c \in Clients, NEW k \in Keys, FrontKey(c, k)
    PROVE  Keen'
<1> DEFINE a == IF job[c].keys = {k} THEN "release" ELSE "front"
<1>1. /\ job[c].at = "front" /\ k \in job[c].keys /\ list' = [list EXCEPT ![k] = None]
      /\ UNCHANGED <<mode, strategy, listening, inbox>>
  BY FrontKeyEffect DEF FrontKey, Steady, peerVars
<1>2. job[c].op = "getAll" /\ ShapedJob(job[c]) /\ job[c] \in Jobs
  BY <1>1, PlaceOps
<1>3. k \in job[c].locked /\ lock[k].owner = c
  BY <1>1, <1>2 DEF ShapedJob, ShapeOfGetAll, Steady, Locking
<1>4. target = "all" /\ strategy # "present" /\ job[c].evicted = {}
  BY <1>2, SoundHas
<1>5. strategy = "all" /\ listening = Keys /\ Tracks(c) /\ target' = target
  BY <1>1, <1>2, <1>4 DEF Keen, Heeded, Tracks, target
<1>6. a \in {"front", "release"}
  OBVIOUS
<1>7. PICK G \in SUBSET Keys :
         /\ Goes(c, a, job[c].locked, job[c].evicted \cup G, job[c].reply)
         /\ \/ \E X, P \in SUBSET Keys : Puts(c, k, X, P, G)
            \/ /\ G = Unregistered({k}, c)
               /\ front' = Without(front, {k})
               /\ lock' = Locked(Locked(lock, G \cap Cached(front), c), G, c)
  BY FrontKeyEffect DEF Steady
<1> HIDE DEF a
<1>8. G = {} /\ (\A j \in Keys : lock'[j] = lock[j]) /\ lock' \in LockMaps
      /\ \A j \in Keys \ {k} : front'[j] \in {Absent, front[j]}
      /\ front' \in [Keys -> Versions]
  <2>1. CASE \E X, P \in SUBSET Keys : Puts(c, k, X, P, G)
    <3>1. G = {}
      BY <1>4, <2>1, PutsParts
    <3> QED
      BY <2>1, <3>1, PutsParts
  <2>2. CASE /\ G = Unregistered({k}, c)
             /\ front' = Without(front, {k})
             /\ lock' = Locked(Locked(lock, G \cap Cached(front), c), G, c)
    <3>1. G = {}
      BY <1>4, <2>2 DEF Unregistered
    <3>2. front' \in [Keys -> Versions] /\ \A j \in Keys : front'[j] \in {Absent, front[j]}
      BY <2>2, TypesGiven, WithoutParts DEF Steady, Typed
    <3> DEFINE A == G \cap Cached(front)
    <3>3. A \in SUBSET Keys /\ A \cup G = {} /\ lock' = Locked(Locked(lock, A, c), G, c)
      BY <2>2, <3>1
    <3> HIDE DEF A
    <3>4. lock' \in LockMaps /\ \A j \in Keys \ (A \cup G) : lock'[j] = lock[j]
      BY <3>3, LockTwice
    <3> QED
      BY <3>1, <3>2, <3>3, <3>4
  <2> QED
    BY <1>7, <2>1, <2>2
<1>9. UNCHANGED lock
  BY <1>8, TypesGiven DEF Steady, Typed, LockMaps
<1>10. /\ Others(c) /\ job'[c].op = job[c].op /\ job'[c].all = job[c].all /\ job'[c].at = a
       /\ job'[c].locked = job[c].locked /\ job'[c].evicted = job[c].evicted
  BY <1>4, <1>7, <1>8 DEF Goes
<1>11. Tends(c)
  BY <1>1, <1>3, <1>5, <1>8 DEF Tends
<1>12. \A d \in Clients : d # c => \A j \in Keys : list'[j] = d => list[j] = d
  BY <1>1, Parties, TypesGiven DEF Steady, Typed
<1>13. Tracks(c)' /\ job'[c].at # "ensuring"
  BY <1>1, <1>2, <1>4, <1>5, <1>6, <1>10 DEF Tracks
<1> HIDE DEF Others
<1> QED
  BY <1>1, <1>9, <1>10, <1>11, <1>12, <1>13, FreeKeen

LEMMA ReleaseKeen ==
    ASSUME Keen, Steady, Steady', NEW c \in Clients, Release(c)
    PROVE  Keen'
<1>1. /\ job[c].at = "release" /\ job[c].op \in {"get", "getAll"} /\ job[c] \in Jobs /\ ShapedJob(job[c])
      /\ UNCHANGED <<mode, strategy, front, list, inbox>>
  BY PlaceOps DEF Release, peerVars
<1>2. CASE job' = [job EXCEPT ![c].at = "terminated"] /\ UNCHANGED <<listening, lock>>
  <2>1. Moves(c, "terminated")
    BY <1>2, MoveEffect DEF Steady, Typed, Places
  <2>2. "terminated" \notin Filling \cup {"registering", "locks", "front"} /\ "terminated" # "ensuring"
    BY DEF Filling
  <2> HIDE DEF Moves
  <2> QED
    BY <1>1, <1>2, <2>1, <2>2, MoveKeen
<1>3. CASE /\ listening' = listening \ job[c].evicted
           /\ lock' = Unlock(Unevict(lock, c), c)
           /\ job' = [job EXCEPT ![c] = IdleJob]
  <2>1. Ends(c)
    BY <1>3, EndsEffect DEF Steady, Typed
  <2> DEFINE mid == Released(lock, job[c].evicted)
             S == job[c].locked \cup job[c].evicted
  <2>2. lock' = Released(mid, job[c].locked)
    BY <1>3 DEF Unlock, Unevict
  <2>3. /\ job[c].locked \in SUBSET Keys /\ job[c].evicted \in SUBSET Keys /\ lock \in LockMaps
        /\ \A j \in S : lock[j].owner = c
    BY <1>1, TypesGiven DEF Steady, Typed, Locking, Jobs
  <2>4. /\ \A j \in job[c].locked \cap job[c].evicted : lock[j].count = 2
        /\ \A j \in S : j \notin job[c].locked \cap job[c].evicted => lock[j].count = 1
    BY <2>3 DEF Keen, Counted
  <2>5. \A j \in job[c].evicted : lock[j].count >= 1
    BY <2>4
  <2>6. /\ mid \in LockMaps
        /\ \A j \in job[c].evicted : /\ lock[j].count = 1 => mid[j] = Unlocked
                                     /\ lock[j].count # 1 => mid[j].count = lock[j].count - 1
        /\ \A j \in Keys \ job[c].evicted : mid[j] = lock[j]
    BY <2>3, <2>5, ReleasedParts
  <2>7. \A j \in job[c].locked : mid[j].count = 1
    BY <2>3, <2>4, <2>6
  <2>8. \A j \in job[c].evicted \ job[c].locked : mid[j] = Unlocked
    BY <2>4, <2>6
  <2> HIDE DEF mid
  <2>9. \A j \in job[c].locked : mid[j].count >= 1
    BY <2>7
  <2>10. /\ \A j \in job[c].locked : mid[j].count = 1 => lock'[j] = Unlocked
         /\ \A j \in Keys \ job[c].locked : lock'[j] = mid[j]
    BY <2>2, <2>3, <2>6, <2>9, ReleasedParts
  <2>11. /\ \A j \in job[c].locked \cup job[c].evicted : lock'[j] = Unlocked
         /\ \A j \in Keys \ (job[c].locked \cup job[c].evicted) : lock'[j] = lock[j]
    BY <2>3, <2>6, <2>7, <2>8, <2>10
  <2>12. \A j \in job[c].evicted : front[j] = Absent
    BY DEF Keen, Tracks
  <2>13. job[c].evicted # {} => target # "all"
    BY DEF Keen, Usual
  <2>14. Tends(c)
    BY <1>1, <1>3, <2>3, <2>12, <2>13 DEF Tends
  <2>15. \A d \in Clients : d # c => \A j \in Keys : list'[j] = d => list[j] = d
    BY <1>1
  <2> HIDE DEF S, Ends
  <2> QED
    BY <1>1, <2>1, <2>11, <2>14, <2>15, EndKeen
<1> QED
  BY <1>2, <1>3 DEF Release

\* A put that looks at its list is its client's own.
LEMMA PutHas ==
    ASSUME Steady, NEW c \in Clients, NEW k \in job[c].locked, job[c].at \in Listing, list[k] # Ignore
    PROVE  list[k] = c
<1>1. k \in Keys /\ list[k] # None /\ lock[k].owner = c
  BY PlaceOps DEF Steady, Listed, Locking, Jobs
<1>2. list[k] \in Clients
  BY <1>1, TypesGiven DEF Steady, Typed
<1>3. lock[k].owner = list[k]
  BY <1>1, <1>2 DEF Steady, Listed, Locking
<1> QED
  BY <1>1, <1>3

LEMMA FinalizePutTends ==
    ASSUME Sound, Keen, Steady, NEW c \in Clients, NEW k \in Keys, FinalizePut(c, k)
    PROVE  Tends(c)
<1>1. /\ job[c].op \in {"put", "putAll"} /\ k \in job[c].locked
      /\ job[c].at = "finish" \/ (job[c].at = "asked" /\ job[c].reply = "ok")
      /\ UNCHANGED <<mode, strategy>>
  BY FinalizePutEffect DEF FinalizePut, Steady
<1>2. job[c].at \in Listing /\ lock[k].owner = c
  BY <1>1, ReadyHas DEF Steady, Locking
<1>3. front \in [Keys -> Versions]
  BY TypesGiven DEF Steady, Typed
<1>4. CASE list[k] = Ignore
  BY <1>1, <1>4 DEF FinalizePut, Tends
<1>5. CASE list[k] # Ignore
  <2>1. list[k] = c
    BY <1>1, <1>2, <1>5, PutHas
  <2>2. /\ k \in listening \/ (front[k] = Absent /\ target = "present")
        /\ target = "all" => strategy = "all"
    BY <1>1, <2>1 DEF Keen, Tracks
  <2>3. PICK X \in SUBSET Keys :
           /\ \A j \in X : front[j] # Absent
           /\ "expire" \notin usage => X = {}
           /\ (\E P, D \in SUBSET Keys : KeepsPut(c, k, X, P, D)) \/ RemovesPut(c, k, X)
    BY <1>5, FinalizePutEffect DEF Steady
  <2>4. CASE RemovesPut(c, k, X)
    <3> DEFINE S == X \cup {k}
               T == X \cup ({k} \cap Cached(Without(front, X)))
    <3>1. S \in SUBSET Keys /\ T \in SUBSET S /\ front' = Without(front, S)
          /\ listening' = listening \ Unregistered(T, c)
      BY <2>4 DEF RemovesPut
    <3> HIDE DEF S, T
    <3> QED
      BY <1>1, <1>3, <3>1, ServiceIsThread, LeavesTends
  <2>5. ASSUME NEW P \in SUBSET Keys, NEW D \in SUBSET Keys, KeepsPut(c, k, X, P, D) PROVE Tends(c)
    <3>1. /\ D = TakenBack(Without(front, X), k, P)
          /\ front' = FrontWith(k, job[c].values[k], X, P \cup D)
          /\ listening' = listening \ Unregistered(X \cup P \cup D, c)
      BY <2>5 DEF KeepsPut
    <3>2. \A j \in Keys : j \in P \cup D => front'[j] = Absent
      BY <3>1 DEF FrontWith
    <3>3. \A j \in Keys \ {k} : front'[j] \in {Absent, front[j]} /\ (j \in X => front'[j] = Absent)
      BY <3>1 DEF FrontWith
    <3>4. strategy = "present" /\ k \in X => k \in D
      <4>1. SUFFICES ASSUME strategy = "present", k \in X PROVE k \in D
        OBVIOUS
      <4>2. target = "present"
        BY <4>1, <2>3, SoundHas DEF Sound
      <4>3. Without(front, X)[k] = Absent
        BY <1>3, <4>1, WithoutParts
      <4> QED
        BY <3>1, <4>2, <4>3 DEF TakenBack
    <3>5. \A j \in Unregistered(X \cup P \cup D, c) :
             /\ j \in X \cup P \cup D /\ strategy = "present" /\ lock[j].owner \in {None, c}
      BY DEF Unregistered, Free
    <3>6. \A j \in Unregistered(X \cup P \cup D, c) : front'[j] = Absent
      BY <3>2, <3>3, <3>4, <3>5
    <3>7. k \notin P \cup D => k \in listening'
      <4>1. SUFFICES ASSUME k \notin P \cup D PROVE k \in listening'
        OBVIOUS
      <4>2. k \notin Unregistered(X \cup P \cup D, c)
        BY <3>4, <3>5, <4>1
      <4>3. k \in listening
        <5>1. SUFFICES ASSUME front[k] = Absent, target = "present" PROVE FALSE
          BY <2>2
        <5>2. Without(front, X)[k] = Absent
          BY <1>3, <5>1, WithoutParts
        <5> QED
          BY <3>1, <4>1, <5>1, <5>2 DEF TakenBack
      <4> QED
        BY <3>1, <4>2, <4>3
    <3>8. strategy = "present" => target # "all"
      BY DEF Steady, Suited
    <3>9. \A j \in listening : j \in listening' \/ /\ lock[j].owner \in {None, c}
                                                   /\ front'[j] = Absent /\ target # "all"
      BY <3>1, <3>5, <3>6, <3>8
    <3>10. \A j \in Keys : \/ front'[j] = Absent
                           \/ front'[j] = front[j]
                           \/ /\ lock[j].owner = c /\ j \in listening'
                              /\ target = "all" => strategy = "all"
      BY <1>2, <2>2, <3>2, <3>3, <3>7
    <3> QED
      BY <1>1, <3>9, <3>10 DEF Tends
  <2> QED
    BY <2>3, <2>4, <2>5
<1> QED
  BY <1>4, <1>5

LEMMA FinalizePutKeen ==
    ASSUME Sound, Keen, Steady, Steady', NEW c \in Clients, NEW k \in Keys, FinalizePut(c, k)
    PROVE  Keen'
<1>1. /\ job[c].op \in {"put", "putAll"} /\ k \in job[c].locked
      /\ job[c].at = "finish" \/ (job[c].at = "asked" /\ job[c].reply = "ok")
      /\ list' = [list EXCEPT ![k] = None] /\ lock' = Released(lock, {k})
      /\ UNCHANGED <<mode, strategy, inbox>>
  BY FinalizePutEffect DEF FinalizePut, Steady, peerVars
<1>2. job[c].evicted = {} /\ job[c].at \in Listing /\ job[c].at = "asked"
  BY <1>1, ReadyHas, PlaceOps
<1>3. Tends(c)
  BY FinalizePutTends
<1> DEFINE S == {k}
<1>4. S \in SUBSET job[c].locked /\ S \in SUBSET Keys /\ lock' = Released(lock, S)
  BY <1>1
<1> HIDE DEF S
<1>5. (\A j \in S : lock'[j] = Unlocked) /\ \A j \in Keys \ S : lock'[j] = lock[j]
  BY <1>2, <1>4, ReleaseCounted
<1>6. list'[k] = None /\ \A j \in Keys \ {k} : list'[j] = list[j]
  BY <1>1, TypesGiven DEF Steady, Typed
<1>7. \A d \in Clients : d # c => \A j \in Keys : list'[j] = d => list[j] = d
  BY <1>6, Parties
<1>8. CASE job[c].locked = {k}
  <2>1. Ends(c)
    BY <1>8, FinalizePutEffect DEF Steady
  <2>2. job[c].locked \cup job[c].evicted = S
    BY <1>2, <1>8 DEF S
  <2> HIDE DEF Ends
  <2> QED
    BY <1>1, <1>3, <1>5, <1>7, <2>1, <2>2, EndKeen
<1>9. CASE job[c].locked # {k}
  <2>1. Goes(c, job[c].at, job[c].locked \ {k}, job[c].evicted, job[c].reply)
    BY <1>9, FinalizePutEffect DEF Steady
  <2>2. /\ Others(c) /\ job'[c].op = job[c].op /\ job'[c].all = job[c].all /\ job'[c].at = "asked"
        /\ job'[c].locked = job[c].locked \ {k} /\ job'[c].evicted = {}
    BY <1>2, <2>1 DEF Goes
  <2>3. job[c].op = "putAll"
    BY <1>1, <1>2, <1>9, PlaceOps DEF Ones
  <2>4. target \in {"present", "all"} /\ target' = target /\ Tracks(c)
    BY <1>1, <2>3, SoundHas DEF Keen, target
  <2>5. \A j \in Keys : list'[j] = c =>
           /\ j \in listening' \/ (front'[j] = Absent /\ target = "present")
           /\ target = "all" => strategy = "all"
    <3>1. SUFFICES ASSUME NEW j \in Keys, list'[j] = c
                   PROVE  /\ j \in listening' \/ (front'[j] = Absent /\ target = "present")
                          /\ target = "all" => strategy = "all"
      OBVIOUS
    <3>2. j # k /\ list[j] = c
      BY <1>6, <3>1, Parties
    <3>3. /\ j \in listening \/ (front[j] = Absent /\ target = "present")
          /\ target = "all" => strategy = "all"
      BY <2>3, <2>4, <3>2 DEF Tracks
    <3>4. front'[j] \in {Absent, front[j]}
      BY <3>2, FinalizePutFront
    <3> QED
      BY <1>3, <2>4, <3>3, <3>4 DEF Tends
  <2>6. Tracks(c)'
    BY <1>1, <2>2, <2>3, <2>4, <2>5 DEF Tracks, Filling
  <2>7. Unreset' /\ c \in Threads /\ \A d \in Clients : d # c => (Confirmed(d)' => Confirmed(d))
    BY <1>1, <2>2, QuietHas
  <2>8. \A j \in S : lock'[j].owner \in Clients =>
           /\ lock'[j].owner = c
           /\ j \in job'[c].locked \cup job'[c].evicted
           /\ lock'[j].count = IF j \in job'[c].locked \cap job'[c].evicted THEN 2 ELSE 1
    BY <1>5, Parties DEF Unlocked
  <2>9. \A j \in Keys \ S : j \in job'[c].locked <=> j \in job[c].locked
    BY <2>2 DEF S
  <2>10. \A j \in Keys \ S : j \in job'[c].evicted <=> j \in job[c].evicted
    BY <1>2, <2>2
  <2>11. c \in Clients => \A j \in Keys \ S :
            /\ j \in job'[c].locked <=> j \in job[c].locked
            /\ j \in job'[c].evicted <=> j \in job[c].evicted
    BY <2>9, <2>10
  <2>12. c \in Clients => /\ job'[c].op \in {job[c].op, "none"} \cup mode.ops
                          /\ target = "all" => job'[c].evicted = {}
                          /\ job'[c].at = "ensuring" => job[c].at = "ensuring"
                          /\ Tracks(c)'
    BY <2>2, <2>6
  <2>13. Others(c) /\ UNCHANGED mode
    BY <1>1, <2>2
  <2> HIDE DEF Others
  <2> QED
    BY <1>3, <1>4, <1>5, <1>7, <2>7, <2>8, <2>11, <2>12, <2>13, KeenStep
<1> QED
  BY <1>8, <1>9

LEMMA FinishKeen ==
    ASSUME Keen, Steady, Steady', NEW c \in Clients, Finish(c)
    PROVE  Keen'
<1> DEFINE S == job[c].locked
<1>1. /\ job[c].at = "finish" \/ (job[c].at = "asked" /\ job[c].reply = "ok")
      /\ list' = Cleared(S) /\ lock' = Released(lock, S) /\ job' = [job EXCEPT ![c] = IdleJob]
      /\ UNCHANGED <<mode, front, listening, strategy, inbox>>
  BY DEF Finish, Ready, Unlock, mapVars, peerVars
<1>2. job[c].evicted = {}
  BY <1>1, ReadyHas
<1>3. Ends(c)
  BY <1>1, EndsEffect DEF Steady, Typed
<1>4. Tends(c)
  BY <1>1 DEF Tends
<1>5. (\A j \in S : lock'[j] = Unlocked) /\ \A j \in Keys \ S : lock'[j] = lock[j]
  BY <1>1, <1>2, ReleaseCounted
<1>6. \A d \in Clients : d # c => \A j \in Keys : list'[j] = d => list[j] = d
  BY <1>1, ClearedParts, Parties DEF Steady, Typed
<1>7. job[c].locked \cup job[c].evicted = S
  BY <1>2
<1> HIDE DEF S, Ends
<1> QED
  BY <1>1, <1>3, <1>4, <1>5, <1>6, <1>7, EndKeen

LEMMA CloseKeen ==
    ASSUME Sound, Keen, Steady, Steady', NEW c \in Clients, Close(c)
    PROVE  Keen'
<1>1. /\ job[c].at = "close" /\ job[c].op = "clear" /\ job' = [job EXCEPT ![c].at = "ask"]
      /\ \A k \in Keys : lock[k] = Unlocked
      /\ front' = Without(front, Keys)
      /\ UNCHANGED <<mode, lock, list, inbox>>
  BY PlaceOps DEF Close, peerVars
<1>2. target # "all" /\ strategy # "all" /\ target' = target /\ Tracks(c)
  BY <1>1, SoundHas DEF Keen, target
<1>3. Moves(c, "ask")
  BY <1>1, MoveEffect DEF Steady, Typed, Places
<1>4. /\ Others(c) /\ job'[c].op = "clear" /\ job'[c].all = job[c].all /\ job'[c].at = "ask"
      /\ job'[c].locked = job[c].locked /\ job'[c].evicted = job[c].evicted
  BY <1>1, <1>3 DEF Moves, Goes
<1>5. \A k \in Keys : front'[k] = Absent /\ lock[k].owner = None
  BY <1>1, TypesGiven, WithoutParts DEF Steady, Typed, Unlocked
<1>6. Tends(c)
  BY <1>2, <1>5, TypesGiven DEF Tends, Steady, Typed
<1>7. job[c].evicted = {}
  BY <1>1, ClearHas
<1>8. Tracks(c)'
  BY <1>1, <1>2, <1>4, <1>7 DEF Tracks
<1>9. /\ job'[c].op \in {job[c].op, "none"} \cup mode.ops /\ job'[c].at # "ensuring"
      /\ \A d \in Clients : d # c => \A k \in Keys : list'[k] = d => list[k] = d
  BY <1>1, <1>4
<1> HIDE DEF Others
<1> QED
  BY <1>1, <1>4, <1>6, <1>8, <1>9, FreeKeen

\* An operation whose request has failed, other than the registration of the global listener.
LEMMA FailTends ==
    ASSUME Sound, Keen, Steady, NEW c \in Clients, Fail(c), job[c].at # "ensuring"
    PROVE  Tends(c)
<1> DEFINE S == job[c].locked
<1>1. /\ job[c].reply = "error" /\ UNCHANGED <<mode, strategy>>
      /\ front' = IF job[c].op \in {"put", "putAll"} THEN Without(front, S) ELSE front
      /\ listening' = CASE job[c].at = "ensuring"    -> {}
                        [] job[c].at = "registering" -> listening \ S
                        [] job[c].at = "asked" /\ job[c].op \in {"get", "getAll"}
                                                     -> listening \ Unregistered(S, c)
                        [] OTHER -> listening \ Unregistered(S \cap (Cached(front) \ Cached(front')), c)
  BY DEF Fail
<1>2. /\ job[c].at \in {"registering", "asked"} /\ job[c].at \in Listing /\ S \subseteq Keys
      /\ (job[c].at = "registering" => job[c].op \in {"get", "getAll"})
  BY <1>1, PlaceOps DEF ShapedJob, Waiting, Listing, Jobs
<1>3. \A j \in S : lock[j].owner = c
  BY DEF Steady, Locking
<1>4. front \in [Keys -> Versions] /\ (strategy = "present" => target # "all")
  BY TypesGiven DEF Steady, Typed, Suited
<1>5. \A j \in Keys : front'[j] = Absent \/ front'[j] = front[j]
  BY <1>1, <1>4, WithoutParts
<1>6. job[c].op \in {"get", "getAll"} /\ target # "all" => \A j \in S : front'[j] = Absent
  <2>1. SUFFICES ASSUME job[c].op \in {"get", "getAll"}, target # "all" PROVE \A j \in S : front'[j] = Absent
    OBVIOUS
  <2>2. job[c].op = "get"
    BY <2>1, SoundHas
  <2>3. front' = front
    BY <1>1, <2>2
  <2> QED
    BY <1>2, <2>2, <2>3 DEF Steady, Missing
<1>7. CASE job[c].at = "registering"
  <2>1. listening' = listening \ S
    BY <1>1, <1>7
  <2>2. target # "all"
    BY <1>7 DEF Steady, Suited
  <2> QED
    BY <1>1, <1>2, <1>3, <1>5, <1>6, <1>7, <2>1, <2>2 DEF Tends
<1>8. CASE job[c].at = "asked" /\ job[c].op \in {"get", "getAll"}
  <2>1. listening' = listening \ Unregistered(S, c)
    BY <1>1, <1>8
  <2>2. \A j \in Unregistered(S, c) : j \in S /\ strategy = "present"
    BY DEF Unregistered
  <2> QED
    BY <1>1, <1>3, <1>4, <1>5, <1>6, <1>8, <2>1, <2>2 DEF Tends
<1>9. CASE job[c].at = "asked" /\ job[c].op \notin {"get", "getAll"}
  <2> DEFINE T == S \cap (Cached(front) \ Cached(front'))
  <2>1. listening' = listening \ Unregistered(T, c)
    BY <1>1, <1>9
  <2>2. \A j \in Unregistered(T, c) : j \in T /\ strategy = "present"
    BY DEF Unregistered
  <2>3. \A j \in T : j \in S /\ front'[j] = Absent
    BY <1>2 DEF Cached
  <2> HIDE DEF T
  <2> QED
    BY <1>1, <1>3, <1>4, <1>5, <2>1, <2>2, <2>3 DEF Tends
<1> QED
  BY <1>2, <1>7, <1>8, <1>9

LEMMA FailKeen ==
    ASSUME Sound, Keen, Steady, Steady', NEW c \in Clients, Fail(c)
    PROVE  Keen'
<1> DEFINE S == job[c].locked
<1>1. /\ job[c].reply = "error" /\ lock' = Released(lock, S) /\ job' = [job EXCEPT ![c] = IdleJob]
      /\ \A k \in Keys : list'[k] = list[k] \/ list'[k] \in {None, Ignore}
      /\ UNCHANGED <<mode, strategy, inbox>>
  BY DEF Fail, Unlock, peerVars
<1>2. job[c].evicted = {} /\ S \in SUBSET job[c].locked
  BY <1>1, PlaceOps DEF ShapedJob, Waiting
<1>3. Ends(c)
  BY <1>1, EndsEffect DEF Steady, Typed
<1>4. (\A j \in S : lock'[j] = Unlocked) /\ \A j \in Keys \ S : lock'[j] = lock[j]
  BY <1>1, <1>2, ReleaseCounted
<1>5. \A d \in Clients : d # c => \A j \in Keys : list'[j] = d => list[j] = d
  BY <1>1, Parties
<1>6. job[c].locked \cup job[c].evicted = S
  BY <1>2
<1>7. CASE job[c].at # "ensuring"
  <2>1. Tends(c)
    BY <1>7, FailTends
  <2> HIDE DEF S, Ends
  <2> QED
    BY <1>1, <1>3, <1>4, <1>5, <1>6, <2>1, EndKeen
<1>8. CASE job[c].at = "ensuring"
  <2>1. /\ target = "all" /\ strategy # "all" /\ target' = target
        /\ \A d \in Clients : d # c => job[d].at # "ensuring"
    BY <1>1, <1>8 DEF Steady, Suited, Keen, Alone, Tracks, target
  <2>2. job[c].op \in {"get", "getAll"}
    BY <1>8, PlaceOps
  <2>3. front' = front /\ \A k \in Keys : front[k] = Absent
    BY <2>1, <2>2 DEF Fail, Keen, Heeded
  <2>4. Others(c) /\ job'[c] = IdleJob
    BY <1>3 DEF Ends
  <2>5. Tracks(c)' /\ job'[c].op = "none" /\ job'[c].evicted = {} /\ job'[c].locked = {} /\ job'[c].at = "idle"
    BY <2>4, IdleTracks
  <2>6. Unreset' /\ c \in Threads
    BY <1>1, <2>4, QuietHas
  <2>7. Usual'
    BY <1>1, <2>4, <2>5, <2>6, UsualKept DEF Keen
  <2>8. Counted'
    <3> HIDE DEF S
    <3>1. S \in SUBSET Keys /\ \A j \in S : lock'[j].owner \notin Clients
      BY <1>2, <1>4, PlaceOps, Parties DEF Unlocked, Jobs
    <3>2. \A j \in Keys \ S : j \notin job[c].locked /\ j \notin job[c].evicted
      BY <1>6
    <3>3. \A j \in S : lock'[j].owner \in Clients =>
              /\ lock'[j].owner = c
              /\ j \in job'[c].locked \cup job'[c].evicted
              /\ lock'[j].count = IF j \in job'[c].locked \cap job'[c].evicted THEN 2 ELSE 1
      BY <3>1
    <3>4. c \in Clients => \A j \in Keys \ S : /\ j \in job'[c].locked <=> j \in job[c].locked
                                               /\ j \in job'[c].evicted <=> j \in job[c].evicted
      BY <2>5, <3>2
    <3>5. Counted
      BY DEF Keen
    <3> HIDE DEF Others
    <3> QED
      BY <1>4, <2>4, <2>6, <3>1, <3>3, <3>4, <3>5, CountedKept
  <2>9. Heeded'
    BY <1>1, <2>1, <2>3 DEF Heeded
  <2>10. Alone'
    BY <2>1, <2>4, <2>5 DEF Alone, Others
  <2>11. ASSUME NEW d \in Clients, d # c PROVE Tracks(d)'
    <3>1. job'[d] = job[d] /\ Tracks(d) /\ job[d].at # "ensuring"
      BY <2>1, <2>4, <2>11 DEF Others, Keen
    <3>2. ~ (job[d].op \in {"get", "getAll"} /\ job[d].at \in Filling \cup {"locks", "front"})
      BY <2>1, <3>1 DEF Tracks
    <3>3. job[d].at # "registering"
      BY <2>1 DEF Steady, Suited
    <3>4. job[d].op \in {"put", "putAll"} => \A k \in Keys : list'[k] # d
      BY <1>5, <2>1, <2>11, <3>1 DEF Tracks
    <3>5. job[d].evicted = {}
      BY <2>1 DEF Keen, Usual
    <3>6. ~ job[d].all
      BY <2>1, <3>1 DEF Tracks
    <3> QED
      BY <2>1, <3>1, <3>2, <3>3, <3>4, <3>5, <3>6 DEF Tracks
  <2> QED
    BY <2>5, <2>7, <2>8, <2>9, <2>10, <2>11 DEF Keen
<1> QED
  BY <1>7, <1>8

-----------------------------------------------------------------------------
(***************************************************************************)
(* Every step keeps it.                                                    *)
(***************************************************************************)
LEMMA StartsKeen ==
    ASSUME Keen, Steady, Steady', NEW c \in Clients, Starts(c)
    PROVE  Keen'
<1>1. mode.keys \subseteq Keys
  <2>1. mode \in [keys : SUBSET Keys, target : {"present", "auto", "all"}, ops : SUBSET Operations,
                  usage : SUBSET {"expire", "load", "refresh", "fail", "reset"}]
    BY NearCacheConstants DEF Steady, Typed, TypeOK
  <2> QED
    BY <2>1
<1>2. ASSUME NEW op \in Ones, NEW k \in Keys, Start(c, op, "lock", {k}) PROVE Keen'
  BY <1>2, StartKeen DEF Ones, Operations
<1>3. ASSUME NEW K \in SUBSET Keys, Start(c, "getAll", "ensure", K) PROVE Keen'
  BY <1>3, StartKeen DEF Operations
<1>4. ASSUME NEW K \in SUBSET Keys, Start(c, "putAll", "locks", K) PROVE Keen'
  BY <1>4, StartKeen DEF Operations
<1>5. ASSUME Start(c, "clear", "close", {}) PROVE Keen'
  BY <1>5, StartKeen DEF Operations
<1>6. ASSUME NEW k \in Keys, Get(c, k) \/ ContainsKey(c, k) \/ Put(c, k) \/ Remove(c, k) PROVE Keen'
  BY <1>2, <1>6 DEF Get, ContainsKey, Put, Remove, Ones
<1>7. ASSUME NEW K \in SUBSET Keys, GetAll(c, K) \/ PutAll(c, K) PROVE Keen'
  <2>1. K \ Cached(front) \in SUBSET Keys
    OBVIOUS
  <2> QED
    BY <1>3, <1>4, <1>7, <2>1 DEF GetAll, PutAll
<1>8. CASE Clear(c)
  BY <1>5, <1>8 DEF Clear
<1> QED
  BY <1>1, <1>6, <1>7, <1>8, ExpireKeen DEF Starts

LEMMA WorksKeen ==
    ASSUME Sound, Keen, Steady, Steady', NEW c \in Clients, Works(c)
    PROVE  Keen'
<1>1. CASE Lock(c) \/ Ensure(c) \/ Ensured(c) \/ LocksDone(c) \/ Register(c) \/ Registered(c)
  BY <1>1, LockKeen, EnsureKeen, EnsuredKeen, LocksDoneKeen, RegisterKeen, RegisteredKeen
<1>2. CASE AskRead(c) \/ AskWrite(c) \/ AskFails(c) \/ Judge(c) \/ Release(c) \/ Finish(c)
  BY <1>2, AskReadKeen, AskWriteKeen, AskFailsKeen, JudgeKeen, ReleaseKeen, FinishKeen
<1>3. CASE Fail(c) \/ Close(c) \/ CloseFails(c) \/ Open(c)
  BY <1>3, FailKeen, CloseKeen, CloseFailsKeen, OpenKeen
<1>4. ASSUME NEW k \in Keys, Assign(c, k) \/ LockNext(c, k) \/ FinishGet(c, k) \/ FrontKey(c, k) \/ FinalizePut(c, k)
      PROVE  Keen'
  BY <1>4, AssignKeen, LockNextKeen, FinishGetKeen, FrontKeyKeen, FinalizePutKeen
<1> QED
  BY <1>1, <1>2, <1>3, <1>4 DEF Works

LEMMA InitKeen ==
    ASSUME Init
    PROVE  Keen
<1>1. \A c \in Clients : job[c] = IdleJob
  BY DEF Init
<1>2. /\ IdleJob.at = "idle" /\ IdleJob.op = "none" /\ IdleJob.locked = {} /\ IdleJob.evicted = {}
      /\ IdleJob.reply = "no" /\ IdleJob.all = FALSE
  BY DEF IdleJob
<1>3. Usual
  BY <1>1, <1>2 DEF Init, Usual, Unreset
<1>4. Counted
  BY Parties DEF Init, Counted, Unlocked
<1>5. Heeded
  BY DEF Init, Heeded
<1>6. Alone /\ \A c \in Clients : Tracks(c)
  BY <1>1, <1>2 DEF Alone, Tracks, Filling
<1> QED
  BY <1>3, <1>4, <1>5, <1>6 DEF Keen

LEMMA NextKeen ==
    ASSUME Sound, Keen, Steady, Steady', [Next]_vars
    PROVE  Keen'
<1>1. CASE Peer
  BY <1>1, PeerKeen
<1>2. CASE Serves
  BY <1>2, ReceiveKeen, ServiceLockKeen, ValidateKeen, FindAddKeen DEF Serves
<1>3. ASSUME NEW c \in Clients, Starts(c) \/ Works(c) PROVE Keen'
  BY <1>3, StartsKeen, WorksKeen
<1>4. CASE UNCHANGED vars
  <2>1. UNCHANGED <<mode, front, listening, strategy, lock, list, inbox, job>>
    BY <1>4 DEF vars, mapVars, ctrlVars, peerVars
  <2>2. Others(Service) /\ Unreset' /\ \A d \in Clients : Confirmed(d)' => Confirmed(d)
    BY <2>1, ServiceIsThread, ConfirmedKept DEF Keen, Usual, Unreset
  <2> HIDE DEF Others
  <2> QED
    BY <2>1, <2>2, ServiceIsThread, PlainKeen
<1> QED
  BY <1>1, <1>2, <1>3, <1>4 DEF Next

LEMMA ModeStays ==
    ASSUME [Next]_vars
    PROVE  UNCHANGED mode
<1>1. CASE Peer \/ Serves
  BY <1>1 DEF Peer, Serves, OthersWrite, Refresh, Truncate, Receive, ServiceLock, Validate, Find, Add
<1>2. ASSUME NEW c \in Clients, Starts(c) PROVE UNCHANGED mode
  BY <1>2 DEF Starts, Get, ContainsKey, Put, Remove, Expire, GetAll, PutAll, Clear, Start
<1>3. ASSUME NEW c \in Clients, Works(c) PROVE UNCHANGED mode
  BY <1>3 DEF Works, Lock, Ensure, Ensured, LocksDone, Register, Registered, AskRead, AskWrite, AskFails,
              Judge, Release, Finish, Fail, Close, CloseFails, Open, Assign, LockNext, FinishGet,
              FrontKey, FinalizePut
<1>4. CASE UNCHANGED vars
  BY <1>4 DEF vars
<1> QED
  BY <1>1, <1>2, <1>3, <1>4 DEF Next

LEMMA AlwaysAttentive == Spec => [](Steady /\ Attentive)
<1>1. Init => Steady /\ Attentive
  BY InitSteady, InitKeen DEF Attentive
<1>2. Steady /\ Attentive /\ [Next]_vars => Steady' /\ Attentive'
  <2>1. SUFFICES ASSUME Steady, Attentive, [Next]_vars PROVE Steady' /\ Attentive'
    OBVIOUS
  <2>2. Steady'
    BY <2>1, NextSteady
  <2>3. Sound' => Sound
    BY <2>1, ModeStays DEF Sound, target, usage
  <2>4. Sound => Keen'
    BY <2>1, <2>2, NextKeen DEF Attentive
  <2> QED
    BY <2>2, <2>3, <2>4 DEF Attentive
<1> QED
  BY <1>1, <1>2, PTL DEF Spec

(***************************************************************************)
(* In the uses the code is made for, a client that is done has given back  *)
(* every lock as often as it was taken: by the operation, for each key the *)
(* FrontMapListener evicts, and for the bulk unregistration of getAll and  *)
(* get (KeyHolder): CachingMap::get, getAll, put, putAll, remove.          *)
(***************************************************************************)
THEOREM LocksReturnedHolds == Spec => []LocksReturned
<1>1. Steady /\ Attentive => LocksReturned
  <2>1. SUFFICES ASSUME Steady, Keen, NEW c \in Clients, job[c].at = "idle", NEW k \in Keys
                 PROVE  lock[k].owner # c
    BY DEF LocksReturned, AllReturned, Attentive
  <2>2. job[c].locked = {} /\ job[c].evicted = {}
    BY <2>1, IdleHasNothing
  <2> QED
    BY <2>1, <2>2 DEF Keen, Counted
<1> QED
  BY <1>1, AlwaysAttentive, PTL

(***************************************************************************)
(* In those uses, no entry of the front map loses its listener: neither    *)
(* when one thread registers while another unregisters, nor by evictions,  *)
(* nor when the global listener of the strategy "all" is set up or fails   *)
(* (CachingMap::registerListener, unregisterListener, ensureInvalidation-  *)
(* Strategy, FrontMapListener).                                            *)
(***************************************************************************)
THEOREM ListenedHolds == Spec => []Listened
<1>1. Steady /\ Attentive => Listened
  BY DEF Attentive, Keen, Heeded, Listened
<1> QED
  BY <1>1, AlwaysAttentive, PTL
=============================================================================
