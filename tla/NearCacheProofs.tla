---------------------------- MODULE NearCacheProofs ----------------------------
(***************************************************************************)
(* Theorems about NearCache, for any number of clients and keys, any size  *)
(* of the front map, and any set of modes.                                 *)
(***************************************************************************)
EXTENDS NearCache, FiniteSetTheorems, SequenceTheorems, WellFoundedInduction, TLAPS

(***************************************************************************)
(* The inductive invariant.  First the types.                              *)
(***************************************************************************)
Places == {"idle", "lock", "close", "assign", "ensure", "ensuring", "locks", "register",
           "registering", "ask", "asked", "finish", "front", "release", "terminated"}
Jobs   == [op : Operations \cup {"none"}, at : Places, keys : SUBSET Keys, locked : SUBSET Keys,
           values : [Keys -> Versions], unlockable : SUBSET Keys, invalid : SUBSET Keys,
           evicted : SUBSET Keys, holder : BOOLEAN, all : BOOLEAN, reply : {"no", "ok", "error"}]

Kinds   == {"insert", "update", "delete", "load", "refresh", "prime"}
Notes   == [type : Kinds, key : Keys, value : Versions]
Replies == [type : {"reply"}, client : Clients, outcome : {"ok", "error"}]
Resets  == [type : {"truncate"}]
Msgs    == Notes \cup Replies \cup Resets

\* A list whose priming events getAll has taken out is only looked at for its length
\* and its first event, once.
Sifted(c) == job[c].op = "getAll" /\ target # "all" /\ job[c].at \in {"ask", "asked", "finish"}

Working   == job \in [Clients -> Jobs]
Incoming  == inbox \in Seq(Msgs)
Serving   == /\ svc \in [at : {"idle", "lock", "validate", "find", "add"},
                         event : Notes \cup {None}, found : Clients \cup {Ignore, None}]
             /\ svc.at # "idle" => svc.event \in Notes
Heard     == /\ events = [c \in Clients |-> [k \in Keys |-> events[c][k]]]
             /\ \A c \in Clients : ~ Sifted(c) => events[c] \in [Keys -> Seq(Notes)]

Typed == TypeOK /\ Working /\ Incoming /\ Serving /\ Heard

(***************************************************************************)
(* How far an operation is tells what it holds and what it waits for.      *)
(***************************************************************************)
Ones  == {"get", "containsKey", "put", "remove"}
Waiting == {"ensuring", "registering", "asked"}

ShapeOfOne(j) ==
    /\ j.at \in {"lock", "assign", "ensure", "ensuring", "register", "registering",
                 "ask", "asked", "finish", "release", "terminated"}
    /\ j.op # "get" => j.at \in {"lock", "assign", "ask", "asked"}
    /\ \E k \in Keys : /\ j.keys \subseteq {k}
                       /\ j.at \in {"lock", "assign", "ensure", "ensuring", "register", "registering", "ask"}
                             => j.keys = {k}
                       /\ j.locked = IF j.at = "lock" THEN {} ELSE {k}
ShapeOfGetAll(j) ==
    /\ j.at \in {"ensure", "ensuring", "locks", "register", "registering",
                 "ask", "asked", "finish", "front", "release", "terminated"}
    /\ j.at \in {"ensure", "ensuring"} => j.locked = {}
    /\ j.at = "front" => j.keys \subseteq j.locked
ShapeOfPutAll(j) == j.at \in {"locks", "ask", "asked"}
ShapeOfClear(j)  == j.at \in {"close", "ask", "asked"} /\ j.locked = {}

ShapedJob(j) ==
    /\ j.at = "idle" => j = IdleJob
    /\ j.op = "none" => j.at = "idle"
    /\ j.op \in Ones => ShapeOfOne(j)
    /\ j.op = "getAll" => ShapeOfGetAll(j)
    /\ j.op = "putAll" => ShapeOfPutAll(j)
    /\ j.op = "clear" => ShapeOfClear(j)
    /\ j.evicted # {} => j.at \in {"front", "release", "terminated"}
    /\ j.reply = "error" => j.at \in Waiting
    /\ j.reply = "ok" => j.at \in Waiting \cup {"front", "release", "terminated"}

Shaped == \A c \in Clients : ShapedJob(job[c])

\* There is one answer to a request, and somebody waits for it.
Answers == {i \in DOMAIN inbox : inbox[i].type = "reply"}
Answered ==
    /\ \A i \in Answers : Waits(inbox[i].client)
    /\ \A i, j \in Answers : inbox[i].client = inbox[j].client => i = j

\* Who has a key in hand owns its lock, twice if it has evicted a key it has locked.
Locking ==
    /\ \A k \in Keys : lock[k].owner = None <=> lock[k] = Unlocked
    /\ \A k \in Keys : lock[k].owner # None => lock[k].count >= 1
    /\ \A c \in Clients : \A k \in job[c].locked \cup job[c].evicted : lock[k].owner = c
    /\ \A c \in Clients : \A k \in job[c].locked \cap job[c].evicted : lock[k].count >= 2
    /\ \A k \in Keys : lock[k].owner = Service <=> svc.at = "validate" /\ svc.event.key = k
    /\ svc.at = "validate" => lock[svc.event.key].count = 1

\* All keys are locked by clear, when nobody has locked one.
Closed ==
    /\ global = IF gate = None THEN None ELSE Ignore
    /\ gate # None => job[gate].op = "clear" /\ job[gate].at \in {"ask", "asked"}
    /\ gate # None => \A k \in Keys : lock[k] = Unlocked

\* A list belongs to the client that has locked the key, which has one from
\* the time it may wait on.
Listing == {"ensure", "ensuring", "locks", "register", "registering", "ask", "asked", "finish"}
Listed ==
    /\ \A k \in Keys : list[k] \in Clients => /\ k \in job[list[k]].locked
                                              /\ job[list[k]].op \in {"get", "getAll", "put", "putAll"}
                                              /\ job[list[k]].at \in Listing \cup {"front"}
                                              /\ job[list[k]].at = "front" => k \in job[list[k]].keys
    /\ \A c \in Clients : job[c].at \in Listing => \A k \in job[c].locked : list[k] # None
    /\ \A c \in Clients : job[c].at = "front" => \A k \in job[c].keys : list[k] # None

\* What get has not found stays out of the front map while it has the key.
Missing == \A c \in Clients : job[c].op = "get" /\ job[c].at \in Listing =>
              \A k \in job[c].locked : front[k] = Absent

\* The strategy suits its target.
Suited == /\ strategy = "all" => target = "all"
          /\ strategy = "present" => target # "all"
          /\ \A c \in Clients : /\ job[c].at \in {"register", "registering"} => target # "all"
                                /\ job[c].at = "ensuring" => target = "all"

Steady == Typed /\ Shaped /\ Answered /\ Locking /\ Closed /\ Listed /\ Missing /\ Suited

\* A message that tells of a change of a key.
Changes(m, k) == m.type \in {"insert", "update", "delete"} /\ m.key = k

-----------------------------------------------------------------------------
(***************************************************************************)
(* Lemmas about the data.                                                  *)
(***************************************************************************)
\* The constants are different, so an owner is one of four kinds.
LEMMA Parties ==
    /\ None # Ignore /\ Service # None /\ Service # Ignore
    /\ \A c \in Clients : c # None /\ c # Ignore /\ c # Service
BY NearCacheConstants

LEMMA VersionParts == Absent \in Versions /\ Versions \subseteq Nat
BY NearCacheConstants DEF Absent, Versions

LEMMA IdleIsJob == IdleJob \in Jobs /\ ShapedJob(IdleJob)
<1>1. IdleJob \in Jobs
  BY VersionParts DEF IdleJob, Jobs, Places
<1>2. ShapedJob(IdleJob)
  BY DEF ShapedJob, IdleJob, Ones
<1> QED
  BY <1>1, <1>2

\* The messages are of three kinds, told apart by their type.
LEMMA MessageParts ==
    /\ \A m \in Msgs : m.type = "reply" => m \in Replies
    /\ \A m \in Msgs : m.type \notin {"reply", "truncate"} => m \in Notes
    /\ \A m \in Msgs : m.type = "truncate" => m \in Resets
    /\ \A m \in Notes : m.type \in Kinds /\ m.key \in Keys /\ m.value \in Versions
    /\ \A m \in Notes \cup Resets : m.type # "reply"
    /\ \A m \in Replies : m.type = "reply" /\ m.client \in Clients /\ m.outcome \in {"ok", "error"}
    /\ \A c \in Clients, o \in {"ok", "error"} : Reply(c, o) \in Replies
    /\ \A k \in Keys, t \in Kinds, v \in Versions : Event(k, t, v) \in Notes
    /\ [type |-> "truncate"] \in Resets
    /\ Notes \subseteq Msgs /\ Replies \subseteq Msgs /\ Resets \subseteq Msgs
<1>1. \A m \in Notes : m.type \in Kinds /\ m.key \in Keys /\ m.value \in Versions
  BY DEF Notes
<1>2. \A m \in Replies : m.type = "reply" /\ m.client \in Clients /\ m.outcome \in {"ok", "error"}
  BY DEF Replies
<1>3. \A m \in Resets : m.type = "truncate"
  BY DEF Resets
<1>4. "reply" \notin Kinds /\ "truncate" \notin Kinds
  BY DEF Kinds
<1>5. \A m \in Msgs : m \in Notes \/ m \in Replies \/ m \in Resets
  BY DEF Msgs
<1>6. /\ \A c \in Clients, o \in {"ok", "error"} : Reply(c, o) \in Replies
      /\ \A k \in Keys, t \in Kinds, v \in Versions : Event(k, t, v) \in Notes
      /\ [type |-> "truncate"] \in Resets
  BY DEF Reply, Replies, Event, Notes, Resets
<1>7. Notes \subseteq Msgs /\ Replies \subseteq Msgs /\ Resets \subseteq Msgs
  BY DEF Msgs
<1> QED
  BY <1>1, <1>2, <1>3, <1>4, <1>5, <1>6, <1>7

\* What the peer tells about a set of keys, in some order.
LEMMA OrdersParts ==
    ASSUME NEW S \in SUBSET Keys, NEW q \in Orders(S)
    PROVE  /\ Cardinality(S) \in Nat
           /\ q \in [1..Cardinality(S) -> S]
           /\ \A k \in S : \E i \in 1..Cardinality(S) : q[i] = k
<1>1. IsFiniteSet(S)
  BY NearCacheConstants, FS_Subset
<1>2. Cardinality(S) \in Nat
  BY <1>1, FS_CardinalityType
<1> QED
  BY <1>2 DEF Orders

\* The inbox grows by events, and by an answer at its end or none.
Grows == /\ inbox' \in Seq(Msgs)
         /\ Len(inbox) <= Len(inbox')
         /\ \A i \in 1..Len(inbox) : inbox'[i] = inbox[i]
Tells      == Grows /\ \A i \in (Len(inbox) + 1)..Len(inbox') : inbox'[i] \in Notes \cup Resets
Answering(c, o) == /\ Grows /\ Len(inbox) < Len(inbox')
                   /\ inbox'[Len(inbox')] = Reply(c, o)
                   /\ \A i \in (Len(inbox) + 1)..(Len(inbox') - 1) : inbox'[i] \in Notes

LEMMA InboxGrows ==
    ASSUME inbox \in Seq(Msgs), NEW n \in Nat, NEW es \in [1..n -> Notes], NEW ans \in Seq(Msgs),
           inbox' = inbox \o es \o ans
    PROVE  /\ Grows
           /\ Len(inbox') = Len(inbox) + n + Len(ans)
           /\ \A i \in 1..n : inbox'[Len(inbox) + i] = es[i]
           /\ \A i \in 1..Len(ans) : inbox'[Len(inbox) + n + i] = ans[i]
<1>1. es \in Seq(Msgs) /\ Len(es) = n
  BY MessageParts
<1> DEFINE q == inbox \o es
<1>2. /\ q \in Seq(Msgs) /\ Len(q) = Len(inbox) + n
      /\ \A i \in 1..(Len(inbox) + n) : q[i] = IF i <= Len(inbox) THEN inbox[i] ELSE es[i - Len(inbox)]
  <2>1. /\ q \in Seq(Msgs) /\ Len(q) = Len(inbox) + Len(es)
        /\ \A i \in 1..(Len(inbox) + Len(es)) : q[i] = IF i <= Len(inbox) THEN inbox[i] ELSE es[i - Len(inbox)]
    BY <1>1, ConcatProperties, Zenon
  <2> QED
    BY <1>1, <2>1
<1>2a. inbox' = q \o ans
  OBVIOUS
<1> HIDE DEF q
<1>2b. /\ q \o ans \in Seq(Msgs) /\ Len(q \o ans) = Len(q) + Len(ans)
      /\ \A i \in 1..(Len(q) + Len(ans)) : (q \o ans)[i] = IF i <= Len(q) THEN q[i] ELSE ans[i - Len(q)]
  BY <1>2, ConcatProperties, Zenon
<1>3. /\ inbox' \in Seq(Msgs) /\ Len(inbox') = Len(q) + Len(ans)
      /\ \A i \in 1..(Len(q) + Len(ans)) : inbox'[i] = IF i <= Len(q) THEN q[i] ELSE ans[i - Len(q)]
  BY <1>2a, <1>2b
<1>4. Len(inbox) \in Nat /\ Len(ans) \in Nat
  BY LenProperties
<1>5. \A i \in 1..Len(inbox) : inbox'[i] = inbox[i]
  BY <1>2, <1>3, <1>4
<1>6. \A i \in 1..n : inbox'[Len(inbox) + i] = es[i]
  BY <1>2, <1>3, <1>4
<1>7. \A i \in 1..Len(ans) : inbox'[Len(inbox) + n + i] = ans[i]
  BY <1>2, <1>3, <1>4
<1>8. Len(inbox') = Len(inbox) + n + Len(ans) /\ Len(inbox) <= Len(inbox')
  BY <1>2, <1>3, <1>4
<1>9. Grows
  BY <1>3, <1>5, <1>8 DEF Grows
<1> QED
  BY <1>6, <1>7, <1>8, <1>9
\* A write tells of each key it changes, and of nothing else.
WriteLog(n, S, v, ans) ==
    /\ Len(inbox') = Len(inbox) + n + Len(ans)
    /\ \A i \in 1..n : /\ inbox'[Len(inbox) + i] \in Notes
                       /\ inbox'[Len(inbox) + i].type \in {"insert", "update", "delete"}
    /\ \A k \in S \cap listening : back[k] # v =>
          \E i \in 1..n : inbox'[Len(inbox) + i].key = k
    /\ \A i \in 1..Len(ans) : inbox'[Len(inbox) + n + i] = ans[i]

LEMMA WriteTells ==
    ASSUME Typed, NEW S \in SUBSET Keys, NEW v \in Versions, NEW ans \in Seq(Msgs), Write(S, v, ans)
    PROVE  /\ back' = [k \in Keys |-> IF k \in S THEN v ELSE back[k]]
           /\ back' \in [Keys -> Versions]
           /\ Grows
           /\ \E n \in Nat : WriteLog(n, S, v, ans)
<1> DEFINE T == {k \in S \cap listening : back[k] # v}
<1>1. back' = [k \in Keys |-> IF k \in S THEN v ELSE back[k]] /\ back' \in [Keys -> Versions]
  BY DEF Write, Typed, TypeOK
<1>2. PICK q \in Orders(T) :
         inbox' = inbox \o [i \in DOMAIN q |-> Event(q[i], Natural(q[i], v), Absent)] \o ans
  BY DEF Write
<1>3. /\ Cardinality(T) \in Nat /\ q \in [1..Cardinality(T) -> T]
      /\ \A k \in T : \E i \in 1..Cardinality(T) : q[i] = k
  <2>1. T \in SUBSET Keys
    OBVIOUS
  <2> HIDE DEF T
  <2> QED
    BY <2>1, OrdersParts
<1> DEFINE n == Cardinality(T)
           es == [i \in 1..n |-> Event(q[i], Natural(q[i], v), Absent)]
<1>4. \A i \in 1..n : q[i] \in T /\ T \subseteq Keys
  BY <1>3
<1>5. \A i \in 1..n : /\ es[i].type \in {"insert", "update", "delete"} /\ es[i].key = q[i]
                      /\ es[i] \in Notes
  <2>1. \A k \in Keys : Natural(k, v) \in {"insert", "update", "delete"}
    BY DEF Natural
  <2>2. \A k \in Keys : \A t \in {"insert", "update", "delete"} :
           Event(k, t, Absent) \in Notes /\ Event(k, t, Absent).type = t /\ Event(k, t, Absent).key = k
    BY VersionParts DEF Event, Notes, Kinds
  <2> QED
    BY <1>4, <2>1, <2>2
<1>6. es \in [1..n -> Notes]
  BY <1>5
<1>7. inbox' = inbox \o es \o ans
  BY <1>2, <1>3
<1>8. n \in Nat /\ inbox \in Seq(Msgs)
  BY <1>3 DEF Typed, Incoming
<1> HIDE DEF n, es
<1>9. /\ Grows /\ Len(inbox') = Len(inbox) + n + Len(ans)
      /\ \A i \in 1..n : inbox'[Len(inbox) + i] = es[i]
      /\ \A i \in 1..Len(ans) : inbox'[Len(inbox) + n + i] = ans[i]
  BY <1>6, <1>7, <1>8, InboxGrows, Zenon
<1>10. \A k \in S \cap listening : back[k] # v => \E i \in 1..n : inbox'[Len(inbox) + i].key = k
  <2>1. SUFFICES ASSUME NEW k \in S \cap listening, back[k] # v
                 PROVE  \E i \in 1..n : inbox'[Len(inbox) + i].key = k
    OBVIOUS
  <2>2. PICK i \in 1..n : q[i] = k
    BY <1>3, <2>1 DEF n
  <2> QED
    BY <1>5, <1>9, <2>2
<1>11. \A i \in 1..n : /\ inbox'[Len(inbox) + i] \in Notes
                       /\ inbox'[Len(inbox) + i].type \in {"insert", "update", "delete"}
  BY <1>5, <1>9
<1>12. WriteLog(n, S, v, ans)
  BY <1>9, <1>10, <1>11 DEF WriteLog
<1> QED
  BY <1>1, <1>8, <1>9, <1>12

\* The two forms of it: without an answer, and with one.
LEMMA WriteEnds ==
    ASSUME Typed, NEW n \in Nat, NEW ans \in Seq(Msgs), Grows,
           Len(inbox') = Len(inbox) + n + Len(ans),
           \A i \in 1..n : inbox'[Len(inbox) + i] \in Notes,
           \A i \in 1..Len(ans) : inbox'[Len(inbox) + n + i] = ans[i]
    PROVE  /\ ans = <<>> => Tells
           /\ \A c \in Clients, o \in {"ok", "error"} : ans = <<Reply(c, o)>> => Answering(c, o)
<1>0. Len(inbox) \in Nat
  BY LenProperties DEF Typed, Incoming
<1>1. ASSUME NEW i \in (Len(inbox) + 1)..(Len(inbox) + n) PROVE inbox'[i] \in Notes
  <2>1. i - Len(inbox) \in 1..n /\ i = Len(inbox) + (i - Len(inbox))
    BY <1>0
  <2> QED
    BY <2>1
<1>2. ASSUME ans = <<>> PROVE Tells
  <2>1. Len(inbox') = Len(inbox) + n
    BY <1>0, <1>2
  <2> QED
    BY <1>1, <2>1 DEF Tells
<1>3. ASSUME NEW c \in Clients, NEW o \in {"ok", "error"}, ans = <<Reply(c, o)>> PROVE Answering(c, o)
  <2>1. Len(ans) = 1 /\ ans[1] = Reply(c, o)
    BY <1>3
  <2>2. Len(inbox') = Len(inbox) + n + 1
    BY <1>0, <2>1
  <2>3. inbox'[Len(inbox')] = Reply(c, o)
    BY <2>1, <2>2
  <2> QED
    BY <1>0, <1>1, <2>2, <2>3 DEF Answering
<1> QED
  BY <1>2, <1>3
-----------------------------------------------------------------------------
(***************************************************************************)
(* What each step does to the operation of its client.                     *)
(***************************************************************************)
Others(c) == \A d \in Clients : d # c => job'[d] = job[d]
Ends(c)   == Others(c) /\ job'[c] = IdleJob
Goes(c, a, L, E, r) ==
    /\ Others(c)
    /\ job'[c].op = job[c].op /\ job'[c].all = job[c].all
    /\ job'[c].at = a /\ job'[c].locked = L /\ job'[c].evicted = E /\ job'[c].reply = r
\* From one place to another, with what it has.
Moves(c, a) == Goes(c, a, job[c].locked, job[c].evicted, job[c].reply)

LEMMA Becomes ==
    ASSUME Working, NEW c \in Clients, NEW j \in Jobs, job' = [job EXCEPT ![c] = j]
    PROVE  Working' /\ Others(c) /\ job'[c] = j
BY DEF Working, Others

Begins(c, op, a, K) ==
    /\ Others(c)
    /\ job'[c].op = op /\ job'[c].at = a /\ job'[c].keys = K /\ job'[c].locked = {}
    /\ job'[c].evicted = {} /\ job'[c].reply = "no" /\ job'[c].values = IdleJob.values
    /\ job'[c].all => op \in {"put", "putAll"} /\ strategy = "all"

LEMMA StartEffect ==
    ASSUME Working, NEW c \in Clients, NEW op \in Operations, NEW a \in Places, NEW K \in SUBSET Keys,
           Start(c, op, a, K)
    PROVE  Working' /\ Begins(c, op, a, K)
<1> DEFINE all == op \in {"put", "putAll"} /\ strategy = "all"
           j == [IdleJob EXCEPT !.op = op, !.at = a, !.keys = K, !.all = all]
<1>1. job' = [job EXCEPT ![c] = j] /\ all \in BOOLEAN
  BY DEF Start
<1> HIDE DEF all
<1>2. j \in Jobs
  BY <1>1, IdleIsJob DEF Jobs
<1>3. Working' /\ Others(c) /\ job'[c] = j
  BY <1>1, <1>2, Becomes
<1>4. /\ j.op = op /\ j.at = a /\ j.keys = K /\ j.locked = {}
      /\ j.evicted = {} /\ j.reply = "no" /\ j.values = IdleJob.values /\ j.all = all
  BY DEF IdleJob
<1> QED
  BY <1>3, <1>4 DEF Begins, all

LEMMA EndsEffect ==
    ASSUME Working, NEW c \in Clients, job' = [job EXCEPT ![c] = IdleJob]
    PROVE  Working' /\ Ends(c)
BY IdleIsJob DEF Working, Ends, Others

LEMMA LockEffect ==
    ASSUME Working, NEW c \in Clients, Lock(c)
    PROVE  Working' /\ Goes(c, "assign", job[c].keys, job[c].evicted, job[c].reply) /\ job'[c].keys = job[c].keys
<1>1. job' = [job EXCEPT ![c] = [job[c] EXCEPT !.at = "assign", !.locked = job[c].keys]]
  BY DEF Lock
<1>2. [job[c] EXCEPT !.at = "assign", !.locked = job[c].keys] \in Jobs
  <2>1. job[c] \in Jobs
    BY DEF Working
  <2>2. "assign" \in Places /\ job[c].keys \in SUBSET Keys
    BY <2>1 DEF Jobs, Places
  <2> QED
    BY <2>1, <2>2 DEF Jobs
<1> QED
  BY <1>1, <1>2 DEF Working, Goes, Others, Jobs

\* A step that only moves on.
LEMMA MoveEffect ==
    ASSUME Working, NEW c \in Clients, NEW a \in Places, job' = [job EXCEPT ![c].at = a]
    PROVE  Working' /\ Moves(c, a) /\ job'[c].keys = job[c].keys /\ job'[c].values = job[c].values
<1>1. job' = [job EXCEPT ![c] = [job[c] EXCEPT !.at = a]]
  OBVIOUS
<1>2. [job[c] EXCEPT !.at = a] \in Jobs
  <2>1. job[c] \in Jobs
    BY DEF Working
  <2> QED
    BY <2>1 DEF Jobs
<1>3. Working' /\ Others(c) /\ job'[c] = [job[c] EXCEPT !.at = a]
  BY <1>1, <1>2 DEF Working, Others
<1> QED
  BY <1>3 DEF Working, Moves, Goes, Jobs

LEMMA AfterEnsureIsPlace == \A c \in Clients : AfterEnsure(c) \in {"locks", "ask", "register"}
BY DEF AfterEnsure

LEMMA EnsuredEffect ==
    ASSUME Working, NEW c \in Clients, Ensured(c)
    PROVE  /\ Working' /\ Goes(c, AfterEnsure(c), job[c].locked, job[c].evicted, "no")
           /\ job'[c].keys = job[c].keys /\ job'[c].values = job[c].values
<1>1. AfterEnsure(c) \in Places
  BY AfterEnsureIsPlace DEF Places
<1> QED
  BY <1>1 DEF Working, Ensured, Goes, Others, Jobs

LEMMA LockNextEffect ==
    ASSUME Working, NEW c \in Clients, NEW k \in Keys, LockNext(c, k)
    PROVE  /\ Working'
           /\ Goes(c, "locks", IF Free(k, c) THEN job[c].locked \cup {k} ELSE job[c].locked,
                   job[c].evicted, job[c].reply)
           /\ job'[c].keys = job[c].keys /\ job'[c].values = job[c].values
<1>1. job[c] \in Jobs /\ job[c].at = "locks"
  BY DEF Working, LockNext
<1>2. CASE Free(k, c)
  <2> DEFINE j == [job[c] EXCEPT !.locked = job[c].locked \cup {k}]
  <2>1. job' = [job EXCEPT ![c] = j]
    BY <1>2 DEF LockNext
  <2>2. j \in Jobs
    BY <1>1 DEF Jobs
  <2>3. Working' /\ Others(c) /\ job'[c] = j
    BY <2>1, <2>2, Becomes
  <2> QED
    BY <1>1, <1>2, <2>3 DEF Goes, Jobs
<1>3. CASE ~ Free(k, c)
  <2> DEFINE j == [job[c] EXCEPT !.unlockable = job[c].unlockable \cup {k}]
  <2>1. job' = [job EXCEPT ![c] = j]
    BY <1>3 DEF LockNext
  <2>2. j \in Jobs
    BY <1>1 DEF Jobs
  <2>3. Working' /\ Others(c) /\ job'[c] = j
    BY <2>1, <2>2, Becomes
  <2> QED
    BY <1>1, <1>3, <2>3 DEF Goes, Jobs
<1> QED
  BY <1>2, <1>3
\* A set of indexes has a least one.
LEMMA LeastIndex ==
    ASSUME NEW S \in SUBSET Nat, S # {}
    PROVE  \E i \in S : \A j \in S : i <= j
<1>1. IsWellFoundedOn({r \in Nat \X Nat : r[1] < r[2]}, Nat)
  BY NatLessThanWellFounded DEF OpToRel
<1>2. PICK i \in S : \A j \in S : ~ (<<j, i>> \in {r \in Nat \X Nat : r[1] < r[2]})
  BY <1>1, WFMin
<1>3. ASSUME NEW j \in S, j < i PROVE FALSE
  <2>1. <<j, i>> \in Nat \X Nat /\ <<j, i>>[1] = j /\ <<j, i>>[2] = i
    OBVIOUS
  <2>2. <<j, i>> \in {r \in Nat \X Nat : r[1] < r[2]}
    BY <1>3, <2>1
  <2> QED
    BY <1>2, <2>2
<1>4. \A j \in S : j \in Nat /\ i \in Nat /\ ~ (j < i)
  BY <1>3
<1> QED
  BY <1>4
LEMMA PrimingType ==
    ASSUME Working, NEW c \in Clients, NEW k \in Keys, events[c][k] \in Seq(Notes), k \in Primed(c)
    PROVE  \E i \in Primes(c, k) : /\ \A j \in Primes(c, k) : i <= j
                                   /\ Priming(c, k) = events[c][k][i] /\ Priming(c, k).value \in Versions
<1>1. Primes(c, k) \subseteq 1..Len(events[c][k]) /\ Primes(c, k) # {}
  BY LenProperties DEF Primes, Primed
<1>2. Primes(c, k) \in SUBSET Nat
  BY <1>1, LenProperties
<1>3. \E i \in Primes(c, k) : \A j \in Primes(c, k) : i <= j
  BY <1>1, <1>2, LeastIndex
<1>4. PICK i \in Primes(c, k) : (\A j \in Primes(c, k) : i <= j) /\ Priming(c, k) = events[c][k][i]
  BY <1>3 DEF Priming
<1>5. Priming(c, k) \in Notes
  BY <1>1, <1>4, ElementOfSeq
<1> QED
  BY <1>4, <1>5, MessageParts

LEMMA RegisteredEffect ==
    ASSUME Typed, NEW c \in Clients, Registered(c)
    PROVE  /\ Working'
           /\ Goes(c, IF job[c].keys \subseteq Primed(c) THEN "finish" ELSE "ask",
                   job[c].locked, job[c].evicted, "no")
           /\ job'[c].keys = job[c].keys \ Primed(c)
           /\ job'[c].values = [k \in Keys |-> IF k \in Primed(c) THEN Priming(c, k).value ELSE Absent]
<1> DEFINE V == [k \in Keys |-> IF k \in Primed(c) THEN Priming(c, k).value ELSE Absent]
           a == IF job[c].keys \subseteq Primed(c) THEN "finish" ELSE "ask"
           j == [job[c] EXCEPT !.reply = "no", !.keys = job[c].keys \ Primed(c), !.values = V, !.at = a]
<1>1. job[c] \in Jobs /\ job[c].at = "registering"
  BY DEF Typed, Working, Registered
<1>2. events[c] \in [Keys -> Seq(Notes)]
  BY <1>1 DEF Typed, Heard, Sifted
<1>3. V \in [Keys -> Versions]
  <2>1. ASSUME NEW k \in Keys PROVE V[k] \in Versions
    BY <1>2, PrimingType, VersionParts DEF Typed
  <2> QED
    BY <2>1
<1>4. a \in Places
  BY DEF Places
<1>5. job' = [job EXCEPT ![c] = j]
  BY DEF Registered
<1> HIDE DEF V, a
<1>6. j \in Jobs
  BY <1>1, <1>3, <1>4 DEF Jobs
<1>7. Working' /\ Others(c) /\ job'[c] = j
  BY <1>5, <1>6, Becomes DEF Typed
<1>8. /\ job'[c].op = job[c].op /\ job'[c].all = job[c].all /\ job'[c].at = a /\ job'[c].locked = job[c].locked
      /\ job'[c].evicted = job[c].evicted /\ job'[c].reply = "no"
      /\ job'[c].keys = job[c].keys \ Primed(c) /\ job'[c].values = V
  BY <1>1, <1>7 DEF Jobs
<1> QED
  BY <1>7, <1>8 DEF Goes, V, a

\* A read may load keys that the back map does not have.
LEMMA AskReadEffect ==
    ASSUME Typed, NEW c \in Clients, AskRead(c)
    PROVE  /\ Working' /\ Moves(c, "asked") /\ job'[c].keys = job[c].keys
           /\ job'[c].values = [k \in Keys |-> IF k \in job[c].keys THEN back'[k] ELSE job[c].values[k]]
           /\ version' \in Versions /\ version <= version'
           /\ back' \in [Keys -> Versions]
           /\ \A k \in Keys : back'[k] = back[k] \/ (back[k] = Absent /\ back'[k] = version')
           /\ \E o \in {"ok", "error"} : Answering(c, o)
           /\ \A i \in (Len(inbox) + 1)..Len(inbox') : inbox'[i].type \in {"load", "reply"}
<1>1. PICK L \in IF "load" \in usage /\ job[c].op # "containsKey"
                 THEN SUBSET {k \in job[c].keys : back[k] = Absent} ELSE {{}} :
          /\ IF L = {} THEN UNCHANGED version ELSE NewVersion
          /\ back' = [k \in Keys |-> IF k \in L THEN version' ELSE back[k]]
          /\ \E q \in Orders(L \cap listening), o \in Outcomes :
                inbox' = inbox \o [i \in DOMAIN q |-> Event(q[i], "load", Absent)] \o <<Reply(c, o)>>
  BY DEF AskRead
<1>2. job[c] \in Jobs /\ L \subseteq {k \in job[c].keys : back[k] = Absent} /\ L \in SUBSET Keys
  <2>1. job[c] \in Jobs
    BY DEF Typed, Working
  <2>2. job[c].keys \subseteq Keys
    BY <2>1 DEF Jobs
  <2> QED
    BY <1>1, <2>1, <2>2
<1>3. version' \in Versions /\ version <= version'
  BY <1>1, NearCacheConstants DEF Typed, TypeOK, NewVersion, Versions
<1>4. /\ back' \in [Keys -> Versions]
      /\ \A k \in Keys : back'[k] = back[k] \/ (back[k] = Absent /\ back'[k] = version')
  BY <1>1, <1>2, <1>3 DEF Typed, TypeOK
<1>5. PICK q \in Orders(L \cap listening), o \in Outcomes :
         inbox' = inbox \o [i \in DOMAIN q |-> Event(q[i], "load", Absent)] \o <<Reply(c, o)>>
  BY <1>1
<1> DEFINE S == L \cap listening
           n == Cardinality(S)
           es == [i \in 1..n |-> Event(q[i], "load", Absent)]
<1>6. n \in Nat /\ q \in [1..n -> S] /\ S \subseteq Keys
  BY <1>2, OrdersParts
<1>7. \A i \in 1..n : es[i] \in Notes /\ es[i].type = "load"
  <2>1. \A k \in Keys : Event(k, "load", Absent) \in Notes /\ Event(k, "load", Absent).type = "load"
    BY VersionParts DEF Event, Notes, Kinds
  <2> QED
    BY <1>6, <2>1
<1>8. es \in [1..n -> Notes] /\ inbox' = inbox \o es \o <<Reply(c, o)>> /\ o \in {"ok", "error"}
  BY <1>5, <1>6, <1>7 DEF Outcomes
<1>9. <<Reply(c, o)>> \in Seq(Msgs) /\ Len(<<Reply(c, o)>>) = 1 /\ <<Reply(c, o)>>[1] = Reply(c, o)
  BY <1>8, MessageParts
<1>10. inbox \in Seq(Msgs) /\ Len(inbox) \in Nat
  BY LenProperties DEF Typed, Incoming
<1> DEFINE ans == <<Reply(c, o)>>
<1> HIDE DEF n, es, S, ans
<1>11. /\ Grows /\ Len(inbox') = Len(inbox) + n + 1
       /\ \A i \in 1..n : inbox'[Len(inbox) + i] = es[i]
       /\ inbox'[Len(inbox) + n + 1] = Reply(c, o)
  <2>1. inbox' = inbox \o es \o ans /\ ans \in Seq(Msgs) /\ Len(ans) = 1 /\ ans[1] = Reply(c, o)
    BY <1>8, <1>9 DEF ans
  <2>2. /\ Grows /\ Len(inbox') = Len(inbox) + n + Len(ans)
        /\ \A i \in 1..n : inbox'[Len(inbox) + i] = es[i]
        /\ \A i \in 1..Len(ans) : inbox'[Len(inbox) + n + i] = ans[i]
    BY <1>6, <1>8, <1>10, <2>1, InboxGrows, Zenon
  <2>3. 1 \in 1..Len(ans)
    BY <2>1
  <2>4. inbox'[Len(inbox) + n + 1] = Reply(c, o)
    BY <2>1, <2>2, <2>3, Zenon
  <2> QED
    BY <2>1, <2>2, <2>4, Zenon
<1>12. \A i \in (Len(inbox) + 1)..(Len(inbox) + n) : inbox'[i] \in Notes /\ inbox'[i].type = "load"
  <2>1. SUFFICES ASSUME NEW i \in (Len(inbox) + 1)..(Len(inbox) + n)
                 PROVE  inbox'[i] \in Notes /\ inbox'[i].type = "load"
    OBVIOUS
  <2>2. i - Len(inbox) \in 1..n /\ i = Len(inbox) + (i - Len(inbox))
    BY <1>6, <1>10
  <2> QED
    BY <1>7, <1>11, <2>2
<1>13. Answering(c, o)
  BY <1>6, <1>10, <1>11, <1>12 DEF Answering
<1>14. \A i \in (Len(inbox) + 1)..Len(inbox') : inbox'[i].type \in {"load", "reply"}
  <2>1. Reply(c, o).type = "reply"
    BY DEF Reply
  <2> QED
    BY <1>6, <1>10, <1>11, <1>12, <2>1
<1>15. /\ Working' /\ Moves(c, "asked") /\ job'[c].keys = job[c].keys
       /\ job'[c].values = [k \in Keys |-> IF k \in job[c].keys THEN back'[k] ELSE job[c].values[k]]
  <2> DEFINE V == [k \in Keys |-> IF k \in job[c].keys THEN back'[k] ELSE job[c].values[k]]
             j == [job[c] EXCEPT !.at = "asked", !.values = V]
  <2>1. job' = [job EXCEPT ![c] = j]
    BY DEF AskRead
  <2>2. V \in [Keys -> Versions]
    BY <1>2, <1>4 DEF Jobs
  <2> HIDE DEF V
  <2>3. j \in Jobs
    BY <1>2, <2>2 DEF Jobs, Places
  <2>4. Working' /\ Others(c) /\ job'[c] = j
    BY <2>1, <2>3, Becomes DEF Typed
  <2>5. Moves(c, "asked") /\ job'[c].keys = job[c].keys /\ job'[c].values = V
    BY <1>2, <2>4 DEF Jobs, Moves, Goes
  <2> QED
    BY <2>4, <2>5 DEF V
<1> QED
  BY <1>3, <1>4, <1>8, <1>13, <1>14, <1>15
\* A write changes what it changes and tells of it before it answers.
Told == \A k \in Keys : back'[k] # back[k] /\ k \in listening =>
           \E i \in (Len(inbox) + 1)..Len(inbox') : Changes(inbox'[i], k)
OnlyChanges == \A i \in (Len(inbox) + 1)..Len(inbox') :
                  inbox'[i].type \in {"insert", "update", "delete", "reply"}

LEMMA AnsweredWrite ==
    ASSUME Typed, NEW c \in Clients, NEW o \in {"ok", "error"}, NEW S \in SUBSET Keys, NEW v \in Versions,
           NEW ans, ans = <<Reply(c, o)>>, Write(S, v, ans)
    PROVE  /\ back' = [k \in Keys |-> IF k \in S THEN v ELSE back[k]]
           /\ back' \in [Keys -> Versions]
           /\ Answering(c, o) /\ OnlyChanges /\ Told
           /\ \A k \in Keys : back'[k] # back[k] /\ k \in listening =>
                 \E i \in (Len(inbox) + 1)..(Len(inbox') - 1) : Changes(inbox'[i], k)
<1>1. ans \in Seq(Msgs) /\ Len(ans) = 1 /\ ans[1] = Reply(c, o)
  BY MessageParts
<1>5. /\ back' = [k \in Keys |-> IF k \in S THEN v ELSE back[k]]
      /\ back' \in [Keys -> Versions] /\ Grows
  BY <1>1, WriteTells
<1>6. PICK n \in Nat : WriteLog(n, S, v, ans)
  BY <1>1, WriteTells
<1>7. Answering(c, o)
  <2>1. \A i \in 1..n : inbox'[Len(inbox) + i] \in Notes
    BY <1>6 DEF WriteLog
  <2> QED
    BY <1>1, <1>5, <1>6, <2>1, WriteEnds DEF WriteLog
<1>8. Len(inbox) \in Nat /\ Len(inbox') = Len(inbox) + n + 1
  BY <1>1, <1>6, LenProperties DEF WriteLog, Typed, Incoming
<1>9. ASSUME NEW i \in (Len(inbox) + 1)..(Len(inbox) + n)
      PROVE  inbox'[i].type \in {"insert", "update", "delete"}
  <2>1. i - Len(inbox) \in 1..n /\ i = Len(inbox) + (i - Len(inbox))
    BY <1>8
  <2> QED
    BY <1>6, <2>1 DEF WriteLog
<1>10. OnlyChanges
  <2>1. inbox'[Len(inbox')].type = "reply"
    BY <1>7 DEF Answering, Reply
  <2>2. \A i \in (Len(inbox) + 1)..Len(inbox') : i \in (Len(inbox) + 1)..(Len(inbox) + n) \/ i = Len(inbox')
    BY <1>8
  <2> QED
    BY <1>9, <2>1, <2>2 DEF OnlyChanges
<1>11. ASSUME NEW k \in Keys, back'[k] # back[k], k \in listening
       PROVE  \E i \in (Len(inbox) + 1)..(Len(inbox') - 1) : Changes(inbox'[i], k)
  <2>1. k \in S \cap listening /\ back[k] # v
    BY <1>5, <1>11
  <2>2. PICK i \in 1..n : inbox'[Len(inbox) + i].key = k
    BY <1>6, <2>1 DEF WriteLog
  <2>3. Changes(inbox'[Len(inbox) + i], k)
    BY <1>6, <2>2 DEF Changes, WriteLog
  <2>4. Len(inbox) + i \in (Len(inbox) + 1)..(Len(inbox') - 1)
    BY <1>8
  <2> QED
    BY <2>3, <2>4
<1>12. Told
  <2>1. (Len(inbox) + 1)..(Len(inbox') - 1) \subseteq (Len(inbox) + 1)..Len(inbox')
    BY <1>8
  <2> QED
    BY <1>11, <2>1 DEF Told
<1> QED
  BY <1>5, <1>7, <1>10, <1>11, <1>12

LEMMA AskWriteEffect ==
    ASSUME Typed, NEW c \in Clients, ShapedJob(job[c]), AskWrite(c)
    PROVE  /\ Working' /\ Moves(c, "asked") /\ job'[c].keys = job[c].keys
           /\ job'[c].values = [k \in Keys |-> IF k \in job[c].keys THEN back'[k] ELSE Absent]
           /\ version' \in Versions /\ version <= version'
           /\ back' \in [Keys -> Versions]
           /\ \A k \in Keys : back'[k] \in {back[k], Absent, version'}
           /\ job[c].op \in {"put", "putAll"} =>
                 version' = version + 1 /\ \A k \in job[c].keys : back'[k] = version'
           /\ \E o \in {"ok", "error"} : Answering(c, o)
           /\ OnlyChanges /\ Told
           /\ \A k \in Keys : back'[k] # back[k] /\ k \in listening =>
                 \E i \in (Len(inbox) + 1)..(Len(inbox') - 1) : Changes(inbox'[i], k)
<1>1. job[c] \in Jobs /\ job[c].keys \in SUBSET Keys
  BY DEF Typed, Working, Jobs
<1>2. job[c].at = "ask" /\ job[c].op \in {"put", "putAll", "remove", "clear"}
  BY <1>1 DEF AskWrite, ShapedJob, Jobs, Operations
<1>3. PICK o \in Outcomes :
          CASE job[c].op \in {"put", "putAll"} ->
                  NewVersion /\ Write(job[c].keys, version', <<Reply(c, o)>>)
            [] job[c].op = "remove" ->
                  UNCHANGED version /\ Write(job[c].keys, Absent, <<Reply(c, o)>>)
            [] job[c].op = "clear" ->
                  UNCHANGED version /\ Write(Keys, Absent, <<Reply(c, o)>>)
  BY DEF AskWrite
<1>4. o \in {"ok", "error"} /\ version \in Nat /\ version \in Versions
  BY VersionParts DEF Outcomes, Typed, TypeOK
<1>5. /\ version' \in Versions /\ version <= version'
      /\ \E S \in SUBSET Keys, v \in {Absent, version'} :
            /\ Write(S, v, <<Reply(c, o)>>)
            /\ job[c].op \in {"put", "putAll"} => version' = version + 1 /\ S = job[c].keys /\ v = version'
  <2>1. CASE job[c].op \in {"put", "putAll"}
    <3>1. NewVersion /\ Write(job[c].keys, version', <<Reply(c, o)>>)
      BY <1>3, <2>1
    <3>2. version' = version + 1 /\ version' \in Versions /\ version <= version'
      BY <1>4, <3>1, NearCacheConstants DEF NewVersion, Versions
    <3> QED
      BY <1>1, <3>1, <3>2
  <2>2. CASE job[c].op = "remove"
    BY <1>1, <1>3, <1>4, <2>2
  <2>3. CASE job[c].op = "clear"
    BY <1>1, <1>3, <1>4, <2>3
  <2> QED
    BY <1>2, <2>1, <2>2, <2>3
<1>6. PICK S \in SUBSET Keys, v \in {Absent, version'} :
            /\ Write(S, v, <<Reply(c, o)>>)
            /\ job[c].op \in {"put", "putAll"} => version' = version + 1 /\ S = job[c].keys /\ v = version'
  BY <1>5
<1>7. v \in Versions
  BY <1>5, VersionParts
<1>8. /\ back' = [k \in Keys |-> IF k \in S THEN v ELSE back[k]]
      /\ back' \in [Keys -> Versions]
      /\ Answering(c, o) /\ OnlyChanges /\ Told
      /\ \A k \in Keys : back'[k] # back[k] /\ k \in listening =>
            \E i \in (Len(inbox) + 1)..(Len(inbox') - 1) : Changes(inbox'[i], k)
  BY <1>4, <1>6, <1>7, AnsweredWrite, Zenon
<1>9. \A k \in Keys : back'[k] \in {back[k], Absent, version'}
  BY <1>8
<1>10. job[c].op \in {"put", "putAll"} =>
          version' = version + 1 /\ \A k \in job[c].keys : back'[k] = version'
  BY <1>1, <1>6, <1>8
<1>11. /\ Working' /\ Moves(c, "asked") /\ job'[c].keys = job[c].keys
       /\ job'[c].values = [k \in Keys |-> IF k \in job[c].keys THEN back'[k] ELSE Absent]
  <2> DEFINE V == [k \in Keys |-> IF k \in job[c].keys THEN back'[k] ELSE Absent]
             j == [job[c] EXCEPT !.at = "asked", !.values = V]
  <2>1. job' = [job EXCEPT ![c] = j]
    BY DEF AskWrite
  <2>2. V \in [Keys -> Versions]
    BY <1>1, <1>8, VersionParts
  <2> HIDE DEF V
  <2>3. j \in Jobs
    BY <1>1, <2>2 DEF Jobs, Places
  <2>4. Working' /\ Others(c) /\ job'[c] = j
    BY <2>1, <2>3, Becomes DEF Typed
  <2>5. Moves(c, "asked") /\ job'[c].keys = job[c].keys /\ job'[c].values = V
    BY <1>1, <2>4 DEF Jobs, Moves, Goes
  <2> QED
    BY <2>4, <2>5 DEF V
<1> QED
  BY <1>4, <1>5, <1>8, <1>9, <1>10, <1>11
LEMMA AskFailsEffect ==
    ASSUME Typed, NEW c \in Clients, AskFails(c)
    PROVE  /\ Working' /\ Moves(c, IF job[c].at = "ask" THEN "asked" ELSE "registering")
           /\ job'[c].keys = job[c].keys /\ job'[c].values = job[c].values
           /\ Answering(c, "error") /\ Len(inbox') = Len(inbox) + 1
<1>1. /\ Working' /\ Moves(c, IF job[c].at = "ask" THEN "asked" ELSE "registering")
      /\ job'[c].keys = job[c].keys /\ job'[c].values = job[c].values
  <2> DEFINE a == IF job[c].at = "ask" THEN "asked" ELSE "registering"
  <2>1. a \in Places
    BY DEF Places
  <2>2. job' = [job EXCEPT ![c].at = a]
    BY DEF AskFails
  <2> HIDE DEF a
  <2>3. Working' /\ Moves(c, a) /\ job'[c].keys = job[c].keys /\ job'[c].values = job[c].values
    BY <2>1, <2>2, MoveEffect DEF Typed
  <2> QED
    BY <2>3 DEF a
<1>2. inbox' = Append(inbox, Reply(c, "error")) /\ Reply(c, "error") \in Msgs /\ inbox \in Seq(Msgs)
  BY MessageParts DEF AskFails, Typed, Incoming
<1>3. /\ inbox' \in Seq(Msgs) /\ Len(inbox') = Len(inbox) + 1 /\ inbox'[Len(inbox) + 1] = Reply(c, "error")
      /\ \A i \in 1..Len(inbox) : inbox'[i] = inbox[i]
  BY <1>2, AppendProperties
<1>4. Len(inbox) \in Nat
  BY <1>2, LenProperties
<1> QED
  BY <1>1, <1>3, <1>4 DEF Answering, Grows

\* A message appended to the inbox.
LEMMA InboxAppend ==
    ASSUME inbox \in Seq(Msgs), NEW m \in Msgs, inbox' = Append(inbox, m)
    PROVE  Grows /\ Len(inbox') = Len(inbox) + 1 /\ inbox'[Len(inbox) + 1] = m
<1>1. /\ inbox' \in Seq(Msgs) /\ Len(inbox') = Len(inbox) + 1 /\ inbox'[Len(inbox) + 1] = m
      /\ \A i \in 1..Len(inbox) : inbox'[i] = inbox[i]
  BY AppendProperties
<1>2. Len(inbox) \in Nat
  BY LenProperties
<1> QED
  BY <1>1, <1>2 DEF Grows

\* The steps of the peer tell of what they change; a refresh tells of nothing but itself.
LEMMA OthersWriteEffect ==
    ASSUME Typed, NEW k \in Keys, OthersWrite(k)
    PROVE  /\ Tells /\ OnlyChanges /\ Told
           /\ back' \in [Keys -> Versions] /\ version' \in Versions /\ version <= version'
           /\ \A j \in Keys : back'[j] \in {back[j], Absent, version'}
           /\ UNCHANGED <<mode, mapVars, ctrlVars, job, svc>>
<1>1. version \in Nat /\ version \in Versions /\ Absent \in Versions
  BY VersionParts DEF Typed, TypeOK
<1>2. PICK v \in {Absent, version'} : v \in Versions /\ Write({k}, v, <<>>)
  <2>1. CASE NewVersion /\ Write({k}, version', <<>>)
    <3>1. version' \in Versions
      BY <1>1, <2>1, NearCacheConstants DEF NewVersion, Versions
    <3> QED
      BY <2>1, <3>1
  <2>2. CASE back[k] # Absent /\ Write({k}, Absent, <<>>) /\ UNCHANGED version
    BY <1>1, <2>2
  <2> QED
    BY <2>1, <2>2 DEF OthersWrite
<1>3. version' \in Versions /\ version <= version'
  BY <1>1, NearCacheConstants DEF OthersWrite, NewVersion, Versions
<1>4. {k} \in SUBSET Keys /\ <<>> \in Seq(Msgs) /\ Len(<<>>) = 0
  OBVIOUS
<1>5. /\ back' = [j \in Keys |-> IF j \in {k} THEN v ELSE back[j]]
      /\ back' \in [Keys -> Versions] /\ Grows
  BY <1>2, <1>4, WriteTells
<1>6. PICK n \in Nat : WriteLog(n, {k}, v, <<>>)
  BY <1>2, <1>4, WriteTells
<1>7. Len(inbox') = Len(inbox) + n /\ Len(inbox) \in Nat
  BY <1>4, <1>6, LenProperties DEF WriteLog, Typed, Incoming
<1>8. \A i \in (Len(inbox) + 1)..Len(inbox') :
         inbox'[i] \in Notes /\ inbox'[i].type \in {"insert", "update", "delete"}
  <2>1. SUFFICES ASSUME NEW i \in (Len(inbox) + 1)..Len(inbox')
                 PROVE  inbox'[i] \in Notes /\ inbox'[i].type \in {"insert", "update", "delete"}
    OBVIOUS
  <2>2. i - Len(inbox) \in 1..n /\ i = Len(inbox) + (i - Len(inbox))
    BY <1>7
  <2> QED
    BY <1>6, <2>2 DEF WriteLog
<1>9. Tells /\ OnlyChanges
  BY <1>5, <1>8 DEF Tells, OnlyChanges
<1>10. Told
  <2>1. SUFFICES ASSUME NEW j \in Keys, back'[j] # back[j], j \in listening
                 PROVE  \E i \in (Len(inbox) + 1)..Len(inbox') : Changes(inbox'[i], j)
    BY DEF Told
  <2>2. j \in {k} \cap listening /\ back[j] # v
    BY <1>5, <2>1
  <2>3. PICK i \in 1..n : inbox'[Len(inbox) + i].key = j
    BY <1>6, <2>2 DEF WriteLog
  <2>4. Len(inbox) + i \in (Len(inbox) + 1)..Len(inbox')
    BY <1>7
  <2> QED
    BY <1>8, <2>3, <2>4 DEF Changes
<1>11. \A j \in Keys : back'[j] \in {back[j], Absent, version'}
  BY <1>2, <1>5
<1> QED
  BY <1>3, <1>5, <1>9, <1>10, <1>11 DEF OthersWrite

LEMMA RefreshEffect ==
    ASSUME Typed, NEW k \in Keys, Refresh(k)
    PROVE  /\ Tells /\ "refresh" \in usage
           /\ back' \in [Keys -> Versions] /\ version' \in Versions
           /\ UNCHANGED <<mode, mapVars, ctrlVars, job, svc>>
<1>1. version' \in Versions
  BY VersionParts, NearCacheConstants DEF Refresh, NewVersion, Versions, Typed, TypeOK
<1>2. back' \in [Keys -> Versions]
  BY <1>1 DEF Refresh, Typed, TypeOK
<1>3. inbox \in Seq(Msgs) /\ Len(inbox) \in Nat
  BY LenProperties DEF Typed, Incoming
<1>4. Tells
  <2>1. CASE inbox' = Append(inbox, Event(k, "refresh", version'))
    <3> DEFINE m == Event(k, "refresh", version')
    <3>1. m \in Notes /\ m \in Msgs
      BY <1>1, MessageParts DEF Kinds
    <3> HIDE DEF m
    <3>2. Grows /\ Len(inbox') = Len(inbox) + 1 /\ inbox'[Len(inbox) + 1] = m
      <4>1. inbox' = Append(inbox, m)
        BY <2>1 DEF m
      <4> QED
        BY <1>3, <3>1, <4>1, InboxAppend
    <3> QED
      BY <1>3, <3>1, <3>2 DEF Tells
  <2>2. CASE inbox' = inbox
    BY <1>3, <2>2 DEF Tells, Grows
  <2> QED
    BY <2>1, <2>2 DEF Refresh
<1> QED
  BY <1>1, <1>2, <1>4 DEF Refresh

LEMMA TruncateEffect ==
    ASSUME Typed, Truncate
    PROVE  /\ Tells /\ "reset" \in usage
           /\ back' \in [Keys -> Versions] /\ version' \in Versions
           /\ UNCHANGED <<mode, mapVars, ctrlVars, job, svc>>
<1> DEFINE m == [type |-> "truncate"]
<1>1. m \in Resets /\ m \in Msgs
  BY MessageParts
<1> HIDE DEF m
<1>2. inbox \in Seq(Msgs) /\ Len(inbox) \in Nat
  BY LenProperties DEF Typed, Incoming
<1>3. Grows /\ Len(inbox') = Len(inbox) + 1 /\ inbox'[Len(inbox) + 1] = m
  <2>1. inbox' = Append(inbox, m)
    BY DEF m, Truncate
  <2> QED
    BY <1>1, <1>2, <2>1, InboxAppend
<1>4. Tells
  BY <1>1, <1>2, <1>3 DEF Tells
<1>5. back' \in [Keys -> Versions] /\ version' \in Versions
  BY VersionParts DEF Truncate, Typed, TypeOK
<1> QED
  BY <1>4, <1>5 DEF Truncate
-----------------------------------------------------------------------------
(***************************************************************************)
(* Locks and the front map.                                                *)
(***************************************************************************)
LockMaps == [Keys -> [owner : Clients \cup {Service, None}, count : Nat]]

LEMMA LockedParts ==
    ASSUME NEW lk \in LockMaps, NEW S \in SUBSET Keys, NEW t \in Clients \cup {Service}
    PROVE  /\ Locked(lk, S, t) \in LockMaps
           /\ \A k \in S : Locked(lk, S, t)[k] = [owner |-> t, count |-> lk[k].count + 1]
           /\ \A k \in Keys \ S : Locked(lk, S, t)[k] = lk[k]
<1>1. \A k \in Keys : lk[k] \in [owner : Clients \cup {Service, None}, count : Nat]
  BY DEF LockMaps
<1>2. ASSUME NEW k \in Keys PROVE Locked(lk, S, t)[k] \in [owner : Clients \cup {Service, None}, count : Nat]
  <2>1. CASE k \in S
    BY <1>1, <2>1 DEF Locked
  <2>2. CASE k \notin S
    BY <1>1, <2>2 DEF Locked
  <2> QED
    BY <2>1, <2>2
<1> QED
  BY <1>2 DEF Locked, LockMaps

LEMMA ReleasedParts ==
    ASSUME NEW lk \in LockMaps, NEW S \in SUBSET Keys, \A k \in S : lk[k].count >= 1
    PROVE  /\ Released(lk, S) \in LockMaps
           /\ \A k \in S : /\ lk[k].count = 1 => Released(lk, S)[k] = Unlocked
                           /\ lk[k].count # 1 => /\ Released(lk, S)[k].owner = lk[k].owner
                                                 /\ Released(lk, S)[k].count = lk[k].count - 1
                                                 /\ Released(lk, S)[k].count >= 1
           /\ \A k \in Keys \ S : Released(lk, S)[k] = lk[k]
<1>1. \A k \in Keys : lk[k] \in [owner : Clients \cup {Service, None}, count : Nat]
  BY DEF LockMaps
<1>2. Unlocked \in [owner : Clients \cup {Service, None}, count : Nat]
  BY DEF Unlocked
<1>3. ASSUME NEW k \in Keys
      PROVE  /\ Released(lk, S)[k] \in [owner : Clients \cup {Service, None}, count : Nat]
             /\ k \in S /\ lk[k].count = 1 => Released(lk, S)[k] = Unlocked
             /\ k \in S /\ lk[k].count # 1 => Released(lk, S)[k] = [lk[k] EXCEPT !.count = lk[k].count - 1]
             /\ k \notin S => Released(lk, S)[k] = lk[k]
  <2>1. CASE k \in S /\ lk[k].count = 1
    BY <1>2, <2>1 DEF Released
  <2>2. CASE k \in S /\ lk[k].count # 1
    <3>1. Released(lk, S)[k] = [lk[k] EXCEPT !.count = lk[k].count - 1]
      BY <2>2 DEF Released
    <3>2. lk[k].count - 1 \in Nat
      BY <1>1, <2>2
    <3> QED
      BY <1>1, <2>2, <3>1, <3>2
  <2>3. CASE k \notin S
    BY <1>1, <2>3 DEF Released
  <2> QED
    BY <2>1, <2>2, <2>3
<1>4. ASSUME NEW k \in S, lk[k].count # 1
      PROVE  /\ Released(lk, S)[k].owner = lk[k].owner
             /\ Released(lk, S)[k].count = lk[k].count - 1
             /\ Released(lk, S)[k].count >= 1
  <2>1. k \in Keys /\ lk[k] \in [owner : Clients \cup {Service, None}, count : Nat] /\ lk[k].count >= 1
    BY <1>1
  <2>2. Released(lk, S)[k] = [lk[k] EXCEPT !.count = lk[k].count - 1]
    BY <1>3, <1>4, <2>1
  <2>3. /\ Released(lk, S)[k].owner = lk[k].owner
        /\ Released(lk, S)[k].count = lk[k].count - 1
    BY <2>1, <2>2
  <2> QED
    BY <1>4, <2>1, <2>3
<1>5. Released(lk, S) \in LockMaps
  BY <1>3 DEF LockMaps, Released
<1> QED
  BY <1>3, <1>4, <1>5

\* What a value put for a key makes of the front map, with what expires and what is pruned.
FrontWith(k, v, X, P) ==
    [j \in Keys |-> IF j \in P THEN Absent ELSE IF j = k THEN v ELSE IF j \in X THEN Absent ELSE front[j]]

LEMMA FrontParts ==
    ASSUME front \in [Keys -> Versions], NEW k \in Keys, NEW v \in Versions, NEW X \in Expiring,
           NEW put, put = [Without(front, X) EXCEPT ![k] = v], NEW P \in Pruning(put)
    PROVE  /\ X \in SUBSET Keys /\ P \in SUBSET Keys
           /\ \A j \in X : front[j] # Absent
           /\ "expire" \notin usage => X = {}
           /\ \A j \in P \ {k} : j \notin X /\ front[j] # Absent
           /\ Without(put, P) = FrontWith(k, v, X, P)
           /\ FrontWith(k, v, X, P) \in [Keys -> Versions]
<1>1. X \subseteq Cached(front) /\ ("expire" \notin usage => X = {})
  BY DEF Expiring
<1>2. P \subseteq Cached(put)
  BY DEF Pruning
<1>3. put = [j \in Keys |-> IF j = k THEN v ELSE IF j \in X THEN Absent ELSE front[j]]
  BY DEF Without
<1>4. Without(put, P) = FrontWith(k, v, X, P)
  BY <1>3 DEF Without, FrontWith
<1>5. FrontWith(k, v, X, P) \in [Keys -> Versions]
  BY VersionParts DEF FrontWith
<1> QED
  BY <1>1, <1>2, <1>3, <1>4, <1>5 DEF Cached

LEMMA WithoutParts ==
    ASSUME NEW f \in [Keys -> Versions], NEW S
    PROVE  /\ Without(f, S) \in [Keys -> Versions]
           /\ \A k \in Keys : Without(f, S)[k] = IF k \in S THEN Absent ELSE f[k]
BY VersionParts DEF Without

LEMMA ExpiringParts ==
    ASSUME NEW X \in Expiring
    PROVE  X \in SUBSET Keys /\ (\A j \in X : front[j] # Absent) /\ ("expire" \notin usage => X = {})
BY DEF Expiring, Cached

LEMMA ClearedParts ==
    ASSUME TypeOK, NEW S
    PROVE  /\ Cleared(S) \in [Keys -> Clients \cup {Ignore, None}]
           /\ \A k \in Keys : Cleared(S)[k] = IF k \in S THEN None ELSE list[k]
BY DEF Cleared, TypeOK
\* A value goes into the front map, X expires, P is pruned, G is unregistered in the end.
Puts(c, k, X, P, G) ==
    /\ X \in SUBSET Keys /\ P \in SUBSET Keys
    /\ \A j \in X : front[j] # Absent
    /\ "expire" \notin usage => X = {}
    /\ \A j \in P \ {k} : j \notin X /\ front[j] # Absent
    /\ front' = FrontWith(k, job[c].values[k], X, P) /\ front' \in [Keys -> Versions]
    /\ G = {e \in X \cup P : strategy = "present" /\ Free(e, c)}
    /\ lock' = Locked(Locked(lock, G \cap X, c), G \cap P, c)

LEMMA FinishGetEffect ==
    ASSUME Typed, NEW c \in Clients, NEW k \in Keys, FinishGet(c, k)
    PROVE  /\ Working' /\ job[c].op = "get" /\ k \in job[c].locked
           /\ job[c].at = "finish" \/ (job[c].at = "asked" /\ job[c].reply = "ok")
           /\ \/ /\ job[c].values[k] # Absent /\ OnlyLoaded(events[c][k]) /\ UNCHANGED listening
                 /\ \E X, P, G \in SUBSET Keys :
                       Puts(c, k, X, P, G) /\ Goes(c, "release", job[c].locked, G, job[c].reply)
              \/ /\ listening' = listening \ Unregistered({k}, c) /\ UNCHANGED <<front, lock>>
                 /\ Moves(c, "release")
<1>1. /\ job[c] \in Jobs /\ front \in [Keys -> Versions] /\ job[c].values[k] \in Versions
  BY DEF Typed, Working, TypeOK, Jobs
<1>2. /\ job[c].op = "get" /\ k \in job[c].locked
      /\ job[c].at = "finish" \/ (job[c].at = "asked" /\ job[c].reply = "ok")
  BY DEF FinishGet, Ready
<1>3. CASE job[c].values[k] # Absent /\ OnlyLoaded(events[c][k])
  <2>1. PICK X \in Expiring : \E P \in Pruning([Without(front, X) EXCEPT ![k] = job[c].values[k]]) :
          LET gone == {e \in X \cup P : strategy = "present" /\ Free(e, c)}
          IN  /\ front' = Without([Without(front, X) EXCEPT ![k] = job[c].values[k]], P)
              /\ lock' = Locked(Locked(lock, gone \cap X, c), gone \cap P, c)
              /\ job' = [job EXCEPT ![c].at = "release", ![c].evicted = gone,
                                    ![c].holder = strategy = "present"]
              /\ UNCHANGED listening
    BY <1>3 DEF FinishGet
  <2> DEFINE put == [Without(front, X) EXCEPT ![k] = job[c].values[k]]
  <2>2. PICK P \in Pruning(put) :
          LET gone == {e \in X \cup P : strategy = "present" /\ Free(e, c)}
          IN  /\ front' = Without(put, P)
              /\ lock' = Locked(Locked(lock, gone \cap X, c), gone \cap P, c)
              /\ job' = [job EXCEPT ![c].at = "release", ![c].evicted = gone,
                                    ![c].holder = strategy = "present"]
              /\ UNCHANGED listening
    BY <2>1
  <2> DEFINE G == {e \in X \cup P : strategy = "present" /\ Free(e, c)}
             j == [job[c] EXCEPT !.at = "release", !.evicted = G, !.holder = (strategy = "present")]
  <2>3. /\ X \in SUBSET Keys /\ P \in SUBSET Keys
        /\ \A e \in X : front[e] # Absent
        /\ "expire" \notin usage => X = {}
        /\ \A e \in P \ {k} : e \notin X /\ front[e] # Absent
        /\ Without(put, P) = FrontWith(k, job[c].values[k], X, P)
        /\ FrontWith(k, job[c].values[k], X, P) \in [Keys -> Versions]
    BY <1>1, FrontParts
  <2>4. G \in SUBSET Keys /\ (strategy = "present") \in BOOLEAN
    BY <2>3
  <2>5. Puts(c, k, X, P, G)
    BY <2>2, <2>3 DEF Puts
  <2>6. job' = [job EXCEPT ![c] = j]
    BY <2>2
  <2>7. UNCHANGED listening
    BY <2>2
  <2> HIDE DEF G
  <2>8. j \in Jobs
    BY <1>1, <2>4 DEF Jobs, Places
  <2>9. Working' /\ Others(c) /\ job'[c] = j
    BY <2>6, <2>8, Becomes DEF Typed
  <2>10. Goes(c, "release", job[c].locked, G, job[c].reply)
    BY <1>1, <2>9 DEF Goes, Jobs
  <2> QED
    BY <1>2, <1>3, <2>3, <2>4, <2>5, <2>7, <2>9, <2>10
<1>4. CASE ~ (job[c].values[k] # Absent /\ OnlyLoaded(events[c][k]))
  <2>1. /\ listening' = listening \ Unregistered({k}, c)
        /\ job' = [job EXCEPT ![c].at = "release"]
        /\ UNCHANGED <<front, lock>>
    BY <1>4 DEF FinishGet
  <2>2. Working' /\ Moves(c, "release")
    BY <2>1, MoveEffect DEF Typed, Places
  <2> QED
    BY <1>2, <2>1, <2>2
<1> QED
  BY <1>3, <1>4

LEMMA JudgeEffect ==
    ASSUME Typed, NEW c \in Clients, Judge(c)
    PROVE  /\ Working' /\ job[c].op = "getAll"
           /\ job[c].at = "finish" \/ (job[c].at = "asked" /\ job[c].reply = "ok")
           /\ Goes(c, IF job[c].locked = {} THEN "release" ELSE "front",
                   job[c].locked, job[c].evicted, job[c].reply)
           /\ job'[c].keys = job[c].locked /\ job'[c].values = job[c].values
           /\ job'[c].invalid = {k \in Keys : ~OnlyLoaded(events[c][k])}
<1> DEFINE a == IF job[c].locked = {} THEN "release" ELSE "front"
           I == {k \in Keys : ~OnlyLoaded(events[c][k])}
           j == [job[c] EXCEPT !.at = a, !.keys = job[c].locked, !.invalid = I,
                               !.holder = (strategy = "present")]
<1>1. job[c] \in Jobs /\ a \in Places /\ I \in SUBSET Keys /\ (strategy = "present") \in BOOLEAN
  BY DEF Typed, Working, Places
<1>2. job' = [job EXCEPT ![c] = j]
  BY DEF Judge
<1>3. job[c].op = "getAll" /\ (job[c].at = "finish" \/ (job[c].at = "asked" /\ job[c].reply = "ok"))
  BY DEF Judge, Ready
<1> HIDE DEF a, I
<1>4. j \in Jobs
  BY <1>1 DEF Jobs
<1>5. Working' /\ Others(c) /\ job'[c] = j
  BY <1>2, <1>4, Becomes DEF Typed
<1>6. /\ Goes(c, a, job[c].locked, job[c].evicted, job[c].reply)
      /\ job'[c].keys = job[c].locked /\ job'[c].values = job[c].values /\ job'[c].invalid = I
  BY <1>1, <1>5 DEF Goes, Jobs
<1> QED
  BY <1>3, <1>5, <1>6 DEF a, I

LEMMA FrontKeyEffect ==
    ASSUME Typed, NEW c \in Clients, NEW k \in Keys, FrontKey(c, k)
    PROVE  /\ Working' /\ job[c].at = "front" /\ k \in job[c].keys
           /\ job'[c].keys = job[c].keys \ {k}
           /\ job'[c].values = job[c].values /\ job'[c].invalid = job[c].invalid
           /\ \E G \in SUBSET Keys :
                 /\ Goes(c, IF job[c].keys = {k} THEN "release" ELSE "front",
                         job[c].locked, job[c].evicted \cup G, job[c].reply)
                 /\ \/ /\ job[c].values[k] # Absent /\ k \notin job[c].invalid
                       /\ \E X, P \in SUBSET Keys : Puts(c, k, X, P, G)
                    \/ /\ G = Unregistered({k}, c)
                       /\ front' = Without(front, {k})
                       /\ lock' = Locked(Locked(lock, G \cap Cached(front), c), G, c)
<1>1. /\ job[c] \in Jobs /\ front \in [Keys -> Versions] /\ job[c].values[k] \in Versions
  BY DEF Typed, Working, TypeOK, Jobs
<1>2. job[c].at = "front" /\ k \in job[c].keys
  BY DEF FrontKey
<1> DEFINE a == IF job[c].keys = {k} THEN "release" ELSE "front"
<1>3. ASSUME NEW G \in SUBSET Keys,
             job' = [job EXCEPT ![c].evicted = @ \cup G, ![c].keys = @ \ {k},
                                ![c].at = IF job[c].keys = {k} THEN "release" ELSE @]
      PROVE  /\ Working' /\ Goes(c, a, job[c].locked, job[c].evicted \cup G, job[c].reply)
             /\ job'[c].keys = job[c].keys \ {k}
             /\ job'[c].values = job[c].values /\ job'[c].invalid = job[c].invalid
  <2> DEFINE j == [job[c] EXCEPT !.evicted = job[c].evicted \cup G, !.keys = job[c].keys \ {k}, !.at = a]
  <2>1. job' = [job EXCEPT ![c] = j]
    BY <1>2, <1>3
  <2>2. a \in Places
    BY DEF Places
  <2> HIDE DEF a
  <2>3. j \in Jobs
    BY <1>1, <2>2 DEF Jobs
  <2>4. Working' /\ Others(c) /\ job'[c] = j
    BY <2>1, <2>3, Becomes DEF Typed
  <2> QED
    BY <1>1, <2>4 DEF Goes, Jobs
<1>4. CASE job[c].values[k] # Absent /\ k \notin job[c].invalid
  <2>1. PICK X \in Expiring : \E P \in Pruning([Without(front, X) EXCEPT ![k] = job[c].values[k]]) :
          LET gone == {e \in X \cup P : strategy = "present" /\ Free(e, c)}
          IN  /\ front' = Without([Without(front, X) EXCEPT ![k] = job[c].values[k]], P)
              /\ lock' = Locked(Locked(lock, gone \cap X, c), gone \cap P, c)
              /\ job' = [job EXCEPT ![c].evicted = @ \cup gone, ![c].keys = @ \ {k},
                                    ![c].at = IF job[c].keys = {k} THEN "release" ELSE @]
    BY <1>4 DEF FrontKey
  <2> DEFINE put == [Without(front, X) EXCEPT ![k] = job[c].values[k]]
  <2>2. PICK P \in Pruning(put) :
          LET gone == {e \in X \cup P : strategy = "present" /\ Free(e, c)}
          IN  /\ front' = Without(put, P)
              /\ lock' = Locked(Locked(lock, gone \cap X, c), gone \cap P, c)
              /\ job' = [job EXCEPT ![c].evicted = @ \cup gone, ![c].keys = @ \ {k},
                                    ![c].at = IF job[c].keys = {k} THEN "release" ELSE @]
    BY <2>1
  <2> DEFINE G == {e \in X \cup P : strategy = "present" /\ Free(e, c)}
  <2>3. /\ X \in SUBSET Keys /\ P \in SUBSET Keys
        /\ \A e \in X : front[e] # Absent
        /\ "expire" \notin usage => X = {}
        /\ \A e \in P \ {k} : e \notin X /\ front[e] # Absent
        /\ Without(put, P) = FrontWith(k, job[c].values[k], X, P)
        /\ FrontWith(k, job[c].values[k], X, P) \in [Keys -> Versions]
    BY <1>1, FrontParts
  <2>4. G \in SUBSET Keys
    BY <2>3
  <2>5. Puts(c, k, X, P, G)
    BY <2>2, <2>3 DEF Puts
  <2>6. job' = [job EXCEPT ![c].evicted = @ \cup G, ![c].keys = @ \ {k},
                           ![c].at = IF job[c].keys = {k} THEN "release" ELSE @]
    BY <2>2
  <2> HIDE DEF G
  <2> QED
    BY <1>2, <1>3, <1>4, <2>3, <2>4, <2>5, <2>6
<1>5. CASE ~ (job[c].values[k] # Absent /\ k \notin job[c].invalid)
  <2> DEFINE G == Unregistered({k}, c)
  <2>1. /\ front' = Without(front, {k})
        /\ lock' = Locked(Locked(lock, G \cap Cached(front), c), G, c)
        /\ job' = [job EXCEPT ![c].evicted = @ \cup G, ![c].keys = @ \ {k},
                              ![c].at = IF job[c].keys = {k} THEN "release" ELSE @]
    BY <1>5 DEF FrontKey
  <2>2. G \in SUBSET Keys
    BY DEF Unregistered
  <2>3. G = Unregistered({k}, c)
    OBVIOUS
  <2> HIDE DEF G
  <2> QED
    BY <1>2, <1>3, <2>1, <2>2, <2>3
<1> QED
  BY <1>4, <1>5
\* What finalizePut does with the front map: nothing, keep the value put, or remove the entry.
KeepsPut(c, k, X, P, D) ==
    /\ P \in SUBSET Keys
    /\ \A j \in P \ {k} : j \notin X /\ front[j] # Absent
    /\ ValidPut(events[c][k], Without(front, X), k)
    /\ D = TakenBack(Without(front, X), k, P)
    /\ front' = FrontWith(k, job[c].values[k], X, P \cup D) /\ front' \in [Keys -> Versions]
    /\ listening' = listening \ Unregistered(X \cup P \cup D, c)
RemovesPut(c, k, X) ==
    /\ ~ ValidPut(events[c][k], Without(front, X), k)
    /\ front' = Without(front, X \cup {k}) /\ front' \in [Keys -> Versions]
    /\ listening' = listening \ Unregistered(X \cup ({k} \cap Cached(Without(front, X))), c)

LEMMA FinalizePutEffect ==
    ASSUME Typed, NEW c \in Clients, NEW k \in Keys, FinalizePut(c, k)
    PROVE  /\ Working' /\ job[c].op \in {"put", "putAll"} /\ k \in job[c].locked
           /\ job[c].at = "finish" \/ (job[c].at = "asked" /\ job[c].reply = "ok")
           /\ IF job[c].locked = {k} THEN Ends(c)
              ELSE /\ Goes(c, job[c].at, job[c].locked \ {k}, job[c].evicted, job[c].reply)
                   /\ job'[c].keys = job[c].keys /\ job'[c].values = job[c].values
           /\ IF list[k] = Ignore THEN UNCHANGED <<front, listening>>
              ELSE \E X \in SUBSET Keys :
                      /\ \A j \in X : front[j] # Absent
                      /\ "expire" \notin usage => X = {}
                      /\ (\E P, D \in SUBSET Keys : KeepsPut(c, k, X, P, D)) \/ RemovesPut(c, k, X)
<1>1. /\ job[c] \in Jobs /\ front \in [Keys -> Versions] /\ job[c].values[k] \in Versions
  BY DEF Typed, Working, TypeOK, Jobs
<1>2. /\ job[c].op \in {"put", "putAll"} /\ k \in job[c].locked
      /\ job[c].at = "finish" \/ (job[c].at = "asked" /\ job[c].reply = "ok")
  BY DEF FinalizePut, Ready
<1>3. Working' /\ IF job[c].locked = {k} THEN Ends(c)
                  ELSE /\ Goes(c, job[c].at, job[c].locked \ {k}, job[c].evicted, job[c].reply)
                       /\ job'[c].keys = job[c].keys /\ job'[c].values = job[c].values
  <2>1. CASE job[c].locked = {k}
    <3>1. job' = [job EXCEPT ![c] = IdleJob]
      BY <2>1 DEF FinalizePut
    <3> QED
      BY <2>1, <3>1, EndsEffect DEF Typed
  <2>2. CASE job[c].locked # {k}
    <3> DEFINE j == [job[c] EXCEPT !.locked = job[c].locked \ {k}]
    <3>0. job' = [job EXCEPT ![c] = IF job[c].locked = {k} THEN IdleJob ELSE j]
      BY DEF FinalizePut
    <3>1. job' = [job EXCEPT ![c] = j]
      BY <2>2, <3>0
    <3>2. j \in Jobs
      BY <1>1 DEF Jobs
    <3>3. Working' /\ Others(c) /\ job'[c] = j
      BY <3>1, <3>2, Becomes DEF Typed
    <3>4. /\ Goes(c, job[c].at, job[c].locked \ {k}, job[c].evicted, job[c].reply)
          /\ job'[c].keys = job[c].keys /\ job'[c].values = job[c].values
      BY <1>1, <3>3 DEF Goes, Jobs
    <3> QED
      BY <2>2, <3>3, <3>4
  <2> QED
    BY <2>1, <2>2
<1>4. CASE list[k] = Ignore
  <2>1. UNCHANGED <<front, listening>>
    BY <1>4 DEF FinalizePut
  <2> QED
    BY <1>2, <1>3, <1>4, <2>1
<1>5. CASE list[k] # Ignore
  <2>1. PICK X \in Expiring :
            LET evs  == events[c][k]
                kept == Without(front, X)
                put  == [kept EXCEPT ![k] = job[c].values[k]]
            IN  IF ValidPut(evs, kept, k)
                THEN \E P \in Pruning(put) :
                     LET drop == TakenBack(kept, k, P)
                     IN  /\ front' = Without(put, P \cup drop)
                         /\ listening' = listening \ Unregistered(X \cup P \cup drop, c)
                ELSE /\ front' = Without(kept, {k})
                     /\ listening' = listening \
                           Unregistered(X \cup ({k} \cap Cached(kept)), c)
    BY <1>5 DEF FinalizePut
  <2>2. X \in SUBSET Keys /\ (\A j \in X : front[j] # Absent) /\ ("expire" \notin usage => X = {})
    BY ExpiringParts
  <2> DEFINE kept == Without(front, X)
             put  == [kept EXCEPT ![k] = job[c].values[k]]
  <2>3. CASE ValidPut(events[c][k], kept, k)
    <3>1. PICK P \in Pruning(put) :
            /\ front' = Without(put, P \cup TakenBack(kept, k, P))
            /\ listening' = listening \ Unregistered(X \cup P \cup TakenBack(kept, k, P), c)
      BY <2>1, <2>3
    <3> DEFINE D == TakenBack(kept, k, P)
    <3>2. /\ P \in SUBSET Keys
          /\ \A e \in P \ {k} : e \notin X /\ front[e] # Absent
      BY <1>1, FrontParts
    <3>3. D \in SUBSET Keys
      BY DEF TakenBack
    <3>4. front' = FrontWith(k, job[c].values[k], X, P \cup D)
      <4>1. put = [j \in Keys |-> IF j = k THEN job[c].values[k] ELSE IF j \in X THEN Absent ELSE front[j]]
        BY DEF Without
      <4>2. front' = Without(put, P \cup D)
        BY <3>1
      <4> HIDE DEF D, put
      <4> QED
        BY <4>1, <4>2 DEF Without, FrontWith
    <3>5. FrontWith(k, job[c].values[k], X, P \cup D) \in [Keys -> Versions]
      BY <1>1, VersionParts DEF FrontWith
    <3>6. KeepsPut(c, k, X, P, D)
      BY <2>3, <3>1, <3>2, <3>4, <3>5 DEF KeepsPut
    <3> HIDE DEF D
    <3> QED
      BY <1>2, <1>3, <1>5, <2>2, <3>2, <3>3, <3>6
  <2>4. CASE ~ ValidPut(events[c][k], kept, k)
    <3>1. /\ front' = Without(kept, {k})
          /\ listening' = listening \ Unregistered(X \cup ({k} \cap Cached(kept)), c)
      BY <2>1, <2>4
    <3>2. front' = Without(front, X \cup {k})
      BY <3>1 DEF Without
    <3>3. front' \in [Keys -> Versions]
      BY <1>1, <3>2, VersionParts DEF Without
    <3>4. RemovesPut(c, k, X)
      BY <2>4, <3>1, <3>2, <3>3 DEF RemovesPut
    <3> QED
      BY <1>2, <1>3, <1>5, <2>2, <3>4
  <2> QED
    BY <2>3, <2>4
<1> QED
  BY <1>4, <1>5

\* The service thread takes the first message of the inbox.
Shrinks == /\ inbox' \in Seq(Msgs) /\ Len(inbox) \in Nat \ {0} /\ Len(inbox') = Len(inbox) - 1
           /\ \A i \in 1..(Len(inbox) - 1) : inbox'[i] = inbox[i + 1]

LEMMA ReceiveEffect ==
    ASSUME Typed, Receive
    PROVE  /\ Shrinks /\ inbox[1] \in Msgs /\ svc.at = "idle"
           /\ inbox[1].type = "reply" =>
                 LET c == inbox[1].client
                 IN  /\ c \in Clients /\ inbox[1].outcome \in {"ok", "error"} /\ Working'
                     /\ inbox[1] = Reply(c, inbox[1].outcome)
                     /\ Goes(c, job[c].at, job[c].locked, job[c].evicted, inbox[1].outcome)
                     /\ job'[c].keys = job[c].keys /\ job'[c].values = job[c].values
                     /\ UNCHANGED <<svc, front, strategy>>
           /\ inbox[1].type = "truncate" =>
                 front' = Without(front, Keys) /\ strategy' = "none" /\ UNCHANGED <<svc, job>>
           /\ inbox[1].type \notin {"reply", "truncate"} =>
                 /\ inbox[1] \in Notes
                 /\ svc' = IF inbox[1].key \in listening
                           THEN [IdleSvc EXCEPT !.at = "lock", !.event = inbox[1]] ELSE svc
                 /\ UNCHANGED <<job, front, strategy>>
           /\ UNCHANGED <<mode, listening, ctrlVars, back, version>>
<1>1. inbox \in Seq(Msgs) /\ inbox # <<>> /\ inbox' = Tail(inbox) /\ svc.at = "idle"
  BY DEF Typed, Incoming, Receive
<1>2. Len(inbox) \in Nat \ {0} /\ Head(inbox) = inbox[1]
  BY <1>1, EmptySeq
<1>3. inbox[1] \in Msgs
  BY <1>1, <1>2
<1>4. Shrinks
  <2>1. /\ Tail(inbox) \in Seq(Msgs) /\ Len(Tail(inbox)) = Len(inbox) - 1
        /\ \A i \in 1..Len(Tail(inbox)) : Tail(inbox)[i] = inbox[i + 1]
    BY <1>1, HeadTailProperties
  <2> QED
    BY <1>1, <1>2, <2>1 DEF Shrinks
<1>5. UNCHANGED <<mode, listening, ctrlVars, back, version>>
  BY DEF Receive
<1>6. CASE inbox[1].type = "reply"
  <2> DEFINE c == inbox[1].client
             o == inbox[1].outcome
             j == [job[c] EXCEPT !.reply = o]
  <2>1. c \in Clients /\ o \in {"ok", "error"} /\ inbox[1] = Reply(c, o)
    <3>1. inbox[1] \in Replies
      BY <1>3, <1>6, MessageParts
    <3> QED
      BY <3>1 DEF Replies, Reply
  <2>2. job' = [job EXCEPT ![c] = j] /\ UNCHANGED <<svc, front, strategy>>
    BY <1>2, <1>6 DEF Receive
  <2>3. job[c] \in Jobs
    BY <2>1 DEF Typed, Working
  <2>4. j \in Jobs
    BY <2>1, <2>3 DEF Jobs
  <2> HIDE DEF c, o
  <2>5. Working' /\ Others(c) /\ job'[c] = j
    BY <2>1, <2>2, <2>4, Becomes DEF Typed
  <2>6. /\ Goes(c, job[c].at, job[c].locked, job[c].evicted, o)
        /\ job'[c].keys = job[c].keys /\ job'[c].values = job[c].values
    BY <2>3, <2>5 DEF Goes, Jobs
  <2> QED
    BY <1>1, <1>3, <1>4, <1>5, <1>6, <2>1, <2>2, <2>5, <2>6 DEF c, o
<1>7. CASE inbox[1].type = "truncate"
  <2>1. front' = Without(front, Keys) /\ strategy' = "none" /\ UNCHANGED <<svc, job>>
    BY <1>2, <1>7 DEF Receive
  <2> QED
    BY <1>1, <1>3, <1>4, <1>5, <1>7, <2>1
<1>8. CASE inbox[1].type \notin {"reply", "truncate"}
  <2>1. /\ svc' = IF inbox[1].key \in listening
                  THEN [IdleSvc EXCEPT !.at = "lock", !.event = inbox[1]] ELSE svc
        /\ UNCHANGED <<job, front, strategy>>
    BY <1>2, <1>8 DEF Receive
  <2>2. inbox[1] \in Notes
    BY <1>3, <1>8, MessageParts
  <2> QED
    BY <1>1, <1>3, <1>4, <1>5, <1>8, <2>1, <2>2
<1> QED
  BY <1>6, <1>7, <1>8
-----------------------------------------------------------------------------
(***************************************************************************)
(* Steady is inductive: each of its parts, where a step leaves alone what  *)
(* the part is about.                                                      *)
(***************************************************************************)
LEMMA TypesKept ==
    ASSUME UNCHANGED mode, mode \in Modes, strategy' \in {"none", "present", "all"},
           front' \in [Keys -> Versions], back' \in [Keys -> Versions], version' \in Versions,
           listening' \subseteq Keys, lock' \in LockMaps, gate' \in Clients \cup {None},
           list' \in [Keys -> Clients \cup {Ignore, None}], global' \in {Ignore, None},
           Working', Serving'
    PROVE  TypeOK'
<1>1. \A c \in Clients : job'[c] \in Jobs
  BY DEF Working
<1>2. \A c \in Clients : /\ job'[c].op \in Operations \cup {"none"}
                         /\ job'[c].reply \in {"no", "ok", "error"}
  BY <1>1 DEF Jobs
<1>3. svc'.at \in {"idle", "lock", "validate", "find", "add"} /\ svc'.found \in Clients \cup {Ignore, None}
  BY DEF Serving
<1> QED
  BY <1>2, <1>3 DEF TypeOK, LockMaps

LEMMA TypesGiven ==
    ASSUME TypeOK
    PROVE  /\ mode \in Modes /\ strategy \in {"none", "present", "all"}
           /\ front \in [Keys -> Versions] /\ back \in [Keys -> Versions] /\ version \in Versions
           /\ listening \subseteq Keys /\ lock \in LockMaps /\ gate \in Clients \cup {None}
           /\ list \in [Keys -> Clients \cup {Ignore, None}] /\ global \in {Ignore, None}
BY DEF TypeOK, LockMaps

LEMMA NothingHeard == NoEvents \in [Keys -> Seq(Notes)]
<1>1. <<>> \in Seq(Notes)
  OBVIOUS
<1> QED
  BY <1>1 DEF NoEvents

LEMMA HeardKept ==
    ASSUME Heard, UNCHANGED <<events, mode>>, NEW c \in Clients, Others(c), Sifted(c) => Sifted(c)'
    PROVE  Heard'
<1>1. \A d \in Clients : Sifted(d) => Sifted(d)'
  BY DEF Others, Sifted, target
<1> QED
  BY <1>1 DEF Heard

LEMMA HeardReset ==
    ASSUME Heard, UNCHANGED mode, NEW c \in Clients, Others(c), events' = [events EXCEPT ![c] = NoEvents]
    PROVE  Heard'
<1>1. \A d \in Clients : d # c => (Sifted(d) => Sifted(d)')
  BY DEF Others, Sifted, target
<1>2. events'[c] = NoEvents /\ \A d \in Clients : d # c => events'[d] = events[d]
  BY DEF Heard
<1>3. \A d \in Clients : ~ Sifted(d)' => events'[d] \in [Keys -> Seq(Notes)]
  BY <1>1, <1>2, NothingHeard DEF Heard
<1>4. NoEvents = [k \in Keys |-> NoEvents[k]]
  BY DEF NoEvents
<1>5. \A d \in Clients : events[d] = [k \in Keys |-> events[d][k]]
  BY DEF Heard
<1>6. events' = [d \in Clients |-> events'[d]]
  BY DEF Heard
<1>7. \A d \in Clients : events'[d] = [k \in Keys |-> events'[d][k]]
  BY <1>2, <1>4, <1>5
<1>8. events' = [d \in Clients |-> [k \in Keys |-> events'[d][k]]]
  BY <1>6, <1>7
<1> QED
  BY <1>3, <1>8 DEF Heard

LEMMA ShapedKept ==
    ASSUME Shaped, NEW c \in Clients, Others(c), ShapedJob(job'[c])
    PROVE  Shaped'
BY DEF Shaped, Others

LEMMA AnsweredJob ==
    ASSUME Answered, Typed, UNCHANGED inbox, NEW c \in Clients, Others(c), ~ Waits(c)
    PROVE  Answered'
<1>1. Answers' = Answers
  BY DEF Answers
<1>2. \A i \in Answers : inbox[i].client \in Clients
  BY LenProperties, MessageParts DEF Answers, Typed, Incoming
<1> QED
  BY <1>1, <1>2 DEF Answered, Waits, Others

LEMMA AnswersType ==
    ASSUME Incoming
    PROVE  /\ Len(inbox) \in Nat /\ DOMAIN inbox = 1..Len(inbox)
           /\ \A i \in 1..Len(inbox) : inbox[i] \in Msgs
           /\ \A i \in Answers : i \in 1..Len(inbox) /\ inbox[i].client \in Clients
                                 /\ inbox[i] = Reply(inbox[i].client, inbox[i].outcome)
<1>1. /\ Len(inbox) \in Nat /\ DOMAIN inbox = 1..Len(inbox)
      /\ \A i \in 1..Len(inbox) : inbox[i] \in Msgs
  BY LenProperties, ElementOfSeq DEF Incoming
<1>2. \A m \in Replies : m = Reply(m.client, m.outcome)
  BY DEF Replies, Reply
<1> QED
  BY <1>1, <1>2, MessageParts DEF Answers

LEMMA AnsweredTells ==
    ASSUME Answered, Typed, Tells, UNCHANGED job
    PROVE  Answered' /\ Answers' = Answers
<1>1. /\ Len(inbox) \in Nat /\ DOMAIN inbox = 1..Len(inbox)
      /\ DOMAIN inbox' = 1..Len(inbox') /\ Len(inbox') \in Nat /\ Len(inbox) <= Len(inbox')
      /\ \A i \in 1..Len(inbox) : inbox'[i] = inbox[i]
  BY LenProperties DEF Tells, Grows, Typed, Incoming
<1>2. \A i \in (Len(inbox) + 1)..Len(inbox') : inbox'[i].type # "reply"
  BY MessageParts DEF Tells
<1>3. Answers' = Answers
  BY <1>1, <1>2 DEF Answers
<1>4. \A i \in Answers : inbox'[i] = inbox[i]
  BY <1>1 DEF Answers
<1> QED
  BY <1>3, <1>4 DEF Answered, Waits

LEMMA AnsweredAsks ==
    ASSUME Answered, Typed, NEW c \in Clients, NEW o \in {"ok", "error"}, Answering(c, o),
           Others(c), ~ Waits(c), Waits(c)'
    PROVE  /\ Answered'
           /\ Answers' = Answers \cup {Len(inbox')} /\ Len(inbox') \notin Answers
           /\ \A i \in Answers : inbox'[i] = inbox[i] /\ inbox[i].client # c
<1>1. /\ Len(inbox) \in Nat /\ DOMAIN inbox = 1..Len(inbox)
      /\ DOMAIN inbox' = 1..Len(inbox') /\ Len(inbox') \in Nat /\ Len(inbox) < Len(inbox')
      /\ \A i \in 1..Len(inbox) : inbox'[i] = inbox[i]
  BY LenProperties DEF Answering, Grows, Typed, Incoming
<1>2. \A i \in (Len(inbox) + 1)..(Len(inbox') - 1) : inbox'[i].type # "reply"
  BY MessageParts DEF Answering
<1>3. inbox'[Len(inbox')].type = "reply" /\ inbox'[Len(inbox')].client = c
  BY DEF Answering, Reply
<1>4. Answers' = Answers \cup {Len(inbox')}
  BY <1>1, <1>2, <1>3 DEF Answers
<1>5. \A i \in Answers : inbox'[i] = inbox[i] /\ inbox[i].client # c /\ inbox[i].client \in Clients
  BY <1>1, AnswersType DEF Answered, Answers, Typed
<1>6. Len(inbox') \notin Answers
  BY <1>1 DEF Answers
<1>7. \A i \in Answers : Waits(inbox[i].client)'
  BY <1>5 DEF Answered, Waits, Others
<1>8. Answered'
  BY <1>3, <1>4, <1>5, <1>6, <1>7 DEF Answered
<1> QED
  BY <1>4, <1>5, <1>6, <1>8

LEMMA AnsweredReceive ==
    ASSUME Answered, Typed, Receive
    PROVE  Answered'
<1>1. /\ Shrinks /\ inbox[1] \in Msgs
  BY ReceiveEffect
<1>2. /\ Len(inbox) \in Nat /\ DOMAIN inbox = 1..Len(inbox)
      /\ DOMAIN inbox' = 1..Len(inbox') /\ Len(inbox') = Len(inbox) - 1 /\ 1 \in DOMAIN inbox
      /\ \A i \in 1..Len(inbox') : inbox'[i] = inbox[i + 1]
  BY <1>1, LenProperties DEF Shrinks, Typed, Incoming
<1>3. \A i \in Answers' : i + 1 \in Answers /\ inbox'[i] = inbox[i + 1]
  BY <1>2 DEF Answers
<1>4. \A i, j \in Answers' : inbox'[i].client = inbox'[j].client => i = j
  <2>1. SUFFICES ASSUME NEW i \in Answers', NEW j \in Answers', inbox'[i].client = inbox'[j].client
                 PROVE  i = j
    OBVIOUS
  <2>2. i + 1 = j + 1
    BY <1>3, <2>1 DEF Answered
  <2>3. i \in Nat /\ j \in Nat
    BY <1>2 DEF Answers
  <2> QED
    BY <2>2, <2>3
<1>5. ASSUME NEW i \in Answers' PROVE Waits(inbox[i].client)'
  <2>1. i + 1 \in Answers /\ inbox'[i] = inbox[i + 1] /\ i \in Nat /\ i >= 1
    BY <1>2, <1>3 DEF Answers
  <2>2. Waits(inbox[i + 1].client) /\ inbox[i + 1].client \in Clients
    BY <2>1, AnswersType DEF Answered, Typed
  <2>3. CASE inbox[1].type = "reply"
    <3>1. 1 \in Answers /\ 1 # i + 1
      BY <1>2, <2>1, <2>3 DEF Answers
    <3>2. inbox[i + 1].client # inbox[1].client
      BY <2>1, <3>1 DEF Answered
    <3>3. Others(inbox[1].client)
      BY <2>3, ReceiveEffect DEF Goes
    <3> QED
      BY <2>1, <2>2, <3>2, <3>3 DEF Others, Waits
  <2>4. CASE inbox[1].type # "reply"
    <3>1. UNCHANGED job
      BY <2>4, ReceiveEffect
    <3> QED
      BY <2>1, <2>2, <3>1 DEF Waits
  <2> QED
    BY <2>3, <2>4
<1> QED
  BY <1>4, <1>5 DEF Answered
LEMMA LockingKept ==
    ASSUME Locking, UNCHANGED <<lock, svc>>, NEW c \in Clients, Others(c),
           job'[c].locked = job[c].locked, job'[c].evicted = job[c].evicted
    PROVE  Locking'
BY DEF Locking, Others

\* Only a clear has all keys.
LEMMA NotGate ==
    ASSUME Closed, NEW c \in Clients, job[c].op # "clear" \/ job[c].at \notin {"ask", "asked"}
    PROVE  gate # c
BY Parties DEF Closed

LEMMA ClosedKept ==
    ASSUME Typed, Closed, UNCHANGED <<gate, global>>, NEW c \in Clients, Others(c),
           gate # None => UNCHANGED lock,
           gate # c \/ (job'[c].op = "clear" /\ job'[c].at \in {"ask", "asked"})
    PROVE  Closed'
<1>1. gate # None => gate \in Clients
  BY DEF Typed, TypeOK
<1>2. gate' # None => job'[gate'].op = "clear" /\ job'[gate'].at \in {"ask", "asked"}
  BY <1>1 DEF Closed, Others
<1> QED
  BY <1>2 DEF Closed

LEMMA ListedKept ==
    ASSUME Typed, Listed, UNCHANGED list, NEW c \in Clients, Others(c),
           job'[c].op = job[c].op, job'[c].locked = job[c].locked,
           job[c].at \in Listing, job'[c].at \in Listing
    PROVE  Listed'
<1>0. "front" \notin Listing
  BY DEF Listing
<1>1. ASSUME NEW k \in Keys, list'[k] \in Clients
      PROVE  /\ k \in job'[list'[k]].locked
             /\ job'[list'[k]].op \in {"get", "getAll", "put", "putAll"}
             /\ job'[list'[k]].at \in Listing \cup {"front"}
             /\ job'[list'[k]].at = "front" => k \in job'[list'[k]].keys
  <2>1. CASE list'[k] = c
    BY <1>0, <1>1, <2>1 DEF Listed
  <2>2. CASE list'[k] # c
    BY <1>1, <2>2 DEF Listed, Others
  <2> QED
    BY <2>1, <2>2
<1>2. ASSUME NEW d \in Clients, job'[d].at \in Listing, NEW k \in job'[d].locked PROVE list'[k] # None
  <2>1. CASE d = c
    BY <1>2, <2>1 DEF Listed
  <2>2. CASE d # c
    BY <1>2, <2>2 DEF Listed, Others
  <2> QED
    BY <2>1, <2>2
<1>3. ASSUME NEW d \in Clients, job'[d].at = "front", NEW k \in job'[d].keys PROVE list'[k] # None
  <2>1. d # c
    BY <1>0, <1>3
  <2> QED
    BY <1>3, <2>1 DEF Listed, Others
<1> QED
  BY <1>1, <1>2, <1>3 DEF Listed

LEMMA MissingKept ==
    ASSUME Missing, NEW c \in Clients, Others(c), UNCHANGED front,
           job'[c].op = "get" /\ job'[c].at \in Listing =>
              job[c].op = "get" /\ job[c].at \in Listing /\ job'[c].locked = job[c].locked
    PROVE  Missing'
BY DEF Missing, Others

\* A step from one place where the client has its lists to another.
LEMMA MoveKeeps ==
    ASSUME Steady, NEW c \in Clients, NEW a, NEW r, Goes(c, a, job[c].locked, job[c].evicted, r),
           job[c].at \in Listing, a \in Listing, job[c].op = "clear" => a \in {"ask", "asked"},
           UNCHANGED <<lock, gate, list, global, svc, front>>
    PROVE  Locking' /\ Closed' /\ Listed' /\ Missing'
<1>1. Others(c) /\ job'[c].op = job[c].op /\ job'[c].at = a
      /\ job'[c].locked = job[c].locked /\ job'[c].evicted = job[c].evicted
  BY DEF Goes
<1>2. Locking'
  BY <1>1, LockingKept DEF Steady
<1>3. Closed'
  <2>1. gate # c \/ (job'[c].op = "clear" /\ job'[c].at \in {"ask", "asked"})
    BY <1>1, NotGate DEF Steady
  <2> QED
    BY <1>1, <2>1, ClosedKept DEF Steady
<1>4. Listed'
  BY <1>1, ListedKept DEF Steady
<1>5. Missing'
  BY <1>1, MissingKept DEF Steady
<1> QED
  BY <1>2, <1>3, <1>4, <1>5

LEMMA SuitedKept ==
    ASSUME Suited, UNCHANGED mode, strategy' \in {strategy, "none"}, NEW c \in Clients, Others(c),
           job'[c].at \in {"register", "registering"} => job[c].at \in {"register", "registering"},
           job'[c].at = "ensuring" => job[c].at = "ensuring"
    PROVE  Suited'
BY DEF Suited, target, Others

\* The types of what a step that goes on leaves alone.
LEMMA ServingKept == ASSUME Serving, UNCHANGED svc PROVE Serving'
BY DEF Serving
LEMMA IncomingKept == ASSUME Incoming, UNCHANGED inbox PROVE Incoming'
BY DEF Incoming

\* The steps of the peer.
LEMMA PeerSteady ==
    ASSUME Steady, Peer
    PROVE  Steady'
<1>1. Typed
  BY DEF Steady
<1>2. mode.keys \subseteq Keys
  <2>1. mode \in [keys : SUBSET Keys, target : {"present", "auto", "all"}, ops : SUBSET Operations,
                  usage : SUBSET {"expire", "load", "refresh", "fail", "reset"}]
    BY <1>1, NearCacheConstants DEF Typed, TypeOK
  <2> QED
    BY <2>1
<1>3. /\ Tells /\ back' \in [Keys -> Versions] /\ version' \in Versions
      /\ UNCHANGED <<mode, mapVars, ctrlVars, job, svc>>
  BY <1>1, <1>2, OthersWriteEffect, RefreshEffect, TruncateEffect DEF Peer
<1>4. UNCHANGED <<mode, front, listening, strategy, lock, gate, list, global, events, job, svc>>
  BY <1>3 DEF mapVars, ctrlVars
<1>5. Incoming' /\ Working' /\ Serving' /\ Heard'
  BY <1>1, <1>3, <1>4, ServingKept DEF Tells, Grows, Incoming, Working, Heard, Sifted, target, Typed
<1>6. TypeOK'
  BY <1>1, <1>3, <1>4, <1>5, TypesGiven, TypesKept DEF Typed
<1>7. Answered'
  BY <1>1, <1>3, <1>4, AnsweredTells DEF Steady
<1>8. Shaped' /\ Locking' /\ Closed' /\ Listed' /\ Missing' /\ Suited'
  BY <1>4 DEF Steady, Shaped, Locking, Closed, Listed, Missing, Suited, target
<1> QED
  BY <1>5, <1>6, <1>7, <1>8 DEF Steady, Typed
\* A client that is idle has nothing.
LEMMA IdleHasNothing ==
    ASSUME Steady, NEW c \in Clients, job[c].at = "idle"
    PROVE  /\ job[c] = IdleJob /\ job[c].locked = {} /\ job[c].evicted = {} /\ gate # c /\ ~ Waits(c)
           /\ ~ Sifted(c) /\ \A k \in Keys : list[k] # c
<1>1. job[c] = IdleJob
  BY DEF Steady, Shaped, ShapedJob
<1>2. job[c].op = "none" /\ job[c].locked = {} /\ job[c].evicted = {}
  BY <1>1 DEF IdleJob
<1>3. gate # c
  BY <1>2, NotGate DEF Steady
<1>4. \A k \in Keys : list[k] # c
  BY DEF Steady, Listed, Listing
<1> QED
  BY <1>1, <1>2, <1>3, <1>4 DEF Waits, Sifted

LEMMA StartSteady ==
    ASSUME Steady, NEW c \in Clients, NEW op \in Operations, NEW a \in {"lock", "ensure", "locks", "close"},
           NEW K \in SUBSET Keys, Start(c, op, a, K),
           op \in Ones => a = "lock" /\ \E k \in Keys : K = {k},
           op = "getAll" => a = "ensure", op = "putAll" => a = "locks", op = "clear" => a = "close"
    PROVE  Steady'
<1>1. /\ job[c].at = "idle" /\ events' = [events EXCEPT ![c] = NoEvents]
      /\ UNCHANGED <<mode, front, listening, strategy, lock, gate, list, global, back, version, inbox, svc>>
  BY DEF Start, mapVars, peerVars
<1>2. a \in Places
  BY DEF Places
<1>3. Working' /\ Begins(c, op, a, K)
  BY <1>2, StartEffect DEF Steady, Typed
<1>4. /\ Others(c) /\ job'[c].op = op /\ job'[c].at = a /\ job'[c].keys = K /\ job'[c].locked = {}
      /\ job'[c].evicted = {} /\ job'[c].reply = "no"
  BY <1>3 DEF Begins
<1>5. /\ job[c] = IdleJob /\ job[c].locked = {} /\ job[c].evicted = {} /\ gate # c /\ ~ Waits(c)
      /\ ~ Sifted(c) /\ \A k \in Keys : list[k] # c
  BY <1>1, IdleHasNothing
<1>6. Typed'
  <2>1. Incoming' /\ Serving' /\ Heard'
    BY <1>1, <1>3, <1>4, HeardReset, IncomingKept, ServingKept DEF Steady, Typed
  <2>2. TypeOK'
    BY <1>1, <1>3, <1>4, <2>1, TypesGiven, TypesKept DEF Steady, Typed
  <2> QED
    BY <1>3, <2>1, <2>2 DEF Typed
<1>7. Shaped'
  <2>1. ShapedJob(job'[c])
    <3>1. op \in Ones => ShapeOfOne(job'[c])
      BY <1>4 DEF ShapeOfOne
    <3>2. op \notin {"none"}
      BY DEF Operations
    <3> QED
      BY <1>4, <3>1, <3>2 DEF ShapedJob, ShapeOfGetAll, ShapeOfPutAll, ShapeOfClear
  <2> QED
    BY <1>4, <2>1, ShapedKept DEF Steady
<1>8. Answered'
  BY <1>1, <1>3, <1>4, <1>5, AnsweredJob DEF Steady
<1>9. Locking'
  BY <1>1, <1>3, <1>4, <1>5, LockingKept DEF Steady
<1>10. Closed'
  BY <1>1, <1>3, <1>4, <1>5, ClosedKept DEF Steady
<1>11. Listed'
  <2>1. ASSUME NEW k \in Keys, list'[k] \in Clients
        PROVE  /\ k \in job'[list'[k]].locked
               /\ job'[list'[k]].op \in {"get", "getAll", "put", "putAll"}
               /\ job'[list'[k]].at \in Listing \cup {"front"}
               /\ job'[list'[k]].at = "front" => k \in job'[list'[k]].keys
    BY <1>1, <1>3, <1>4, <1>5, <2>1 DEF Steady, Listed, Others
  <2>2. \A d \in Clients : job'[d].at \in Listing => \A k \in job'[d].locked : list'[k] # None
    BY <1>1, <1>3, <1>4, <1>4 DEF Steady, Listed, Others
  <2>3. \A d \in Clients : job'[d].at = "front" => \A k \in job'[d].keys : list'[k] # None
    BY <1>1, <1>3, <1>4, <1>4 DEF Steady, Listed, Others
  <2> QED
    BY <2>1, <2>2, <2>3 DEF Listed
<1>12. Missing'
  BY <1>1, <1>3, <1>4, <1>4 DEF Steady, Missing, Others
<1>13. Suited'
  BY <1>1, <1>4, SuitedKept DEF Steady
<1> QED
  BY <1>6, <1>7, <1>8, <1>9, <1>10, <1>11, <1>12, <1>13 DEF Steady

LEMMA ExpireSteady ==
    ASSUME Steady, NEW c \in Clients, NEW k \in Keys, Expire(c, k)
    PROVE  Steady'
<1>1. /\ front' = Without(front, {k}) /\ listening' \subseteq listening
      /\ UNCHANGED <<mode, strategy, lock, gate, list, global, events, back, version, inbox, job, svc>>
  BY DEF Expire, ctrlVars, peerVars
<1>2. front' \in [Keys -> Versions] /\ \A j \in Keys : front'[j] \in {Absent, front[j]}
  BY <1>1, TypesGiven, WithoutParts DEF Steady, Typed
<1>3. Typed'
  <2>1. Working' /\ Incoming' /\ Serving' /\ Heard'
    BY <1>1, IncomingKept, ServingKept DEF Steady, Typed, Heard, Sifted, target, Working
  <2>2. TypeOK'
    BY <1>1, <1>2, <2>1, TypesGiven, TypesKept DEF Steady, Typed
  <2> QED
    BY <2>1, <2>2 DEF Typed
<1>4. Answered'
  BY <1>1 DEF Steady, Answered, Answers, Waits
<1>5. Shaped' /\ Locking' /\ Closed' /\ Listed' /\ Suited'
  BY <1>1 DEF Steady, Shaped, Locking, Closed, Listed, Suited, target
<1>6. Missing'
  <2>1. \A d \in Clients : job[d].locked \subseteq Keys
    BY DEF Steady, Typed, Working, Jobs
  <2> QED
    BY <1>1, <1>2, <2>1 DEF Steady, Missing
<1> QED
  BY <1>3, <1>4, <1>5, <1>6 DEF Steady

LEMMA StartsSteady ==
    ASSUME Steady, NEW c \in Clients, Starts(c)
    PROVE  Steady'
<1>1. mode.keys \subseteq Keys
  <2>1. mode \in [keys : SUBSET Keys, target : {"present", "auto", "all"}, ops : SUBSET Operations,
                  usage : SUBSET {"expire", "load", "refresh", "fail", "reset"}]
    BY NearCacheConstants DEF Steady, Typed, TypeOK
  <2> QED
    BY <2>1
<1>2. ASSUME NEW op \in Ones, NEW k \in Keys, Start(c, op, "lock", {k}) PROVE Steady'
  BY <1>2, StartSteady DEF Ones, Operations
<1>3. ASSUME NEW K \in SUBSET Keys, Start(c, "getAll", "ensure", K) PROVE Steady'
  BY <1>3, StartSteady DEF Ones, Operations
<1>4. ASSUME NEW K \in SUBSET Keys, Start(c, "putAll", "locks", K) PROVE Steady'
  BY <1>4, StartSteady DEF Ones, Operations
<1>5. ASSUME Start(c, "clear", "close", {}) PROVE Steady'
  BY <1>5, StartSteady DEF Ones, Operations
<1>6. ASSUME NEW k \in Keys, Get(c, k) \/ ContainsKey(c, k) \/ Put(c, k) \/ Remove(c, k) PROVE Steady'
  BY <1>2, <1>6 DEF Get, ContainsKey, Put, Remove, Ones
<1>7. ASSUME NEW K \in SUBSET Keys, GetAll(c, K) \/ PutAll(c, K) PROVE Steady'
  <2>1. K \ Cached(front) \in SUBSET Keys
    OBVIOUS
  <2> QED
    BY <1>3, <1>4, <1>7, <2>1 DEF GetAll, PutAll
<1>8. CASE Clear(c)
  BY <1>5, <1>8 DEF Clear
<1> QED
  BY <1>1, <1>6, <1>7, <1>8, ExpireSteady DEF Starts
\* Which operations are at a place.
LEMMA PlaceOps ==
    ASSUME Steady, NEW c \in Clients
    PROVE  /\ job[c] \in Jobs /\ ShapedJob(job[c])
           /\ job[c].at # "idle" => job[c].op \in Operations
           /\ job[c].at \in {"lock", "assign"} => job[c].op \in Ones
           /\ job[c].at \in {"ensure", "ensuring", "register", "registering", "finish", "release", "terminated"}
                 => job[c].op \in {"get", "getAll"}
           /\ job[c].at = "locks" => job[c].op \in {"getAll", "putAll"}
           /\ job[c].at = "front" => job[c].op = "getAll"
           /\ job[c].at = "close" => job[c].op = "clear"
           /\ job[c].op \in Ones /\ job[c].at # "lock" => \E k \in Keys : job[c].locked = {k}
<1>1. job[c] \in Jobs /\ ShapedJob(job[c])
  BY DEF Steady, Typed, Working, Shaped
<1>2. job[c].op \in Ones \cup {"getAll", "putAll", "clear", "none"}
  BY <1>1 DEF Jobs, Operations, Ones
<1>3. job[c].at # "idle" => job[c].op \in Operations
  BY <1>1 DEF Jobs, ShapedJob
<1>4. CASE job[c].op \in Ones
  BY <1>1, <1>3, <1>4 DEF ShapedJob, ShapeOfOne, Ones
<1>5. CASE job[c].op \in {"getAll", "putAll", "clear", "none"}
  BY <1>1, <1>3, <1>5 DEF ShapedJob, ShapeOfGetAll, ShapeOfPutAll, ShapeOfClear, Ones
<1> QED
  BY <1>1, <1>2, <1>3, <1>4, <1>5


\* A step from one place where the client has its lists to another.
LEMMA MoveSteady ==
    ASSUME Steady, NEW c \in Clients, NEW a \in Listing, NEW r,
           Goes(c, a, job[c].locked, job[c].evicted, r), job[c].at \in Listing,
           job[c].op = "clear" => a \in {"ask", "asked"},
           UNCHANGED <<mode, front, lock, gate, list, global, svc>>,
           Working', Incoming', Heard', Answered', ShapedJob(job'[c]),
           back' \in [Keys -> Versions], version' \in Versions, listening' \subseteq Keys,
           strategy' \in {"none", "present", "all"},
           strategy' = "all" => target = "all", strategy' = "present" => target # "all",
           a \in {"register", "registering"} => target # "all", a = "ensuring" => target = "all"
    PROVE  Steady'
<1>1. Others(c) /\ job'[c].at = a
  BY DEF Goes
<1>2. Locking' /\ Closed' /\ Listed' /\ Missing'
  BY MoveKeeps
<1>3. Typed'
  <2>1. Serving'
    BY ServingKept DEF Steady, Typed
  <2>2. TypeOK'
    BY <2>1, TypesGiven, TypesKept DEF Steady, Typed
  <2> QED
    BY <2>1, <2>2 DEF Typed
<1>4. Shaped'
  BY <1>1, ShapedKept DEF Steady
<1>5. Suited'
  <2>1. UNCHANGED target
    BY DEF target
  <2>2. ASSUME NEW d \in Clients
        PROVE  /\ job'[d].at \in {"register", "registering"} => target' # "all"
               /\ job'[d].at = "ensuring" => target' = "all"
    <3>1. CASE d = c
      BY <1>1, <2>1, <2>2, <3>1
    <3>2. CASE d # c
      BY <1>1, <2>1, <2>2, <3>2 DEF Steady, Suited, Others
    <3> QED
      BY <3>1, <3>2
  <2> QED
    BY <2>1, <2>2 DEF Suited
<1> QED
  BY <1>2, <1>3, <1>4, <1>5 DEF Steady

LEMMA EnsureSteady ==
    ASSUME Steady, NEW c \in Clients, Ensure(c)
    PROVE  Steady'
<1>1. /\ job[c].at = "ensure" /\ job[c] \in Jobs /\ ShapedJob(job[c]) /\ job[c].op \in {"get", "getAll"}
      /\ UNCHANGED <<mode, front, lock, gate, list, global, events, back, version, svc>>
  BY PlaceOps DEF Ensure, ctrlVars
<1>2. ~ Waits(c) /\ ~ Sifted(c)
  BY <1>1 DEF Waits, Sifted
<1> DEFINE asks == target = "all" /\ strategy # "all"
           a == IF asks THEN "ensuring" ELSE AfterEnsure(c)
<1>3. a \in {"ensuring", "locks", "ask", "register"} /\ a \in Places /\ a \in Listing
  BY AfterEnsureIsPlace DEF Places, Listing
<1>4. job' = [job EXCEPT ![c].at = a]
  BY DEF Ensure
<1>5. Working' /\ Moves(c, a) /\ job'[c].keys = job[c].keys
  BY <1>3, <1>4, MoveEffect DEF Steady, Typed
<1>6. /\ Others(c) /\ job'[c].op = job[c].op /\ job'[c].at = a /\ job'[c].locked = job[c].locked
      /\ job'[c].evicted = job[c].evicted /\ job'[c].reply = job[c].reply
  BY <1>5 DEF Moves, Goes
<1>7. /\ strategy' \in {"none", "present", "all"} /\ listening' \subseteq Keys
      /\ strategy' = "all" => target = "all"
      /\ strategy' = "present" => target # "all"
  BY TypesGiven DEF Ensure, ensured, Steady, Typed, Suited
<1>8. Incoming' /\ Answered'
  <2>1. CASE asks
    <3>1. PICK o \in Outcomes : inbox' = Append(inbox, Reply(c, o))
      BY <2>1 DEF Ensure
    <3>2. o \in {"ok", "error"} /\ Reply(c, o) \in Msgs
      BY MessageParts DEF Outcomes
    <3>3. Grows /\ Len(inbox') = Len(inbox) + 1 /\ inbox'[Len(inbox) + 1] = Reply(c, o)
      BY <3>1, <3>2, InboxAppend DEF Steady, Typed, Incoming
    <3>4. Answering(c, o)
      BY <3>3, LenProperties DEF Answering, Steady, Typed, Incoming
    <3>5. Waits(c)'
      BY <1>1, <1>6, <2>1 DEF Waits, ShapedJob, Waiting, Jobs
    <3> QED
      BY <1>2, <1>6, <3>2, <3>4, <3>5, AnsweredAsks DEF Steady, Answering, Grows, Incoming
  <2>2. CASE ~ asks
    <3>1. UNCHANGED inbox
      BY <2>2 DEF Ensure
    <3> QED
      BY <1>2, <1>6, <3>1, AnsweredJob, IncomingKept DEF Steady, Typed
  <2> QED
    BY <2>1, <2>2
<1>9. Heard'
  BY <1>1, <1>2, <1>6, HeardKept DEF Steady, Typed
<1>10. a \in {"locks"} => job[c].op = "getAll"
  BY DEF AfterEnsure
<1>11. a \in {"ask", "register"} => job[c].op = "get"
  BY <1>1 DEF AfterEnsure
<1>12. /\ a = "register" => target # "all"
       /\ a # "registering" /\ (a = "ensuring" => target = "all")
  BY <1>3 DEF AfterEnsure
<1> HIDE DEF a
<1>13. ShapedJob(job'[c])
  <2>1. CASE job[c].op = "get"
    <3>1. ShapeOfOne(job[c]) /\ "get" \in Ones
      BY <1>1, <2>1 DEF ShapedJob, Ones
    <3>2. ShapeOfOne(job'[c])
      BY <1>1, <1>3, <1>5, <1>6, <1>10, <2>1, <3>1 DEF ShapeOfOne
    <3> QED
      BY <1>1, <1>3, <1>6, <2>1, <3>2 DEF ShapedJob, Waiting
  <2>2. CASE job[c].op = "getAll"
    <3>1. ShapeOfGetAll(job'[c])
      BY <1>1, <1>3, <1>6, <1>11, <2>2 DEF ShapedJob, ShapeOfGetAll
    <3> QED
      BY <1>1, <1>3, <1>6, <2>2, <3>1 DEF ShapedJob, Waiting, Ones
  <2> QED
    BY <1>1, <2>1, <2>2
<1>15. back' \in [Keys -> Versions] /\ version' \in Versions
  BY <1>1, TypesGiven DEF Steady, Typed
<1>16. job[c].at \in Listing /\ job[c].op # "clear"
  BY <1>1 DEF Listing
<1> QED
  BY <1>1, <1>3, <1>5, <1>7, <1>8, <1>9, <1>12, <1>13, <1>15, <1>16, MoveSteady DEF Moves

\* The shape of an operation on one key, and of getAll, after it has moved on.
LEMMA MovedShape ==
    ASSUME Steady, NEW c \in Clients, NEW a \in Listing, NEW r, job'[c] \in Jobs,
           Goes(c, a, job[c].locked, job[c].evicted, r), job[c].at \in Listing,
           job'[c].keys \subseteq job[c].keys,
           job[c].at # "ensure", job[c].at # "finish", a \notin {"ensure", "ensuring"},
           a \in {"register", "registering", "ask"} => job'[c].keys = job[c].keys \/ job'[c].keys # {},
           job[c].at \in {"asked"} => a \notin {"register", "registering", "ask"},
           job[c].op = "get" => a # "locks",
           job[c].op \in {"containsKey", "put", "remove", "clear"} => a \in {"ask", "asked"},
           job[c].op = "putAll" => a \in {"locks", "ask", "asked"},
           job[c].evicted = {}, r # "no" => a \in Waiting
    PROVE  ShapedJob(job'[c])
<1>1. /\ job[c] \in Jobs /\ ShapedJob(job[c]) /\ job[c].op \in Operations
      /\ job'[c].op = job[c].op /\ job'[c].at = a /\ job'[c].locked = job[c].locked
      /\ job'[c].evicted = {} /\ job'[c].reply = r
  BY PlaceOps DEF Goes, Listing
<1>2. CASE job[c].op \in Ones
  <2>1. ShapeOfOne(job[c])
    BY <1>1, <1>2 DEF ShapedJob
  <2>2. PICK k \in Keys : /\ job[c].keys \subseteq {k}
                          /\ job[c].at \in {"ensuring", "register", "registering", "ask"} => job[c].keys = {k}
                          /\ job[c].locked = {k}
    BY <2>1 DEF ShapeOfOne, Listing
  <2>3. job[c].at \in {"ensuring", "register", "registering", "ask", "asked"}
    BY <2>1, <1>2 DEF ShapeOfOne, Listing
  <2>4. ShapeOfOne(job'[c])
    BY <1>1, <1>2, <2>2, <2>3 DEF ShapeOfOne, Listing, Ones
  <2> QED
    BY <1>1, <1>2, <2>4 DEF ShapedJob, Ones, Listing, Waiting, Jobs
<1>3. CASE job[c].op = "getAll"
  <2>1. ShapeOfGetAll(job'[c])
    BY <1>1, <1>3 DEF ShapeOfGetAll, Listing
  <2> QED
    BY <1>1, <1>3, <2>1 DEF ShapedJob, Ones, Listing, Waiting, Jobs
<1>4. CASE job[c].op = "putAll"
  BY <1>1, <1>4 DEF ShapedJob, ShapeOfPutAll, Ones, Listing, Waiting, Jobs
<1>5. CASE job[c].op = "clear"
  BY <1>1, <1>5 DEF ShapedJob, ShapeOfClear, Ones, Listing, Waiting, Jobs
<1> QED
  BY <1>1, <1>2, <1>3, <1>4, <1>5 DEF Operations, Ones

LEMMA EvictsLate ==
    ASSUME Steady, NEW c \in Clients, job[c].at \in Listing
    PROVE  job[c].evicted = {}
BY PlaceOps DEF ShapedJob, Listing

LEMMA EnsuredSteady ==
    ASSUME Steady, NEW c \in Clients, Ensured(c)
    PROVE  Steady'
<1>1. /\ job[c].at = "ensuring" /\ job[c].op \in {"get", "getAll"} /\ job[c].reply = "ok"
      /\ strategy' = "all"
      /\ UNCHANGED <<mode, front, listening, lock, gate, list, global, events, back, version, inbox, svc>>
  BY PlaceOps DEF Ensured, ctrlVars, peerVars
<1> DEFINE a == AfterEnsure(c)
<1>2. /\ Working' /\ Goes(c, a, job[c].locked, job[c].evicted, "no")
      /\ job'[c].keys = job[c].keys
  BY EnsuredEffect DEF Steady, Typed
<1>3. /\ a \in {"locks", "ask", "register"} /\ a \in Listing
      /\ job[c].op = "get" => a # "locks"
  BY AfterEnsureIsPlace DEF Listing, AfterEnsure
<1>4. target = "all" /\ a # "register"
  <2>1. target = "all"
    BY <1>1 DEF Steady, Suited
  <2> QED
    BY <2>1 DEF AfterEnsure
<1> HIDE DEF a
<1>5. job[c].at \in Listing /\ job[c].op # "clear" /\ ~ Waits(c) /\ ~ Sifted(c)
  BY <1>1 DEF Listing, Waits, Sifted
<1>6. Others(c) /\ job'[c] \in Jobs
  BY <1>2 DEF Goes, Working
<1>7. Answered' /\ Incoming' /\ Heard'
  BY <1>1, <1>5, <1>6, AnsweredJob, IncomingKept, HeardKept DEF Steady, Typed
<1>8. ShapedJob(job'[c])
  BY <1>1, <1>2, <1>3, <1>5, <1>6, EvictsLate, MovedShape
<1> QED
  BY <1>1, <1>2, <1>3, <1>4, <1>5, <1>7, <1>8, TypesGiven, MoveSteady DEF Steady, Typed

LEMMA LocksDoneSteady ==
    ASSUME Steady, NEW c \in Clients, LocksDone(c)
    PROVE  Steady'
<1> DEFINE regs == job[c].op = "getAll" /\ target # "all"
           a == IF regs THEN "register" ELSE "ask"
<1>1. /\ job[c].at = "locks" /\ job[c].op \in {"getAll", "putAll"}
      /\ strategy' = IF regs THEN "present" ELSE strategy
      /\ job' = [job EXCEPT ![c].at = a]
      /\ UNCHANGED <<mode, front, listening, lock, gate, list, global, events, back, version, inbox, svc>>
  BY PlaceOps DEF LocksDone, ctrlVars, peerVars
<1>2. a \in {"register", "ask"} /\ a \in Places /\ a \in Listing /\ (a = "register" => regs)
  BY DEF Places, Listing
<1>3. regs => target # "all" /\ job[c].op = "getAll"
  OBVIOUS
<1> HIDE DEF a, regs
<1>4. Working' /\ Moves(c, a) /\ job'[c].keys = job[c].keys
  BY <1>1, <1>2, MoveEffect DEF Steady, Typed
<1>5. job[c].at \in Listing /\ ~ Waits(c) /\ ~ Sifted(c)
  BY <1>1 DEF Listing, Waits, Sifted
<1>6. Others(c) /\ job'[c] \in Jobs
  BY <1>4 DEF Moves, Goes, Working
<1>7. Answered' /\ Incoming' /\ Heard'
  BY <1>1, <1>5, <1>6, AnsweredJob, IncomingKept, HeardKept DEF Steady, Typed
<1>8. Goes(c, a, job[c].locked, job[c].evicted, job[c].reply) /\ job[c].reply = "no"
  BY <1>1, <1>4, PlaceOps DEF Moves, ShapedJob, Waiting, Jobs
<1>9. ShapedJob(job'[c])
  BY <1>1, <1>2, <1>3, <1>4, <1>5, <1>6, <1>8, EvictsLate, MovedShape
<1>10. /\ strategy' \in {"none", "present", "all"}
       /\ strategy' = "all" => target = "all"
       /\ strategy' = "present" => target # "all"
  BY <1>1, <1>3, TypesGiven DEF Steady, Typed, Suited
<1> QED
  BY <1>1, <1>2, <1>3, <1>5, <1>4, <1>7, <1>8, <1>9, <1>10, TypesGiven, MoveSteady DEF Steady, Typed

\* A registration is answered by a priming event for each key, then by the answer.
LEMMA RegisterEffect ==
    ASSUME Typed, NEW c \in Clients, Register(c)
    PROVE  /\ Working' /\ Moves(c, "registering") /\ job'[c].keys = job[c].keys
           /\ job'[c].values = job[c].values
           /\ \E o \in {"ok", "error"} : Answering(c, o)
           /\ \A i \in (Len(inbox) + 1)..Len(inbox') : inbox'[i].type \in {"prime", "reply"}
           /\ \A i \in (Len(inbox) + 1)..Len(inbox') : inbox'[i].type = "prime" =>
                 inbox'[i].key \in job[c].locked /\ inbox'[i].value = back[inbox'[i].key]
<1>1. Working' /\ Moves(c, "registering") /\ job'[c].keys = job[c].keys /\ job'[c].values = job[c].values
  BY MoveEffect DEF Register, Typed, Places
<1>2. job[c].locked \in SUBSET Keys
  BY DEF Typed, Working, Jobs
<1>3. PICK q \in Orders(job[c].locked), o \in Outcomes :
          inbox' = inbox \o [i \in DOMAIN q |-> Event(q[i], "prime", back[q[i]])] \o <<Reply(c, o)>>
  BY DEF Register
<1> DEFINE n == Cardinality(job[c].locked)
           es == [i \in 1..n |-> Event(q[i], "prime", back[q[i]])]
           ans == <<Reply(c, o)>>
<1>4. /\ n \in Nat /\ q \in [1..n -> job[c].locked]
  BY <1>2, <1>3, OrdersParts
<1>5. o \in {"ok", "error"} /\ Reply(c, o) \in Msgs /\ Reply(c, o).type = "reply"
  BY MessageParts DEF Outcomes, Reply
<1>6. ASSUME NEW i \in 1..n
      PROVE  /\ es[i] \in Notes /\ es[i].type = "prime" /\ es[i].key \in job[c].locked
             /\ es[i].value = back[es[i].key]
  <2>1. q[i] \in job[c].locked /\ q[i] \in Keys /\ back[q[i]] \in Versions
    BY <1>2, <1>4 DEF Typed, TypeOK
  <2> QED
    BY <2>1 DEF Event, Notes, Kinds
<1>7. es \in [1..n -> Notes]
  BY <1>6
<1>8. inbox' = inbox \o es \o ans
  BY <1>3, <1>4
<1>9. ans \in Seq(Msgs) /\ Len(ans) = 1 /\ ans[1] = Reply(c, o)
  BY <1>5
<1> HIDE DEF n, es, ans
<1>10. /\ Grows /\ Len(inbox') = Len(inbox) + n + 1
       /\ \A i \in 1..n : inbox'[Len(inbox) + i] = es[i]
       /\ inbox'[Len(inbox) + n + 1] = Reply(c, o)
  <2>1. n \in Nat /\ inbox \in Seq(Msgs)
    BY <1>4 DEF Typed, Incoming
  <2>2. /\ Grows /\ Len(inbox') = Len(inbox) + n + Len(ans)
        /\ \A i \in 1..n : inbox'[Len(inbox) + i] = es[i]
        /\ \A i \in 1..Len(ans) : inbox'[Len(inbox) + n + i] = ans[i]
    BY <1>7, <1>8, <1>9, <2>1, InboxGrows, Zenon
  <2>3. 1 \in 1..Len(ans)
    BY <1>9
  <2> QED
    BY <1>9, <2>2, <2>3
<1>11. Len(inbox) \in Nat
  BY LenProperties DEF Typed, Incoming
<1>12. ASSUME NEW i \in (Len(inbox) + 1)..(Len(inbox') - 1)
       PROVE  /\ inbox'[i] \in Notes /\ inbox'[i].type = "prime"
              /\ inbox'[i].key \in job[c].locked /\ inbox'[i].value = back[inbox'[i].key]
  <2>1. i - Len(inbox) \in 1..n /\ i = Len(inbox) + (i - Len(inbox))
    BY <1>4, <1>10, <1>11
  <2>2. inbox'[i] = es[i - Len(inbox)]
    BY <1>10, <2>1
  <2> QED
    BY <1>6, <2>1, <2>2
<1>13. Answering(c, o)
  BY <1>4, <1>10, <1>11, <1>12 DEF Answering
<1>14. \A i \in (Len(inbox) + 1)..Len(inbox') :
          i \in (Len(inbox) + 1)..(Len(inbox') - 1) \/ inbox'[i] = Reply(c, o)
  BY <1>4, <1>10, <1>11
<1> QED
  BY <1>1, <1>5, <1>12, <1>13, <1>14

LEMMA AskSteady ==
    ASSUME Steady, NEW c \in Clients, NEW a \in {"registering", "asked"}, NEW o \in {"ok", "error"},
           (job[c].at = "register" /\ a = "registering") \/ (job[c].at = "ask" /\ a = "asked"),
           Working', Moves(c, a), job'[c].keys = job[c].keys, Answering(c, o),
           UNCHANGED <<mode, strategy, front, lock, gate, list, global, events, svc>>,
           back' \in [Keys -> Versions], version' \in Versions, listening' \subseteq Keys
    PROVE  Steady'
<1>1. /\ Others(c) /\ job'[c].at = a /\ job'[c] \in Jobs /\ job'[c].op = job[c].op
      /\ job'[c].reply = job[c].reply
  BY DEF Moves, Goes, Working
<1>2. job[c].reply = "no"
  BY PlaceOps DEF ShapedJob, Waiting, Jobs
<1>3. ~ Waits(c) /\ Waits(c)' /\ (Sifted(c) => Sifted(c)')
  BY <1>1, <1>2 DEF Waits, Sifted, target
<1>4. Answered' /\ Incoming' /\ Heard'
  BY <1>1, <1>3, AnsweredAsks, HeardKept DEF Steady, Typed, Answering, Grows, Incoming
<1>5. job[c].at \in Listing /\ a \in Listing
  BY DEF Listing
<1>6. Goes(c, a, job[c].locked, job[c].evicted, "no")
  BY <1>2 DEF Moves
<1>7. a = "registering" => job[c].op \in {"get", "getAll"} /\ target # "all"
  BY PlaceOps DEF Steady, Suited
<1>8. ShapedJob(job'[c])
  BY <1>1, <1>5, <1>6, <1>7, EvictsLate, MovedShape
<1>9. /\ strategy = "all" => target = "all"
      /\ strategy = "present" => target # "all"
  BY DEF Steady, Suited
<1> QED
  BY <1>4, <1>5, <1>6, <1>7, <1>8, <1>9, MoveSteady, TypesGiven DEF Steady, Typed

LEMMA RequestsSteady ==
    ASSUME Steady, NEW c \in Clients, Register(c) \/ AskRead(c) \/ AskWrite(c) \/ AskFails(c)
    PROVE  Steady'
<1>1. Typed /\ ShapedJob(job[c]) /\ listening \subseteq Keys /\ job[c].locked \subseteq Keys
      /\ back \in [Keys -> Versions] /\ version \in Versions
  BY PlaceOps, TypesGiven DEF Steady, Typed, Jobs
<1>2. CASE Register(c)
  <2>1. PICK o \in {"ok", "error"} : Answering(c, o)
    BY <1>1, <1>2, RegisterEffect
  <2>2. Working' /\ Moves(c, "registering") /\ job'[c].keys = job[c].keys
    BY <1>1, <1>2, RegisterEffect
  <2>3. /\ job[c].at = "register" /\ listening' \subseteq Keys
        /\ UNCHANGED <<mode, strategy, front, lock, gate, list, global, events, back, version, svc>>
    BY <1>1, <1>2 DEF Register, ctrlVars
  <2>4. back' \in [Keys -> Versions] /\ version' \in Versions /\ "registering" \in {"registering", "asked"}
    BY <1>1, <2>3
  <2> QED
    BY <2>1, <2>2, <2>3, <2>4, AskSteady
<1>3. CASE AskRead(c)
  <2>1. PICK o \in {"ok", "error"} : Answering(c, o)
    BY <1>1, <1>3, AskReadEffect
  <2>2. Working' /\ Moves(c, "asked") /\ job'[c].keys = job[c].keys
        /\ back' \in [Keys -> Versions] /\ version' \in Versions
    BY <1>1, <1>3, AskReadEffect
  <2>3. /\ job[c].at = "ask"
        /\ UNCHANGED <<mode, strategy, front, listening, lock, gate, list, global, events, svc>>
    BY <1>3 DEF AskRead, ctrlVars, mapVars
  <2> QED
    BY <1>1, <2>1, <2>2, <2>3, AskSteady
<1>4. CASE AskWrite(c)
  <2>1. PICK o \in {"ok", "error"} : Answering(c, o)
    BY <1>1, <1>4, AskWriteEffect
  <2>2. Working' /\ Moves(c, "asked") /\ job'[c].keys = job[c].keys
        /\ back' \in [Keys -> Versions] /\ version' \in Versions
    BY <1>1, <1>4, AskWriteEffect
  <2>3. /\ job[c].at = "ask"
        /\ UNCHANGED <<mode, strategy, front, listening, lock, gate, list, global, events, svc>>
    BY <1>4 DEF AskWrite, ctrlVars, mapVars
  <2> QED
    BY <1>1, <2>1, <2>2, <2>3, AskSteady
<1>5. CASE AskFails(c)
  <2> DEFINE a == IF job[c].at = "ask" THEN "asked" ELSE "registering"
  <2>1. Answering(c, "error") /\ Working' /\ Moves(c, a) /\ job'[c].keys = job[c].keys
    BY <1>1, <1>5, AskFailsEffect
  <2>2. /\ (job[c].at = "register" /\ a = "registering") \/ (job[c].at = "ask" /\ a = "asked")
        /\ a \in {"registering", "asked"}
    BY <1>5 DEF AskFails
  <2>3. UNCHANGED <<mode, strategy, front, listening, lock, gate, list, global, events, back, version, svc>>
    BY <1>5 DEF AskFails, ctrlVars, mapVars
  <2> HIDE DEF a
  <2> QED
    BY <1>1, <2>1, <2>2, <2>3, AskSteady
<1> QED
  BY <1>2, <1>3, <1>4, <1>5

LEMMA RegisteredSteady ==
    ASSUME Steady, NEW c \in Clients, Registered(c)
    PROVE  Steady'
<1>1. /\ job[c].at = "registering" /\ job[c].op \in {"get", "getAll"} /\ job[c].reply = "ok"
      /\ events' = [events EXCEPT ![c] = [k \in Keys |-> Unprimed(c, k)]]
      /\ UNCHANGED <<mode, strategy, front, listening, lock, gate, list, global, back, version, inbox, svc>>
  BY PlaceOps DEF Registered, mapVars, peerVars
<1> DEFINE a == IF job[c].keys \subseteq Primed(c) THEN "finish" ELSE "ask"
<1>2. /\ Working' /\ Goes(c, a, job[c].locked, job[c].evicted, "no")
      /\ job'[c].keys = job[c].keys \ Primed(c)
  BY RegisteredEffect DEF Steady, Typed
<1>3. a \in {"finish", "ask"} /\ a \in Listing /\ (a = "ask" => job'[c].keys # {})
  BY <1>2 DEF Listing
<1> HIDE DEF a
<1>4. job[c].at \in Listing /\ job[c].op # "clear" /\ ~ Waits(c) /\ ~ Sifted(c) /\ target # "all"
  BY <1>1 DEF Listing, Waits, Sifted, Steady, Suited
<1>5. Others(c) /\ job'[c] \in Jobs /\ job'[c].op = job[c].op /\ job'[c].at = a
  BY <1>2 DEF Goes, Working
<1>6. Answered' /\ Incoming'
  BY <1>1, <1>4, <1>5, AnsweredJob, IncomingKept DEF Steady, Typed
<1>7. Heard'
  <2>1. events[c] \in [Keys -> Seq(Notes)] /\ events = [d \in Clients |-> [k \in Keys |-> events[d][k]]]
    BY <1>4 DEF Steady, Typed, Heard
  <2>2. /\ events'[c] = [k \in Keys |-> Unprimed(c, k)]
        /\ \A d \in Clients : d # c => events'[d] = events[d]
        /\ events' = [d \in Clients |-> events'[d]]
    BY <1>1, <2>1
  <2>3. events' = [d \in Clients |-> [k \in Keys |-> events'[d][k]]]
    <3>1. \A d \in Clients : events'[d] = [k \in Keys |-> events'[d][k]]
      BY <2>1, <2>2
    <3> QED
      BY <2>2, <3>1
  <2>4. ASSUME NEW d \in Clients, ~ Sifted(d)' PROVE events'[d] \in [Keys -> Seq(Notes)]
    <3>1. CASE d = c
      <4>1. job[c].op = "get"
        BY <1>1, <1>3, <1>4, <1>5, <2>4, <3>1 DEF Sifted, target
      <4>2. ASSUME NEW k \in Keys PROVE Unprimed(c, k) \in Seq(Notes)
        <5>1. events[c][k] \in Seq(Notes) /\ Len(events[c][k]) \in Nat
          BY <2>1, LenProperties
        <5>2. CASE Primes(c, k) = {}
          BY <5>1, <5>2 DEF Unprimed
        <5>3. CASE Primes(c, k) # {}
          <6>1. Unprimed(c, k) = SubSeq(events[c][k], 1, Len(events[c][k]) - 1)
            BY <4>1, <5>3 DEF Unprimed
          <6>2. SubSeq(events[c][k], 1, Len(events[c][k]) - 1) \in Seq(Notes)
            BY <5>1, SubSeqProperties
          <6> QED
            BY <6>1, <6>2
        <5> QED
          BY <5>2, <5>3
      <4> QED
        BY <2>2, <3>1, <4>2
    <3>2. CASE d # c
      <4>1. ~ Sifted(d)
        BY <1>1, <1>5, <2>4, <3>2 DEF Others, Sifted, target
      <4> QED
        BY <2>2, <3>2, <4>1 DEF Steady, Typed, Heard
    <3> QED
      BY <3>1, <3>2
  <2> QED
    BY <2>3, <2>4 DEF Heard
<1>8. ShapedJob(job'[c])
  BY <1>1, <1>2, <1>3, <1>4, <1>5, EvictsLate, MovedShape
<1>9. /\ strategy = "all" => target = "all"
      /\ strategy = "present" => target # "all"
  BY DEF Steady, Suited
<1> QED
  BY <1>1, <1>2, <1>3, <1>4, <1>6, <1>7, <1>8, <1>9, TypesGiven, MoveSteady DEF Steady, Typed
-----------------------------------------------------------------------------
(***************************************************************************)
(* Steps that change locks, lists and the front map.                       *)
(***************************************************************************)
LEMMA LocksGiven ==
    ASSUME Steady, NEW k \in Keys
    PROVE  /\ lock[k].owner \in Clients \cup {Service, None} /\ lock[k].count \in Nat
           /\ lock[k].owner = None => lock[k] = Unlocked
           /\ lock[k].owner # None => lock[k].count >= 1
           /\ Unlocked.owner = None /\ Unlocked.count = 0
BY DEF Steady, Typed, TypeOK, Locking, Unlocked

\* What one client has locked no other has.
LEMMA LocksOfOne ==
    ASSUME Steady, NEW c \in Clients, NEW k \in Keys, lock[k].owner \in {None, c}
    PROVE  \A d \in Clients : d # c => k \notin job[d].locked \cup job[d].evicted /\ list[k] # d
<1>1. \A d \in Clients : d # c => k \notin job[d].locked \cup job[d].evicted
  BY Parties DEF Steady, Locking
<1> QED
  BY <1>1 DEF Steady, Listed

LEMMA LockingTakes ==
    ASSUME Steady, UNCHANGED svc, NEW c \in Clients, Others(c), gate # c, lock' \in LockMaps,
           NEW S \in SUBSET Keys, \A k \in S : Free(k, c),
           \A k \in S : lock'[k].owner = c /\ lock'[k].count >= lock[k].count + 1,
           \A k \in Keys \ S : lock'[k] = lock[k],
           job'[c].locked \subseteq job[c].locked \cup S, job'[c].evicted \subseteq job[c].evicted \cup S,
           \A k \in job'[c].locked \cap job'[c].evicted : k \in job[c].locked \cup job[c].evicted
    PROVE  Locking' /\ (gate # None => UNCHANGED lock)
<1>1. \A k \in Keys : lock'[k].count \in Nat
  BY DEF LockMaps
<1>2. \A k \in S : lock[k].owner \in {None, c} /\ gate \in {None, c}
  BY DEF Free
<1>3. \A d \in Clients : job[d].locked \subseteq Keys /\ job[d].evicted \subseteq Keys
  BY DEF Steady, Typed, Working, Jobs
<1>4. \A d \in Clients : d # c => S \cap (job[d].locked \cup job[d].evicted) = {}
  BY <1>2, LocksOfOne
<1>5. \A k \in S : lock'[k].owner = c /\ lock'[k].count >= 1
  BY <1>1, LocksGiven
<1>6. \A k \in Keys : /\ lock'[k].owner = None <=> lock'[k] = Unlocked
                      /\ lock'[k].owner # None => lock'[k].count >= 1
  BY <1>5, LocksGiven, Parties DEF Steady, Locking
<1>7. \A d \in Clients : \A k \in job'[d].locked \cup job'[d].evicted : lock'[k].owner = d
  <2>1. SUFFICES ASSUME NEW d \in Clients, NEW k \in job'[d].locked \cup job'[d].evicted
                 PROVE  lock'[k].owner = d
    OBVIOUS
  <2>2. CASE d = c
    BY <1>3, <1>5, <2>1, <2>2 DEF Steady, Locking
  <2>3. CASE d # c
    BY <1>3, <1>4, <2>1, <2>3 DEF Steady, Locking, Others
  <2> QED
    BY <2>2, <2>3
<1>8. \A d \in Clients : \A k \in job'[d].locked \cap job'[d].evicted : lock'[k].count >= 2
  <2>1. SUFFICES ASSUME NEW d \in Clients, NEW k \in job'[d].locked \cap job'[d].evicted
                 PROVE  lock'[k].count >= 2
    OBVIOUS
  <2>2. CASE d = c /\ k \in S
    <3>1. k \in job[c].locked \cup job[c].evicted
      BY <2>1, <2>2
    <3>2. lock[k].owner # None
      BY <3>1, Parties DEF Steady, Locking
    <3>3. lock[k].count \in Nat /\ lock[k].count >= 1 /\ lock'[k].count >= lock[k].count + 1
      BY <2>2, <3>2, LocksGiven
    <3> QED
      BY <1>1, <2>2, <3>3
  <2>3. CASE d = c /\ k \notin S
    <3>1. k \in job[c].locked \cap job[c].evicted
      BY <2>1, <2>3
    <3> QED
      BY <1>3, <2>3, <3>1 DEF Steady, Locking
  <2>4. CASE d # c
    <3>1. k \in job[d].locked \cap job[d].evicted
      BY <2>1, <2>4 DEF Others
    <3> QED
      BY <1>3, <1>4, <2>4, <3>1 DEF Steady, Locking
  <2> QED
    BY <2>2, <2>3, <2>4
<1>9. \A k \in Keys : lock'[k].owner = Service <=> svc.at = "validate" /\ svc.event.key = k
  <2>1. \A k \in S : lock[k].owner # Service /\ lock'[k].owner # Service
    BY <1>2, Parties
  <2> QED
    BY <2>1 DEF Steady, Locking
<1>10. svc.at = "validate" => lock'[svc.event.key].count = 1
  <2>1. svc.at = "validate" => svc.event.key \in Keys
    BY MessageParts DEF Steady, Typed, Serving
  <2>2. \A k \in S : lock[k].owner # Service
    BY <1>2, Parties
  <2> QED
    BY <2>1, <2>2 DEF Steady, Locking
<1>11. gate # None => UNCHANGED lock
  BY <1>2 DEF Steady, Typed, TypeOK, LockMaps
<1>12. Locking'
  BY <1>6, <1>7, <1>8, <1>9, <1>10 DEF Locking
<1> QED
  BY <1>11, <1>12

LEMMA LockingGives ==
    ASSUME Steady, UNCHANGED svc, NEW c \in Clients, Others(c), lock' \in LockMaps,
           NEW S, S \subseteq job[c].locked \cup job[c].evicted,
           \A k \in S : lock'[k] = Unlocked \/ (lock'[k].owner = c /\ lock'[k].count >= 1),
           \A k \in Keys \ S : lock'[k] = lock[k],
           job'[c].locked \subseteq job[c].locked \ S, job'[c].evicted \subseteq job[c].evicted \ S
    PROVE  Locking' /\ (gate # None => UNCHANGED lock)
<1>1. \A k \in Keys : lock'[k].count \in Nat
  BY DEF LockMaps
<1>2. \A k \in S : k \in Keys /\ lock[k].owner = c
  BY DEF Steady, Typed, Working, Jobs, Locking
<1>3. \A d \in Clients : job[d].locked \subseteq Keys /\ job[d].evicted \subseteq Keys
  BY DEF Steady, Typed, Working, Jobs
<1>4. \A d \in Clients : d # c => S \cap (job[d].locked \cup job[d].evicted) = {}
  BY <1>2, LocksOfOne
<1>5. \A k \in S : lock'[k].owner \in {None, c}
  BY DEF Unlocked
<1>6. \A k \in Keys : /\ lock'[k].owner = None <=> lock'[k] = Unlocked
                      /\ lock'[k].owner # None => lock'[k].count >= 1
  <2>1. SUFFICES ASSUME NEW k \in Keys
                 PROVE  /\ lock'[k].owner = None <=> lock'[k] = Unlocked
                        /\ lock'[k].owner # None => lock'[k].count >= 1
    OBVIOUS
  <2>2. CASE k \in S
    BY <2>2, Parties, LocksGiven
  <2>3. CASE k \notin S
    BY <2>3 DEF Steady, Locking
  <2> QED
    BY <2>2, <2>3
<1>7. \A d \in Clients : \A k \in job'[d].locked \cup job'[d].evicted : lock'[k].owner = d
  <2>1. SUFFICES ASSUME NEW d \in Clients, NEW k \in job'[d].locked \cup job'[d].evicted
                 PROVE  lock'[k].owner = d
    OBVIOUS
  <2>2. k \in job[d].locked \cup job[d].evicted /\ k \notin S
    BY <1>4, <2>1 DEF Others
  <2> QED
    BY <1>3, <2>2 DEF Steady, Locking
<1>8. \A d \in Clients : \A k \in job'[d].locked \cap job'[d].evicted : lock'[k].count >= 2
  <2>1. SUFFICES ASSUME NEW d \in Clients, NEW k \in job'[d].locked \cap job'[d].evicted
                 PROVE  lock'[k].count >= 2
    OBVIOUS
  <2>2. k \in job[d].locked \cap job[d].evicted /\ k \notin S
    BY <1>4, <2>1 DEF Others
  <2> QED
    BY <1>3, <2>2 DEF Steady, Locking
<1>9. \A k \in Keys : lock'[k].owner = Service <=> svc.at = "validate" /\ svc.event.key = k
  <2>1. \A k \in S : lock[k].owner # Service /\ lock'[k].owner # Service
    BY <1>2, <1>5, Parties
  <2> QED
    BY <2>1 DEF Steady, Locking
<1>10. svc.at = "validate" => lock'[svc.event.key].count = 1
  <2>1. svc.at = "validate" => svc.event.key \in Keys
    BY MessageParts DEF Steady, Typed, Serving
  <2>2. \A k \in S : lock[k].owner # Service
    BY <1>2, Parties
  <2> QED
    BY <2>1, <2>2 DEF Steady, Locking
<1>11. gate # None => UNCHANGED lock
  <2>1. gate # None => S = {}
    BY <1>2, LocksGiven, Parties DEF Steady, Closed
  <2> QED
    BY <2>1 DEF Steady, Typed, TypeOK, LockMaps
<1>12. Locking'
  BY <1>6, <1>7, <1>8, <1>9, <1>10 DEF Locking
<1> QED
  BY <1>11, <1>12

\* The lists of keys that are c's own change.
LEMMA ListedSet ==
    ASSUME Steady, NEW c \in Clients, Others(c), NEW S \in SUBSET Keys,
           \A k \in Keys \ S : list'[k] = list[k],
           \A d \in Clients : d # c => S \cap job[d].locked = {},
           \A k \in Keys : list'[k] \in Clients /\ k \in S => list'[k] = c,
           \A k \in Keys : list'[k] = c => /\ k \in job'[c].locked
                                           /\ job'[c].op \in {"get", "getAll", "put", "putAll"}
                                           /\ job'[c].at \in Listing \cup {"front"},
           job'[c].at \in Listing => \A k \in job'[c].locked : list'[k] # None,
           job'[c].at = "front" => \A k \in job'[c].keys : list'[k] # None,
           job'[c].at = "front" => \A k \in Keys : list'[k] = c => k \in job'[c].keys
    PROVE  Listed'
<1>1. \A d \in Clients : job[d].locked \subseteq Keys
  BY DEF Steady, Typed, Working, Jobs
<1>2. \A d \in Clients : job[d].at = "front" => job[d].keys \subseteq job[d].locked
  BY PlaceOps DEF ShapedJob, ShapeOfGetAll, Ones
<1>3. ASSUME NEW k \in Keys, list'[k] \in Clients
      PROVE  /\ k \in job'[list'[k]].locked
             /\ job'[list'[k]].op \in {"get", "getAll", "put", "putAll"}
             /\ job'[list'[k]].at \in Listing \cup {"front"}
             /\ job'[list'[k]].at = "front" => k \in job'[list'[k]].keys
  <2>1. CASE list'[k] = c
    BY <2>1
  <2>2. CASE list'[k] # c
    <3>1. k \notin S /\ list'[k] = list[k]
      BY <1>3, <2>2
    <3> QED
      BY <1>3, <2>2, <3>1 DEF Steady, Listed, Others
  <2> QED
    BY <2>1, <2>2
<1>4. ASSUME NEW d \in Clients, d # c, NEW k \in job[d].locked PROVE k \in Keys /\ list'[k] = list[k]
  BY <1>1, <1>4
<1>5. ASSUME NEW d \in Clients, job'[d].at \in Listing, NEW k \in job'[d].locked PROVE list'[k] # None
  <2>1. CASE d = c
    BY <1>5, <2>1
  <2>2. CASE d # c
    BY <1>4, <1>5, <2>2 DEF Steady, Listed, Others
  <2> QED
    BY <2>1, <2>2
<1>6. ASSUME NEW d \in Clients, job'[d].at = "front", NEW k \in job'[d].keys PROVE list'[k] # None
  <2>1. CASE d = c
    BY <1>6, <2>1
  <2>2. CASE d # c
    <3>1. k \in job[d].keys /\ job[d].at = "front" /\ k \in job[d].locked
      BY <1>2, <1>6, <2>2 DEF Others
    <3> QED
      BY <1>4, <2>2, <3>1 DEF Steady, Listed
  <2> QED
    BY <2>1, <2>2
<1> QED
  BY <1>3, <1>5, <1>6 DEF Listed

\* The front map is filled for keys that are c's own.
LEMMA MissingFills ==
    ASSUME Steady, NEW c \in Clients, Others(c), NEW S \in SUBSET Keys,
           \A k \in Keys \ S : front'[k] \in {Absent, front[k]},
           \A d \in Clients : d # c => S \cap job[d].locked = {},
           job'[c].op = "get" /\ job'[c].at \in Listing => \A k \in job'[c].locked : front'[k] = Absent
    PROVE  Missing'
<1>1. \A d \in Clients : job[d].locked \subseteq Keys
  BY DEF Steady, Typed, Working, Jobs
<1>2. SUFFICES ASSUME NEW d \in Clients, job'[d].op = "get", job'[d].at \in Listing, NEW k \in job'[d].locked
               PROVE  front'[k] = Absent
  BY DEF Missing
<1>3. CASE d = c
  BY <1>2, <1>3
<1>4. CASE d # c
  <2>1. k \in job[d].locked /\ k \in Keys \ S /\ front[k] = Absent
    BY <1>1, <1>2, <1>4 DEF Steady, Missing, Others
  <2> QED
    BY <2>1
<1> QED
  BY <1>3, <1>4

\* A step of a client that asks for nothing and waits for nothing.
LEMMA ClientSteady ==
    ASSUME Steady, NEW c \in Clients, Others(c), ~ Waits(c), Working', ShapedJob(job'[c]),
           UNCHANGED <<mode, svc, inbox, back, version, gate, global>>, Heard',
           front' \in [Keys -> Versions], listening' \subseteq Keys,
           list' \in [Keys -> Clients \cup {Ignore, None}], lock' \in LockMaps,
           strategy' \in {strategy, "none"},
           job'[c].at \in {"register", "registering"} => job[c].at \in {"register", "registering"},
           job'[c].at = "ensuring" => job[c].at = "ensuring",
           gate # None => UNCHANGED lock,
           gate # c \/ (job'[c].op = "clear" /\ job'[c].at \in {"ask", "asked"}),
           Locking', Listed', Missing'
    PROVE  Steady'
<1>1. Incoming' /\ Serving'
  BY IncomingKept, ServingKept DEF Steady, Typed
<1>2. TypeOK'
  BY <1>1, TypesGiven, TypesKept DEF Steady, Typed
<1>3. Shaped'
  BY ShapedKept DEF Steady
<1>4. Answered'
  BY AnsweredJob DEF Steady
<1>5. Closed'
  BY ClosedKept DEF Steady
<1>6. Suited'
  BY SuitedKept DEF Steady
<1> QED
  BY <1>1, <1>2, <1>3, <1>4, <1>5, <1>6 DEF Steady, Typed

\* A step with which an operation ends.
LEMMA EndSteady ==
    ASSUME Steady, NEW c \in Clients, Ends(c), ~ Waits(c), Working', gate # c,
           UNCHANGED <<mode, strategy, svc, inbox, back, version, gate, global>>, Heard',
           front' \in [Keys -> Versions], \A k \in Keys : k \in job[c].locked \/ front'[k] \in {Absent, front[k]},
           listening' \subseteq Keys,
           list' \in [Keys -> Clients \cup {Ignore, None}],
           \A k \in Keys : k \in job[c].locked \/ list'[k] = list[k], \A k \in job[c].locked : list'[k] \in {Ignore, None},
           lock' \in LockMaps, NEW S, S \subseteq job[c].locked \cup job[c].evicted,
           \A k \in S : lock'[k] = Unlocked \/ (lock'[k].owner = c /\ lock'[k].count >= 1),
           \A k \in Keys \ S : lock'[k] = lock[k]
    PROVE  Steady'
<1>1. /\ Others(c) /\ job'[c] = IdleJob /\ job'[c].at = "idle" /\ job'[c].locked = {} /\ job'[c].evicted = {}
      /\ job'[c].op = "none" /\ job'[c].reply = "no"
  BY DEF Ends, IdleJob
<1>2. \A k \in job[c].locked : lock[k].owner = c /\ k \in Keys
  BY DEF Steady, Locking, Typed, Working, Jobs
<1>3. \A d \in Clients : d # c => job[c].locked \cap job[d].locked = {}
  BY <1>2, LocksOfOne
<1>4. Locking' /\ (gate # None => UNCHANGED lock)
  BY <1>1, LockingGives
<1>5. Missing'
  <2>1. job[c].locked \in SUBSET Keys /\ job'[c].at \notin Listing
    BY <1>1, <1>2 DEF Listing
  <2> QED
    BY <1>1, <1>3, <2>1, MissingFills
<1>6. \A k \in Keys : list'[k] # c
  <2>1. \A k \in Keys : k \notin job[c].locked => list[k] # c
    BY DEF Steady, Listed
  <2> QED
    BY <1>2, <2>1, Parties
<1>7. Listed'
  <2>1. \A k \in Keys \ job[c].locked : list'[k] = list[k]
    OBVIOUS
  <2>2. \A k \in Keys : list'[k] \in Clients /\ k \in job[c].locked => list'[k] = c
    BY Parties
  <2>3. \A k \in Keys : list'[k] = c => /\ k \in job'[c].locked
                                        /\ job'[c].op \in {"get", "getAll", "put", "putAll"}
                                        /\ job'[c].at \in Listing \cup {"front"}
    BY <1>6
  <2>4. job'[c].at \in Listing => \A k \in job'[c].locked : list'[k] # None
    BY <1>1 DEF Listing
  <2>5. job'[c].at # "front"
    BY <1>1
  <2>6. job[c].locked \in SUBSET Keys
    BY <1>2
  <2> HIDE DEF Ends, Others
  <2> QED
    BY <1>1, <1>3, <2>1, <2>2, <2>3, <2>4, <2>5, <2>6, ListedSet
<1>8. ShapedJob(job'[c])
  BY <1>1, IdleIsJob
<1> QED
  BY <1>1, <1>4, <1>5, <1>7, <1>8, ClientSteady

\* A lock taken once more.
LEMMA LockOnce ==
    ASSUME Steady, NEW c \in Clients, NEW S \in SUBSET Keys, lock' = Locked(lock, S, c)
    PROVE  /\ lock' \in LockMaps
           /\ \A k \in S : lock'[k].owner = c /\ lock'[k].count = lock[k].count + 1
           /\ \A k \in S : lock'[k].count >= lock[k].count + 1
           /\ \A k \in Keys \ S : lock'[k] = lock[k]
<1>1. lock \in LockMaps
  BY TypesGiven DEF Steady, Typed
<1>2. /\ lock' \in LockMaps
      /\ \A k \in S : lock'[k] = [owner |-> c, count |-> lock[k].count + 1]
      /\ \A k \in Keys \ S : lock'[k] = lock[k]
  <2>1. c \in Clients \cup {Service}
    OBVIOUS
  <2>2. /\ Locked(lock, S, c) \in LockMaps
        /\ \A k \in S : Locked(lock, S, c)[k] = [owner |-> c, count |-> lock[k].count + 1]
        /\ \A k \in Keys \ S : Locked(lock, S, c)[k] = lock[k]
    BY <1>1, <2>1, LockedParts
  <2> QED
    BY <2>2
<1>3. \A k \in S : lock[k].count \in Nat
  BY LocksGiven
<1>4. ASSUME NEW k \in S PROVE lock'[k].owner = c /\ lock'[k].count = lock[k].count + 1
  <2>1. lock'[k] = [owner |-> c, count |-> lock[k].count + 1]
    BY <1>2
  <2>2. lock'[k].owner = c
    BY <2>1
  <2>3. lock'[k].count = lock[k].count + 1
    BY <2>1
  <2> QED
    BY <2>2, <2>3
<1> QED
  BY <1>2, <1>3, <1>4

LEMMA LockSteady ==
    ASSUME Steady, NEW c \in Clients, Lock(c)
    PROVE  Steady'
<1>1. /\ job[c].at = "lock" /\ job[c].op \in Ones /\ (\A k \in job[c].keys : Free(k, c))
      /\ lock' = Locked(lock, job[c].keys, c)
      /\ UNCHANGED <<mode, strategy, front, listening, gate, list, global, events, back, version, inbox, svc>>
  BY PlaceOps DEF Lock, mapVars, peerVars
<1>2. /\ Working' /\ Goes(c, "assign", job[c].keys, job[c].evicted, job[c].reply) /\ job'[c].keys = job[c].keys
  BY LockEffect DEF Steady, Typed
<1>3. /\ Others(c) /\ job'[c].op = job[c].op /\ job'[c].at = "assign" /\ job'[c].locked = job[c].keys
      /\ job'[c].evicted = job[c].evicted /\ job'[c].reply = job[c].reply
  BY <1>2 DEF Goes
<1>4. /\ job[c].evicted = {} /\ job[c].locked = {} /\ job[c].reply = "no"
      /\ \E k \in Keys : job[c].keys = {k}
  <2>1. ShapedJob(job[c]) /\ job[c] \in Jobs /\ ShapeOfOne(job[c])
    BY <1>1, PlaceOps DEF ShapedJob
  <2>2. job[c].evicted = {} /\ job[c].reply = "no"
    BY <1>1, <2>1 DEF ShapedJob, Waiting, Jobs
  <2> QED
    BY <1>1, <2>1, <2>2 DEF ShapeOfOne
<1>5. ~ Waits(c) /\ ~ Sifted(c) /\ gate # c
  BY <1>1, NotGate DEF Waits, Sifted, Steady
<1>6. /\ lock' \in LockMaps
      /\ \A k \in job[c].keys : lock'[k].owner = c /\ lock'[k].count >= lock[k].count + 1
      /\ \A k \in Keys \ job[c].keys : lock'[k] = lock[k]
  <2>1. job[c].keys \in SUBSET Keys
    BY <1>4
  <2> QED
    BY <1>1, <2>1, LockOnce
<1>7. Locking' /\ (gate # None => UNCHANGED lock)
  BY <1>1, <1>3, <1>4, <1>5, <1>6, LockingTakes
<1>8. ShapedJob(job'[c])
  <2>1. ShapeOfOne(job'[c])
    BY <1>2, <1>3, <1>4 DEF ShapeOfOne
  <2>2. job[c].op # "none"
    BY <1>1 DEF Ones
  <2> QED
    BY <1>1, <1>3, <1>4, <2>1, <2>2 DEF ShapedJob, Ones
<1>9. Listed'
  <2>1. list' = list /\ \A k \in Keys : list[k] # c
    BY <1>1 DEF Steady, Listed, Listing
  <2>2. job'[c].at \notin Listing /\ job'[c].at # "front"
    BY <1>3 DEF Listing
  <2>3. {} \in SUBSET Keys
    OBVIOUS
  <2> QED
    BY <1>3, <2>1, <2>2, <2>3, ListedSet
<1>10. Missing'
  <2>1. job'[c].at \notin Listing
    BY <1>3 DEF Listing
  <2>2. \A k \in Keys \ {} : front'[k] \in {Absent, front[k]}
    BY <1>1
  <2> QED
    BY <1>3, <2>1, <2>2, MissingFills, {} \in SUBSET Keys
<1>11. Heard'
  BY <1>1, <1>3, <1>5, HeardKept DEF Steady, Typed
<1> QED
  BY <1>1, <1>2, <1>3, <1>5, <1>6, <1>7, <1>8, <1>9, <1>10, <1>11, TypesGiven, ClientSteady DEF Steady, Typed

\* A lock given back once.
LEMMA ReleaseOnce ==
    ASSUME Steady, NEW c \in Clients, NEW S, S \subseteq job[c].locked \cup job[c].evicted, lock' = Released(lock, S)
    PROVE  /\ lock' \in LockMaps
           /\ \A k \in S : lock'[k] = Unlocked \/ (lock'[k].owner = c /\ lock'[k].count >= 1)
           /\ \A k \in Keys \ S : lock'[k] = lock[k]
<1>1. S \in SUBSET Keys /\ \A k \in S : lock[k].owner = c /\ lock[k].count >= 1
  BY Parties DEF Steady, Typed, Working, Jobs, Locking
<1>2. lock \in LockMaps
  BY TypesGiven DEF Steady, Typed
<1> QED
  BY <1>1, <1>2, ReleasedParts

LEMMA AssignSteady ==
    ASSUME Steady, NEW c \in Clients, NEW k \in Keys, Assign(c, k)
    PROVE  Steady'
<1>1. /\ job[c].at = "assign" /\ job[c].op \in Ones /\ job[c].keys = {k} /\ job[c] \in Jobs
      /\ UNCHANGED <<mode, strategy, gate, global, events, back, version, inbox, svc>>
  BY PlaceOps DEF Assign, peerVars
<1>2. /\ job[c].evicted = {} /\ job[c].locked = {k} /\ job[c].reply = "no"
  <2>1. ShapedJob(job[c]) /\ ShapeOfOne(job[c])
    BY <1>1, PlaceOps DEF ShapedJob
  <2> QED
    BY <1>1, <2>1 DEF ShapedJob, ShapeOfOne, Waiting, Jobs
<1>3. ~ Waits(c) /\ ~ Sifted(c) /\ gate # c
  BY <1>1, NotGate DEF Waits, Sifted, Steady
<1>4. CASE job[c].op \in {"get", "containsKey"} /\ front[k] # Absent
  <2>1. /\ job' = [job EXCEPT ![c] = IdleJob] /\ lock' = Released(lock, {k})
        /\ UNCHANGED <<list, front, listening>>
    BY <1>4 DEF Assign
  <2>2. Working' /\ Ends(c) /\ Others(c)
    BY <2>1, EndsEffect DEF Steady, Typed, Ends
  <2>3. Heard'
    BY <1>1, <1>3, <2>2, HeardKept DEF Steady, Typed
  <2>4. /\ lock' \in LockMaps
        /\ \A j \in {k} : lock'[j] = Unlocked \/ (lock'[j].owner = c /\ lock'[j].count >= 1)
        /\ \A j \in Keys \ {k} : lock'[j] = lock[j]
    BY <1>2, <2>1, ReleaseOnce
  <2>5. list[k] \in {Ignore, None}
    BY <1>1, <1>2, TypesGiven, Parties, LocksOfOne DEF Steady, Typed, Locking, Listed, Listing
  <2> QED
    BY <1>1, <1>2, <1>3, <2>1, <2>2, <2>3, <2>4, <2>5, EndSteady, TypesGiven DEF Steady, Typed
<1>5. CASE ~ (job[c].op \in {"get", "containsKey"} /\ front[k] # Absent)
  <2> DEFINE a == IF job[c].op = "get" THEN "ensure" ELSE "ask"
  <2>1. /\ list' = [list EXCEPT ![k] = ListFor(c, k)]
        /\ job' = [job EXCEPT ![c].at = a]
        /\ UNCHANGED lock
        /\ front' \in {front, Without(front, {k})} /\ listening' \subseteq listening
    BY <1>5 DEF Assign
  <2>2. a \in {"ensure", "ask"} /\ a \in Places /\ a \in Listing /\ (a = "ensure" <=> job[c].op = "get")
    BY DEF Places, Listing
  <2> HIDE DEF a
  <2>3. Working' /\ Moves(c, a) /\ job'[c].keys = {k}
    BY <1>1, <2>1, <2>2, MoveEffect DEF Steady, Typed
  <2>4. /\ Others(c) /\ job'[c].op = job[c].op /\ job'[c].at = a /\ job'[c].locked = {k}
        /\ job'[c].evicted = {} /\ job'[c].reply = "no"
    BY <1>2, <2>3 DEF Moves, Goes
  <2>5. /\ front' \in [Keys -> Versions] /\ \A j \in Keys : front'[j] \in {Absent, front[j]}
    BY <2>1, TypesGiven, WithoutParts DEF Steady, Typed
  <2>6. ShapedJob(job'[c])
    <3>1. ShapeOfOne(job'[c])
      BY <1>1, <2>2, <2>3, <2>4 DEF ShapeOfOne, Ones
    <3>2. job[c].op # "none"
      BY <1>1 DEF Ones
    <3> QED
      BY <1>1, <2>2, <2>4, <3>1, <3>2 DEF ShapedJob, Ones
  <2>7. Locking'
    BY <1>1, <1>2, <2>1, <2>4, LockingKept DEF Steady
  <2>8. ListFor(c, k) \in {c, Ignore} /\ (ListFor(c, k) = c => job[c].op \in {"get", "getAll", "put", "putAll"})
    <3>1. ListFor(c, k) = IF Fills(c, k) THEN c ELSE Ignore
      BY DEF ListFor
    <3>2. Fills(c, k) => job[c].op \in {"get", "getAll", "put", "putAll"}
      BY DEF Fills
    <3> QED
      BY <3>1, <3>2, Parties
  <2>9. list' \in [Keys -> Clients \cup {Ignore, None}] /\ list'[k] = ListFor(c, k)
        /\ \A j \in Keys \ {k} : list'[j] = list[j]
    BY <2>1, <2>8, TypesGiven DEF Steady, Typed
  <2>10. \A d \in Clients : d # c => {k} \cap job[d].locked = {}
    BY <1>2, LocksOfOne DEF Steady, Locking
  <2>11. Listed'
    <3>1. \A j \in Keys : list'[j] = c => j = k
      BY <1>1, <2>9 DEF Steady, Listed, Listing
    <3>2. \A j \in Keys : list'[j] \in Clients /\ j \in {k} => list'[j] = c
      BY <2>8, <2>9, Parties
    <3>3. \A j \in Keys : list'[j] = c => /\ j \in job'[c].locked
                                          /\ job'[c].op \in {"get", "getAll", "put", "putAll"}
                                          /\ job'[c].at \in Listing \cup {"front"}
      BY <2>2, <2>4, <2>8, <2>9, <3>1
    <3>4. \A j \in job'[c].locked : list'[j] # None
      BY <2>4, <2>8, <2>9, Parties
    <3>5. job'[c].at # "front"
      BY <2>2, <2>4
    <3> QED
      BY <2>4, <2>9, <2>10, <3>2, <3>3, <3>4, <3>5, ListedSet
  <2>12. Missing'
    <3>1. job[c].op = "get" => front'[k] = Absent
      BY <1>5, <2>5
    <3>2. \A j \in Keys \ {} : front'[j] \in {Absent, front[j]}
      BY <2>5
    <3> QED
      BY <2>4, <3>1, <3>2, MissingFills
  <2>13. Heard'
    BY <1>1, <1>3, <2>4, HeardKept DEF Steady, Typed
  <2> QED
    BY <1>1, <1>3, <2>1, <2>2, <2>3, <2>4, <2>5, <2>6, <2>7, <2>9, <2>11, <2>12, <2>13,
       TypesGiven, ClientSteady DEF Steady, Typed
<1> QED
  BY <1>4, <1>5

LEMMA ListForParts ==
    ASSUME NEW c \in Clients, NEW k \in Keys
    PROVE  /\ ListFor(c, k) \in {c, Ignore} /\ ListFor(c, k) # None
           /\ ListFor(c, k) = c => job[c].op \in {"get", "getAll", "put", "putAll"} /\ Fills(c, k)
           /\ ListFor(c, k) = Ignore => ~ Fills(c, k)
<1>1. ListFor(c, k) = IF Fills(c, k) THEN c ELSE Ignore
  BY DEF ListFor
<1>2. Fills(c, k) => job[c].op \in {"get", "getAll", "put", "putAll"}
  BY DEF Fills
<1> QED
  BY <1>1, <1>2, Parties

LEMMA LockNextSteady ==
    ASSUME Steady, NEW c \in Clients, NEW k \in Keys, LockNext(c, k)
    PROVE  Steady'
<1>1. /\ job[c].at = "locks" /\ job[c].op \in {"getAll", "putAll"} /\ job[c].evicted = {} /\ job[c].reply = "no"
      /\ k \notin job[c].locked
      /\ UNCHANGED <<mode, strategy, front, listening, gate, global, events, back, version, inbox, svc>>
  BY PlaceOps, EvictsLate DEF LockNext, mapVars, peerVars, Listing, ShapedJob, Waiting, Jobs
<1> DEFINE S == IF Free(k, c) THEN {k} ELSE {}
<1>2. /\ Working' /\ Goes(c, "locks", job[c].locked \cup S, job[c].evicted, job[c].reply)
      /\ job'[c].keys = job[c].keys
  <2>1. (IF Free(k, c) THEN job[c].locked \cup {k} ELSE job[c].locked) = job[c].locked \cup S
    OBVIOUS
  <2> QED
    BY <2>1, LockNextEffect DEF Steady, Typed
<1>3. /\ Others(c) /\ job'[c].op = job[c].op /\ job'[c].at = "locks" /\ job'[c].locked = job[c].locked \cup S
      /\ job'[c].evicted = {} /\ job'[c].reply = "no" /\ job'[c] \in Jobs
  BY <1>1, <1>2 DEF Goes, Working
<1>4. ~ Waits(c) /\ ~ Sifted(c) /\ gate # c
  BY <1>1, NotGate DEF Waits, Sifted, Steady
<1>5. S \in SUBSET Keys /\ (\A j \in S : Free(j, c) /\ j = k)
  OBVIOUS
<1>6. /\ lock' \in LockMaps
      /\ \A j \in S : lock'[j].owner = c /\ lock'[j].count >= lock[j].count + 1
      /\ \A j \in Keys \ S : lock'[j] = lock[j]
      /\ \A j \in Keys \ S : list'[j] = list[j]
      /\ \A j \in S : list'[j] = ListFor(c, j)
      /\ list' \in [Keys -> Clients \cup {Ignore, None}]
  <2>1. list \in [Keys -> Clients \cup {Ignore, None}] /\ lock \in LockMaps
    BY TypesGiven DEF Steady, Typed
  <2>2. CASE Free(k, c)
    <3>1. lock' = Locked(lock, S, c) /\ list' = [list EXCEPT ![k] = ListFor(c, k)] /\ S = {k}
      BY <2>2 DEF LockNext
    <3>2. /\ lock' \in LockMaps
          /\ \A j \in S : lock'[j].owner = c /\ lock'[j].count >= lock[j].count + 1
          /\ \A j \in Keys \ S : lock'[j] = lock[j]
      BY <1>5, <3>1, LockOnce
    <3>3. list' \in [Keys -> Clients \cup {Ignore, None}]
      BY <2>1, <3>1, ListForParts
    <3> QED
      BY <2>1, <3>1, <3>2, <3>3
  <2>3. CASE ~ Free(k, c)
    BY <2>1, <2>3 DEF LockNext
  <2> QED
    BY <2>2, <2>3
<1> HIDE DEF S
<1>7. Locking' /\ (gate # None => UNCHANGED lock)
  BY <1>1, <1>3, <1>4, <1>5, <1>6, LockingTakes
<1>8. ShapedJob(job'[c])
  <2>1. job[c].op = "getAll" => ShapeOfGetAll(job'[c])
    BY <1>3 DEF ShapeOfGetAll
  <2> QED
    BY <1>1, <1>3, <2>1 DEF ShapedJob, ShapeOfPutAll, Ones
<1>9. \A d \in Clients : d # c => S \cap job[d].locked = {}
  BY <1>5, LocksOfOne DEF Free
<1>10. Listed'
  <2>1. \A j \in Keys : list'[j] \in Clients /\ j \in S => list'[j] = c
    BY <1>6, ListForParts, Parties
  <2>2. \A j \in Keys : list'[j] = c => /\ j \in job'[c].locked
                                        /\ job'[c].op \in {"get", "getAll", "put", "putAll"}
                                        /\ job'[c].at \in Listing \cup {"front"}
    BY <1>1, <1>3, <1>6 DEF Steady, Listed, Listing
  <2>3. \A j \in job'[c].locked : list'[j] # None
    <3>1. \A j \in job[c].locked : j \in Keys /\ list[j] # None
      BY <1>1 DEF Steady, Listed, Listing, Typed, Working, Jobs
    <3> QED
      BY <1>3, <1>5, <1>6, <3>1, ListForParts
  <2>4. job'[c].at # "front"
    BY <1>3
  <2> QED
    BY <1>3, <1>5, <1>6, <1>9, <2>1, <2>2, <2>3, <2>4, ListedSet
<1>11. Missing'
  <2>1. \A j \in Keys \ {} : front'[j] \in {Absent, front[j]}
    BY <1>1
  <2>2. {} \in SUBSET Keys /\ job'[c].op # "get"
    BY <1>1, <1>3
  <2> QED
    BY <1>3, <2>1, <2>2, MissingFills
<1>12. Heard'
  BY <1>1, <1>3, <1>4, HeardKept DEF Steady, Typed
<1> QED
  BY <1>1, <1>2, <1>3, <1>4, <1>6, <1>7, <1>8, <1>10, <1>11, <1>12, TypesGiven, ClientSteady DEF Steady, Typed

\* Locks taken twice: A is what expires, B what is pruned.
LEMMA LockTwice ==
    ASSUME Steady, NEW c \in Clients, NEW A \in SUBSET Keys, NEW B \in SUBSET Keys,
           lock' = Locked(Locked(lock, A, c), B, c)
    PROVE  /\ lock' \in LockMaps
           /\ \A k \in A \cup B : lock'[k].owner = c /\ lock'[k].count >= lock[k].count + 1
           /\ \A k \in A \cup B : k \notin A \cap B => lock'[k].count = lock[k].count + 1
           /\ \A k \in Keys \ (A \cup B) : lock'[k] = lock[k]
<1> DEFINE mid == Locked(lock, A, c)
<1>1. lock \in LockMaps /\ c \in Clients \cup {Service}
  BY TypesGiven DEF Steady, Typed
<1>2. /\ mid \in LockMaps
      /\ \A k \in A : mid[k] = [owner |-> c, count |-> lock[k].count + 1]
      /\ \A k \in Keys \ A : mid[k] = lock[k]
  BY <1>1, LockedParts
<1>3. lock' = Locked(mid, B, c)
  OBVIOUS
<1> HIDE DEF mid
<1>4. /\ Locked(mid, B, c) \in LockMaps
      /\ \A k \in B : Locked(mid, B, c)[k] = [owner |-> c, count |-> mid[k].count + 1]
      /\ \A k \in Keys \ B : Locked(mid, B, c)[k] = mid[k]
  BY <1>1, <1>2, LockedParts
<1>5. /\ lock' \in LockMaps
      /\ \A k \in B : lock'[k] = [owner |-> c, count |-> mid[k].count + 1]
      /\ \A k \in Keys \ B : lock'[k] = mid[k]
  BY <1>3, <1>4
<1>6. \A k \in Keys : lock[k].count \in Nat
  BY LocksGiven
<1>7. ASSUME NEW k \in A PROVE mid[k].owner = c /\ mid[k].count = lock[k].count + 1
  <2>1. mid[k] = [owner |-> c, count |-> lock[k].count + 1]
    BY <1>2
  <2>2. mid[k].owner = c
    BY <2>1
  <2>3. mid[k].count = lock[k].count + 1
    BY <2>1
  <2> QED
    BY <2>2, <2>3
<1>8. ASSUME NEW k \in B PROVE lock'[k].owner = c /\ lock'[k].count = mid[k].count + 1
  <2>1. lock'[k] = [owner |-> c, count |-> mid[k].count + 1]
    BY <1>5
  <2>2. lock'[k].owner = c
    BY <2>1
  <2>3. lock'[k].count = mid[k].count + 1
    BY <2>1
  <2> QED
    BY <2>2, <2>3
<1>9. ASSUME NEW k \in A \cup B
      PROVE  /\ lock'[k].owner = c /\ lock'[k].count >= lock[k].count + 1
             /\ k \notin A \cap B => lock'[k].count = lock[k].count + 1
  <2>1. CASE k \in B /\ k \in A
    BY <1>6, <1>7, <1>8, <2>1
  <2>2. CASE k \in B /\ k \notin A
    BY <1>2, <1>6, <1>8, <2>2
  <2>3. CASE k \notin B
    BY <1>5, <1>6, <1>7, <2>3
  <2> QED
    BY <2>1, <2>2, <2>3
<1>10. \A k \in Keys \ (A \cup B) : lock'[k] = lock[k]
  BY <1>2, <1>5
<1> QED
  BY <1>5, <1>9, <1>10

LEMMA PutsParts ==
    ASSUME Steady, NEW c \in Clients, NEW k \in Keys, NEW X, NEW P, NEW G, Puts(c, k, X, P, G)
    PROVE  /\ G \in SUBSET Keys /\ \A j \in G : strategy = "present" /\ Free(j, c)
           /\ lock' \in LockMaps
           /\ \A j \in G : lock'[j].owner = c /\ lock'[j].count >= lock[j].count + 1
           /\ \A j \in G \ {k} : lock'[j].count = lock[j].count + 1
           /\ \A j \in Keys \ G : lock'[j] = lock[j]
           /\ front' \in [Keys -> Versions]
           /\ \A j \in Keys \ {k} : front'[j] \in {Absent, front[j]}
           /\ \A j \in G \ {k} : front'[j] = Absent
<1>1. /\ X \in SUBSET Keys /\ P \in SUBSET Keys
      /\ G = {e \in X \cup P : strategy = "present" /\ Free(e, c)}
      /\ lock' = Locked(Locked(lock, G \cap X, c), G \cap P, c)
      /\ \A j \in P \ {k} : j \notin X
      /\ front' = FrontWith(k, job[c].values[k], X, P) /\ front' \in [Keys -> Versions]
  BY DEF Puts
<1>2. G \in SUBSET Keys /\ (\A j \in G : strategy = "present" /\ Free(j, c)) /\ G = (G \cap X) \cup (G \cap P)
  BY <1>1
<1>3. /\ lock' \in LockMaps
      /\ \A j \in G : lock'[j].owner = c /\ lock'[j].count >= lock[j].count + 1
      /\ \A j \in G : j \notin (G \cap X) \cap (G \cap P) => lock'[j].count = lock[j].count + 1
      /\ \A j \in Keys \ G : lock'[j] = lock[j]
  <2> DEFINE A == G \cap X
             B == G \cap P
  <2>1. A \in SUBSET Keys /\ B \in SUBSET Keys /\ lock' = Locked(Locked(lock, A, c), B, c)
    BY <1>1
  <2>2. G = A \cup B
    BY <1>2
  <2> HIDE DEF A, B
  <2>3. /\ lock' \in LockMaps
        /\ \A j \in A \cup B : lock'[j].owner = c /\ lock'[j].count >= lock[j].count + 1
        /\ \A j \in A \cup B : j \notin A \cap B => lock'[j].count = lock[j].count + 1
        /\ \A j \in Keys \ (A \cup B) : lock'[j] = lock[j]
    BY <2>1, LockTwice
  <2> QED
    BY <2>2, <2>3 DEF A, B
<1>4. \A j \in G \ {k} : lock'[j].count = lock[j].count + 1
  BY <1>1, <1>3
<1>5. \A j \in Keys \ {k} : front'[j] = IF j \in X \cup P THEN Absent ELSE front[j]
  BY <1>1 DEF FrontWith
<1> QED
  BY <1>1, <1>2, <1>3, <1>4, <1>5

\* The step with which a get or getAll fills the front map, or does not, for one key.
Fronts(c, k, a, G) ==
    /\ Goes(c, a, job[c].locked, job[c].evicted \cup G, job[c].reply) /\ Working'
    /\ job[c].at \in {"finish", "asked", "front"} /\ job[c].op \in {"get", "getAll"} /\ ~ Waits(c)
    /\ a = "front" => /\ job[c].at = "front" /\ job[c].op = "getAll"
                      /\ job'[c].keys = job[c].keys \ {k}
    /\ a = "release" => /\ job[c].op = "getAll" => job[c].keys = {k} /\ job[c].at = "front"
                        /\ job[c].op = "get" => job[c].locked = {k}
    /\ job[c].op = "get" => job'[c].keys \subseteq job[c].keys
    /\ job[c].reply # "error"
    /\ \A j \in G : Free(j, c)
    /\ lock' \in LockMaps
    /\ \A j \in G : lock'[j].owner = c /\ lock'[j].count >= lock[j].count + 1
    /\ \A j \in Keys \ G : lock'[j] = lock[j]
    /\ front' \in [Keys -> Versions] /\ \A j \in Keys \ {k} : front'[j] \in {Absent, front[j]}
    /\ list' = [list EXCEPT ![k] = None] /\ listening' \subseteq Keys
    /\ events' \in {events, [events EXCEPT ![c] = NoEvents]}
    /\ ~ Sifted(c) \/ events' = [events EXCEPT ![c] = NoEvents]
    /\ UNCHANGED <<mode, strategy, gate, global, back, version, inbox, svc>>

LEMMA FrontSteady ==
    ASSUME Steady, NEW c \in Clients, NEW k \in job[c].locked, NEW a \in {"front", "release"},
           NEW G \in SUBSET Keys, Fronts(c, k, a, G)
    PROVE  Steady'
<1> USE DEF Fronts
<1>1. /\ Others(c) /\ job'[c].op = job[c].op /\ job'[c].at = a /\ job'[c].locked = job[c].locked
      /\ job'[c].evicted = job[c].evicted \cup G /\ job'[c].reply = job[c].reply
      /\ job[c] \in Jobs /\ ShapedJob(job[c]) /\ job'[c] \in Jobs
  BY PlaceOps DEF Goes, Working
<1>2. gate # c
  BY NotGate DEF Steady
<1>3. Locking' /\ (gate # None => UNCHANGED lock)
  BY <1>1, <1>2, LockingTakes
<1>4. k \in Keys /\ {k} \in SUBSET Keys /\ lock[k].owner = c
  BY <1>1 DEF Jobs, Steady, Locking
<1>5. \A d \in Clients : d # c => {k} \cap job[d].locked = {}
  BY <1>4, LocksOfOne
<1>6. list' \in [Keys -> Clients \cup {Ignore, None}] /\ list'[k] = None /\ \A j \in Keys \ {k} : list'[j] = list[j]
  BY <1>4, TypesGiven DEF Steady, Typed
<1>7. a \notin Listing
  BY DEF Listing
<1>8. ShapedJob(job'[c])
  <2>1. CASE job[c].op = "get"
    <3>1. ShapeOfOne(job'[c])
      BY <1>1, <2>1 DEF ShapedJob, ShapeOfOne, Ones
    <3> QED
      BY <1>1, <2>1, <3>1 DEF ShapedJob, Ones, Jobs
  <2>2. CASE job[c].op = "getAll"
    <3>1. a = "front" => job'[c].keys \subseteq job'[c].locked
      BY <1>1, <2>2 DEF ShapedJob, ShapeOfGetAll
    <3>2. ShapeOfGetAll(job'[c])
      BY <1>1, <2>2, <3>1 DEF ShapeOfGetAll
    <3> QED
      BY <1>1, <2>2, <3>2 DEF ShapedJob, Ones, Jobs
  <2> QED
    BY <2>1, <2>2
<1>9. Listed'
  <2>1. \A j \in Keys : list'[j] \in Clients /\ j \in {k} => list'[j] = c
    BY <1>6, Parties
  <2>2. \A j \in Keys : list'[j] = c => j # k /\ list[j] = c /\ j \in job[c].locked
    BY <1>6, Parties DEF Steady, Listed
  <2>3. job[c].at = "front" => \A j \in Keys : list[j] = c => j \in job[c].keys
    BY DEF Steady, Listed
  <2>4. a = "release" => \A j \in Keys : list'[j] # c
    BY <2>2, <2>3
  <2>5. a = "front" => \A j \in job'[c].keys : list'[j] # None
    BY <1>1, <1>6 DEF Steady, Listed, Jobs
  <2>6. \A j \in Keys : list'[j] = c => j \in job'[c].locked /\ a = "front"
    BY <1>1, <2>2, <2>4
  <2>7. a = "front" => \A j \in Keys : list'[j] = c => j \in job'[c].keys
    BY <2>2, <2>3
  <2>8. \A j \in Keys : list'[j] = c => /\ j \in job'[c].locked
                                        /\ job'[c].op \in {"get", "getAll", "put", "putAll"}
                                        /\ job'[c].at \in Listing \cup {"front"}
    BY <1>1, <2>6
  <2>9. job'[c].at \in Listing => \A j \in job'[c].locked : list'[j] # None
    BY <1>1, <1>7
  <2>10. /\ job'[c].at = "front" => \A j \in job'[c].keys : list'[j] # None
         /\ job'[c].at = "front" => \A j \in Keys : list'[j] = c => j \in job'[c].keys
    BY <1>1, <2>5, <2>7
  <2> DEFINE S == {k}
  <2>11. /\ Others(c) /\ S \in SUBSET Keys /\ \A j \in Keys \ S : list'[j] = list[j]
         /\ \A d \in Clients : d # c => S \cap job[d].locked = {}
         /\ \A j \in Keys : list'[j] \in Clients /\ j \in S => list'[j] = c
    BY <1>1, <1>4, <1>5, <1>6, <2>1
  <2> HIDE DEF S, Fronts
  <2> QED
    BY <2>8, <2>9, <2>10, <2>11, ListedSet
<1>10. Missing'
  <2>1. job'[c].op = "get" /\ job'[c].at \in Listing => \A j \in job'[c].locked : front'[j] = Absent
    BY <1>1, <1>7
  <2> DEFINE S == {k}
  <2>2. /\ Others(c) /\ S \in SUBSET Keys
        /\ \A j \in Keys \ S : front'[j] \in {Absent, front[j]}
        /\ \A d \in Clients : d # c => S \cap job[d].locked = {}
    BY <1>1, <1>4, <1>5
  <2> HIDE DEF S, Fronts
  <2> QED
    BY <2>1, <2>2, MissingFills
<1>11. Heard'
  <2>1. CASE events' = events /\ ~ Sifted(c)
    BY <1>1, <2>1, HeardKept DEF Steady, Typed
  <2>2. CASE events' = [events EXCEPT ![c] = NoEvents]
    BY <1>1, <2>2, HeardReset DEF Steady, Typed
  <2> QED
    BY <2>1, <2>2
<1> QED
  BY <1>1, <1>2, <1>3, <1>6, <1>8, <1>9, <1>10, <1>11, TypesGiven, ClientSteady DEF Steady, Typed

LEMMA ReadyHas ==
    ASSUME Steady, NEW c \in Clients, job[c].at = "finish" \/ (job[c].at = "asked" /\ job[c].reply = "ok")
    PROVE  /\ ~ Waits(c) /\ job[c].evicted = {} /\ job[c].reply # "error" /\ job[c].at \in Listing
           /\ job[c].op # "none"
<1>1. ShapedJob(job[c]) /\ job[c].at \in Listing
  BY PlaceOps DEF Listing
<1> QED
  BY <1>1, EvictsLate DEF Waits, ShapedJob, Waiting

LEMMA FinishGetSteady ==
    ASSUME Steady, NEW c \in Clients, NEW k \in Keys, FinishGet(c, k)
    PROVE  Steady'
<1>1. /\ Working' /\ job[c].op = "get" /\ k \in job[c].locked
      /\ job[c].at = "finish" \/ (job[c].at = "asked" /\ job[c].reply = "ok")
      /\ list' = [list EXCEPT ![k] = None] /\ events' = [events EXCEPT ![c] = NoEvents]
      /\ UNCHANGED <<mode, strategy, gate, global, back, version, inbox, svc>>
      /\ job[c] \in Jobs
  BY FinishGetEffect, PlaceOps DEF FinishGet, Steady, Typed, peerVars
<1>2. /\ ~ Waits(c) /\ job[c].evicted = {} /\ job[c].reply # "error" /\ job[c].at \in {"finish", "asked", "front"}
  BY <1>1, ReadyHas
<1>3. job[c].locked = {k} /\ "release" \in {"front", "release"}
  BY <1>1, PlaceOps DEF Ones
<1>4. job'[c].keys = job[c].keys
  <2>1. job \in [Clients -> Jobs]
    BY DEF Steady, Typed, Working
  <2>2. ASSUME job' = [job EXCEPT ![c].at = "release"] PROVE job'[c].keys = job[c].keys
    BY <2>1, <2>2 DEF Jobs
  <2>3. ASSUME NEW G, NEW b, job' = [job EXCEPT ![c].at = "release", ![c].evicted = G, ![c].holder = b]
        PROVE  job'[c].keys = job[c].keys
    BY <2>1, <2>3 DEF Jobs
  <2>4. \/ job' = [job EXCEPT ![c].at = "release"]
        \/ \E G, b : job' = [job EXCEPT ![c].at = "release", ![c].evicted = G, ![c].holder = b]
    BY DEF FinishGet
  <2> QED
    BY <2>2, <2>3, <2>4
<1>5. CASE \E X, P, G \in SUBSET Keys : Puts(c, k, X, P, G) /\ Goes(c, "release", job[c].locked, G, job[c].reply)
           /\ UNCHANGED listening
  <2>1. PICK X \in SUBSET Keys, P \in SUBSET Keys, G \in SUBSET Keys :
           Puts(c, k, X, P, G) /\ Goes(c, "release", job[c].locked, G, job[c].reply)
    BY <1>5
  <2>2. Goes(c, "release", job[c].locked, job[c].evicted \cup G, job[c].reply)
    <3>1. G = job[c].evicted \cup G
      BY <1>2
    <3> QED
      BY <2>1, <3>1
  <2>3. /\ \A j \in G : strategy = "present" /\ Free(j, c)
        /\ lock' \in LockMaps
        /\ \A j \in G : lock'[j].owner = c /\ lock'[j].count >= lock[j].count + 1
        /\ \A j \in Keys \ G : lock'[j] = lock[j]
        /\ front' \in [Keys -> Versions]
        /\ \A j \in Keys \ {k} : front'[j] \in {Absent, front[j]}
    BY <2>1, PutsParts
  <2>4. listening' \subseteq Keys
    BY <1>5, TypesGiven DEF Steady, Typed
  <2>5. Fronts(c, k, "release", G)
    BY <1>1, <1>2, <1>3, <1>4, <2>2, <2>3, <2>4 DEF Fronts
  <2> QED
    BY <1>1, <1>3, <2>5, FrontSteady
<1>6. CASE /\ listening' = listening \ Unregistered({k}, c) /\ UNCHANGED <<front, lock>>
           /\ Moves(c, "release")
  <2>1. Goes(c, "release", job[c].locked, job[c].evicted \cup {}, job[c].reply)
    <3>1. job[c].evicted = job[c].evicted \cup {}
      OBVIOUS
    <3> QED
      BY <1>6, <3>1 DEF Moves
  <2>2. /\ {} \in SUBSET Keys /\ front' \in [Keys -> Versions] /\ lock' \in LockMaps
        /\ \A j \in Keys \ {} : lock'[j] = lock[j]
        /\ \A j \in Keys \ {k} : front'[j] \in {Absent, front[j]}
        /\ listening' \subseteq Keys
    BY <1>6, TypesGiven DEF Steady, Typed
  <2>3. Fronts(c, k, "release", {})
    BY <1>1, <1>2, <1>3, <1>4, <2>1, <2>2 DEF Fronts
  <2> QED
    BY <1>1, <1>3, <2>2, <2>3, FrontSteady
<1> QED
  BY <1>5, <1>6, FinishGetEffect DEF Steady

LEMMA JudgeSteady ==
    ASSUME Steady, NEW c \in Clients, Judge(c)
    PROVE  Steady'
<1> DEFINE a == IF job[c].locked = {} THEN "release" ELSE "front"
<1>1. /\ Working' /\ job[c].op = "getAll"
      /\ job[c].at = "finish" \/ (job[c].at = "asked" /\ job[c].reply = "ok")
      /\ Goes(c, a, job[c].locked, job[c].evicted, job[c].reply)
      /\ job'[c].keys = job[c].locked
      /\ events' = [events EXCEPT ![c] = NoEvents]
      /\ UNCHANGED <<mode, strategy, front, listening, lock, gate, list, global, back, version, inbox, svc>>
  BY JudgeEffect DEF Judge, Steady, Typed, mapVars, peerVars
<1>2. /\ ~ Waits(c) /\ job[c].evicted = {} /\ job[c].reply # "error" /\ job[c].at \in Listing
  BY <1>1, ReadyHas
<1>3. /\ a \in {"front", "release"} /\ a \notin Listing /\ (a = "release" => job[c].locked = {})
  BY DEF Listing
<1> HIDE DEF a
<1>4. /\ Others(c) /\ job'[c].op = "getAll" /\ job'[c].at = a /\ job'[c].locked = job[c].locked
      /\ job'[c].evicted = {} /\ job'[c].reply = job[c].reply /\ job'[c] \in Jobs /\ job[c] \in Jobs
  BY <1>1, <1>2, PlaceOps DEF Goes, Working
<1>5. gate # c
  BY <1>1, NotGate DEF Steady
<1>6. Locking'
  BY <1>1, <1>2, <1>4, LockingKept DEF Steady
<1>7. ShapedJob(job'[c])
  <2>1. ShapeOfGetAll(job'[c])
    BY <1>1, <1>3, <1>4 DEF ShapeOfGetAll
  <2> QED
    BY <1>2, <1>3, <1>4, <2>1 DEF ShapedJob, Ones, Jobs
<1>8. Listed'
  <2>1. \A j \in Keys : list'[j] = c => j \in job[c].locked
    BY <1>1 DEF Steady, Listed
  <2>2. \A j \in Keys : list'[j] = c => /\ j \in job'[c].locked
                                        /\ job'[c].op \in {"get", "getAll", "put", "putAll"}
                                        /\ job'[c].at \in Listing \cup {"front"}
    BY <1>3, <1>4, <2>1
  <2>3. /\ job'[c].at = "front" => \A j \in job'[c].keys : list'[j] # None
        /\ job'[c].at = "front" => \A j \in Keys : list'[j] = c => j \in job'[c].keys
    BY <1>1, <1>2, <2>1 DEF Steady, Listed
  <2>4. {} \in SUBSET Keys /\ job'[c].at \notin Listing
    BY <1>3, <1>4
  <2>5. \A j \in Keys \ {} : list'[j] = list[j]
    BY <1>1
  <2> HIDE DEF Others
  <2> QED
    BY <1>4, <2>2, <2>3, <2>4, <2>5, ListedSet
<1>9. Missing'
  <2>1. \A j \in Keys \ {} : front'[j] \in {Absent, front[j]}
    BY <1>1
  <2>2. {} \in SUBSET Keys /\ job'[c].op # "get"
    BY <1>4
  <2> QED
    BY <1>4, <2>1, <2>2, MissingFills
<1>10. Heard'
  BY <1>1, <1>4, HeardReset DEF Steady, Typed
<1> QED
  BY <1>1, <1>2, <1>3, <1>4, <1>5, <1>6, <1>7, <1>8, <1>9, <1>10, TypesGiven, ClientSteady DEF Steady, Typed

LEMMA FrontKeySteady ==
    ASSUME Steady, NEW c \in Clients, NEW k \in Keys, FrontKey(c, k)
    PROVE  Steady'
<1> DEFINE a == IF job[c].keys = {k} THEN "release" ELSE "front"
<1>1. /\ Working' /\ job[c].at = "front" /\ k \in job[c].keys /\ job'[c].keys = job[c].keys \ {k}
      /\ list' = [list EXCEPT ![k] = None]
      /\ UNCHANGED <<mode, strategy, listening, gate, global, events, back, version, inbox, svc>>
  BY FrontKeyEffect DEF FrontKey, Steady, Typed, peerVars
<1>2. job[c].op = "getAll" /\ ShapedJob(job[c]) /\ job[c] \in Jobs
  BY <1>1, PlaceOps
<1>3. k \in job[c].locked /\ ~ Waits(c) /\ job[c].reply # "error" /\ ~ Sifted(c)
  BY <1>1, <1>2 DEF ShapedJob, ShapeOfGetAll, Waits, Waiting, Sifted
<1>4. a \in {"front", "release"} /\ (a = "release" => job[c].keys = {k})
  OBVIOUS
<1>5. PICK G \in SUBSET Keys :
         /\ Goes(c, a, job[c].locked, job[c].evicted \cup G, job[c].reply)
         /\ \/ \E X, P \in SUBSET Keys : Puts(c, k, X, P, G)
            \/ /\ G = Unregistered({k}, c)
               /\ front' = Without(front, {k})
               /\ lock' = Locked(Locked(lock, G \cap Cached(front), c), G, c)
  BY FrontKeyEffect DEF Steady
<1> HIDE DEF a
<1>6. /\ \A j \in G : Free(j, c)
      /\ lock' \in LockMaps
      /\ \A j \in G : lock'[j].owner = c /\ lock'[j].count >= lock[j].count + 1
      /\ \A j \in Keys \ G : lock'[j] = lock[j]
      /\ front' \in [Keys -> Versions]
      /\ \A j \in Keys \ {k} : front'[j] \in {Absent, front[j]}
  <2>1. CASE \E X, P \in SUBSET Keys : Puts(c, k, X, P, G)
    BY <2>1, PutsParts
  <2>2. CASE /\ G = Unregistered({k}, c)
             /\ front' = Without(front, {k})
             /\ lock' = Locked(Locked(lock, G \cap Cached(front), c), G, c)
    <3>1. \A j \in G : Free(j, c)
      BY <2>2 DEF Unregistered
    <3>2. front' \in [Keys -> Versions] /\ \A j \in Keys : front'[j] \in {Absent, front[j]}
      BY <2>2, TypesGiven, WithoutParts DEF Steady, Typed
    <3> DEFINE A == G \cap Cached(front)
    <3>3. A \in SUBSET Keys /\ A \cup G = G /\ lock' = Locked(Locked(lock, A, c), G, c)
      BY <2>2
    <3> HIDE DEF A
    <3>4. /\ lock' \in LockMaps
          /\ \A j \in A \cup G : lock'[j].owner = c /\ lock'[j].count >= lock[j].count + 1
          /\ \A j \in Keys \ (A \cup G) : lock'[j] = lock[j]
      BY <3>3, LockTwice
    <3> QED
      BY <3>1, <3>2, <3>3, <3>4
  <2> QED
    BY <1>5, <2>1, <2>2
<1>7. listening' \subseteq Keys
  BY <1>1, TypesGiven DEF Steady, Typed
<1>8. /\ job[c].op \in {"get", "getAll"} /\ job[c].at \in {"finish", "asked", "front"}
      /\ a = "front" => /\ job[c].at = "front" /\ job[c].op = "getAll"
                        /\ job'[c].keys = job[c].keys \ {k}
      /\ a = "release" => /\ job[c].op = "getAll" => job[c].keys = {k} /\ job[c].at = "front"
                          /\ job[c].op = "get" => job[c].locked = {k}
      /\ job[c].op = "get" => job'[c].keys \subseteq job[c].keys
      /\ job[c].reply # "error"
  BY <1>1, <1>2, <1>3, <1>4
<1>9. /\ events' \in {events, [events EXCEPT ![c] = NoEvents]} /\ ~ Waits(c) /\ k \in job[c].locked
      /\ ~ Sifted(c) \/ events' = [events EXCEPT ![c] = NoEvents]
      /\ UNCHANGED <<mode, strategy, gate, global, back, version, inbox, svc>>
  BY <1>1, <1>3
<1>10. /\ a \in {"front", "release"} /\ Working' /\ list' = [list EXCEPT ![k] = None]
       /\ Goes(c, a, job[c].locked, job[c].evicted \cup G, job[c].reply)
  BY <1>1, <1>4, <1>5
<1>11. Fronts(c, k, a, G)
  BY <1>6, <1>7, <1>8, <1>9, <1>10 DEF Fronts
<1> QED
  BY <1>9, <1>10, <1>11, FrontSteady

LEMMA ReleaseSteady ==
    ASSUME Steady, NEW c \in Clients, Release(c)
    PROVE  Steady'
<1>1. /\ job[c].at = "release" /\ job[c].op \in {"get", "getAll"} /\ job[c] \in Jobs /\ ShapedJob(job[c])
      /\ UNCHANGED <<mode, strategy, front, gate, list, global, events, back, version, inbox, svc>>
  BY PlaceOps DEF Release, peerVars
<1>2. ~ Waits(c) /\ ~ Sifted(c) /\ gate # c
  BY <1>1, NotGate DEF Waits, Sifted, Steady
<1>3. \A j \in Keys : list[j] # c
  BY <1>1 DEF Steady, Listed, Listing
<1>4. CASE job' = [job EXCEPT ![c].at = "terminated"] /\ UNCHANGED <<listening, lock>>
  <2>1. Working' /\ Moves(c, "terminated") /\ job'[c].keys = job[c].keys
    BY <1>4, MoveEffect DEF Steady, Typed, Places
  <2>2. /\ Others(c) /\ job'[c].op = job[c].op /\ job'[c].at = "terminated" /\ job'[c].locked = job[c].locked
        /\ job'[c].evicted = job[c].evicted /\ job'[c].reply = job[c].reply
    BY <2>1 DEF Moves, Goes
  <2>3. ShapedJob(job'[c])
    <3>1. job[c].op = "get" => ShapeOfOne(job'[c])
      BY <1>1, <2>1, <2>2 DEF ShapedJob, ShapeOfOne, Ones
    <3>2. job[c].op = "getAll" => ShapeOfGetAll(job'[c])
      BY <2>2 DEF ShapeOfGetAll
    <3> QED
      BY <1>1, <2>2, <3>1, <3>2 DEF ShapedJob, Ones, Waiting
  <2>4. Locking'
    BY <1>1, <1>4, <2>2, LockingKept DEF Steady
  <2>5. job'[c].at \notin Listing /\ job'[c].at # "front"
    BY <2>2 DEF Listing
  <2>6. {} \in SUBSET Keys /\ (\A j \in Keys \ {} : list'[j] = list[j]) /\ (\A j \in Keys \ {} : front'[j] \in {Absent, front[j]})
    BY <1>1
  <2>7. Listed'
    BY <1>1, <1>3, <2>2, <2>5, <2>6, ListedSet
  <2>8. Missing'
    BY <2>2, <2>5, <2>6, MissingFills
  <2>9. Heard'
    BY <1>1, <1>2, <2>2, HeardKept DEF Steady, Typed
  <2> QED
    BY <1>1, <1>2, <1>4, <2>1, <2>2, <2>3, <2>4, <2>7, <2>8, <2>9, TypesGiven, ClientSteady DEF Steady, Typed
<1>5. CASE /\ listening' = listening \ job[c].evicted
           /\ lock' = Unlock(Unevict(lock, c), c)
           /\ job' = [job EXCEPT ![c] = IdleJob]
  <2>1. Working' /\ Ends(c) /\ Others(c)
    BY <1>5, EndsEffect DEF Steady, Typed, Ends
  <2> DEFINE mid == Released(lock, job[c].evicted)
             S == job[c].locked \cup job[c].evicted
  <2>2. lock' = Released(mid, job[c].locked)
    BY <1>5 DEF Unlock, Unevict
  <2>3. /\ job[c].locked \in SUBSET Keys /\ job[c].evicted \in SUBSET Keys /\ lock \in LockMaps
        /\ \A j \in S : lock[j].owner = c /\ lock[j].count >= 1
        /\ \A j \in job[c].locked \cap job[c].evicted : lock[j].count >= 2
    BY <1>1, TypesGiven, Parties DEF Steady, Typed, Locking, Jobs
  <2>4. /\ mid \in LockMaps
        /\ \A j \in job[c].evicted : /\ lock[j].count = 1 => mid[j] = Unlocked
                                     /\ lock[j].count # 1 => mid[j].owner = lock[j].owner /\ mid[j].count >= 1
        /\ \A j \in Keys \ job[c].evicted : mid[j] = lock[j]
    BY <2>3, ReleasedParts
  <2>5. \A j \in job[c].locked : mid[j].count >= 1 /\ mid[j].owner = c
    BY <2>3, <2>4
  <2> HIDE DEF mid
  <2>6. /\ Released(mid, job[c].locked) \in LockMaps
        /\ \A j \in job[c].locked : LET r == Released(mid, job[c].locked)
                                    IN  r[j] = Unlocked \/ (r[j].owner = mid[j].owner /\ r[j].count >= 1)
        /\ \A j \in Keys \ job[c].locked : Released(mid, job[c].locked)[j] = mid[j]
    BY <2>3, <2>4, <2>5, ReleasedParts
  <2>7. /\ lock' \in LockMaps
        /\ \A j \in S : lock'[j] = Unlocked \/ (lock'[j].owner = c /\ lock'[j].count >= 1)
        /\ \A j \in Keys \ S : lock'[j] = lock[j]
    <3>1. \A j \in job[c].locked : lock'[j] = Unlocked \/ (lock'[j].owner = c /\ lock'[j].count >= 1)
      BY <2>2, <2>5, <2>6
    <3>2. \A j \in Keys \ job[c].locked : lock'[j] = mid[j]
      BY <2>2, <2>6
    <3>3. \A j \in job[c].evicted \ job[c].locked : lock'[j] = Unlocked \/ (lock'[j].owner = c /\ lock'[j].count >= 1)
      BY <2>3, <2>4, <3>2
    <3> QED
      BY <2>2, <2>4, <2>6, <3>1, <3>2, <3>3
  <2> HIDE DEF S
  <2>8. S \subseteq job[c].locked \cup job[c].evicted
    BY DEF S
  <2>9. \A j \in job[c].locked : list'[j] \in {Ignore, None}
    BY <1>1, <1>3, <2>3, TypesGiven, LocksOfOne DEF Steady, Typed, Locking
  <2>10. Heard'
    BY <1>1, <1>2, <2>1, HeardKept DEF Steady, Typed
  <2> QED
    BY <1>1, <1>2, <1>5, <2>1, <2>7, <2>8, <2>9, <2>10, EndSteady, TypesGiven DEF Steady, Typed
<1> QED
  BY <1>4, <1>5 DEF Release

LEMMA HeardAt ==
    ASSUME Heard, UNCHANGED mode, NEW c \in Clients, Others(c) \/ UNCHANGED job, NEW k \in Keys, NEW s,
           events' = [events EXCEPT ![c] = [events[c] EXCEPT ![k] = s]],
           Sifted(c) => Sifted(c)', ~ Sifted(c) => s \in Seq(Notes)
    PROVE  Heard'
<1>1. \A d \in Clients : d # c => (Sifted(d) => Sifted(d)')
  BY DEF Others, Sifted, target
<1>2. \A d \in Clients : events[d] = [j \in Keys |-> events[d][j]]
  BY DEF Heard
<1>3. /\ events' = [d \in Clients |-> events'[d]]
      /\ events'[c] = [events[c] EXCEPT ![k] = s]
      /\ \A d \in Clients : d # c => events'[d] = events[d]
  BY DEF Heard
<1>4. \A d \in Clients : events'[d] = [j \in Keys |-> events'[d][j]]
  BY <1>2, <1>3
<1>5. events' = [d \in Clients |-> [j \in Keys |-> events'[d][j]]]
  BY <1>3, <1>4
<1>6. ASSUME NEW d \in Clients, ~ Sifted(d)' PROVE events'[d] \in [Keys -> Seq(Notes)]
  <2>1. CASE d = c
    <3>1. events[c] \in [Keys -> Seq(Notes)] /\ s \in Seq(Notes)
      BY <1>6, <2>1 DEF Heard
    <3> QED
      BY <1>3, <2>1, <3>1
  <2>2. CASE d # c
    BY <1>1, <1>3, <1>6, <2>2 DEF Heard
  <2> QED
    BY <2>1, <2>2
<1> QED
  BY <1>5, <1>6 DEF Heard

\* What finalizePut does to the front map and to its listeners.
LEMMA FinalizePutFront ==
    ASSUME Steady, NEW c \in Clients, NEW k \in Keys, FinalizePut(c, k)
    PROVE  /\ front' \in [Keys -> Versions] /\ listening' \subseteq Keys
           /\ \A j \in Keys \ {k} : front'[j] \in {Absent, front[j]}
<1>1. front \in [Keys -> Versions] /\ listening \subseteq Keys
  BY TypesGiven DEF Steady, Typed
<1>2. CASE list[k] = Ignore
  BY <1>1, <1>2 DEF FinalizePut
<1>3. CASE list[k] # Ignore
  <2>1. PICK X \in SUBSET Keys :
          RemovesPut(c, k, X) \/ \E P, D \in SUBSET Keys : KeepsPut(c, k, X, P, D)
    BY <1>3, FinalizePutEffect DEF Steady
  <2>2. CASE RemovesPut(c, k, X)
    BY <1>1, <2>2, WithoutParts DEF RemovesPut
  <2>3. CASE \E P, D \in SUBSET Keys : KeepsPut(c, k, X, P, D)
    BY <1>1, <2>3 DEF KeepsPut, FrontWith
  <2> QED
    BY <2>1, <2>2, <2>3
<1> QED
  BY <1>2, <1>3

LEMMA FinalizePutSteady ==
    ASSUME Steady, NEW c \in Clients, NEW k \in Keys, FinalizePut(c, k)
    PROVE  Steady'
<1>1. /\ Working' /\ job[c].op \in {"put", "putAll"} /\ k \in job[c].locked
      /\ job[c].at = "finish" \/ (job[c].at = "asked" /\ job[c].reply = "ok")
      /\ list' = [list EXCEPT ![k] = None] /\ lock' = Released(lock, {k})
      /\ UNCHANGED <<mode, strategy, gate, global, back, version, inbox, svc>>
  BY FinalizePutEffect DEF FinalizePut, Steady, Typed, peerVars
<1>2. /\ front' \in [Keys -> Versions] /\ listening' \subseteq Keys
      /\ \A j \in Keys \ {k} : front'[j] \in {Absent, front[j]}
  BY FinalizePutFront
<1>3. /\ ~ Waits(c) /\ job[c].evicted = {} /\ job[c].reply # "error" /\ job[c].at \in Listing
  BY <1>1, ReadyHas
<1>4. ~ Sifted(c) /\ job[c].at = "asked" /\ job[c].reply = "ok" /\ job[c] \in Jobs
  BY <1>1, PlaceOps DEF Sifted
<1>5. gate # c
  BY <1>1, NotGate DEF Steady
<1>6. /\ lock' \in LockMaps
      /\ \A j \in {k} : lock'[j] = Unlocked \/ (lock'[j].owner = c /\ lock'[j].count >= 1)
      /\ \A j \in Keys \ {k} : lock'[j] = lock[j]
  <2>1. {k} \subseteq job[c].locked \cup job[c].evicted
    BY <1>1
  <2> QED
    BY <1>1, <2>1, ReleaseOnce
<1>7. list' \in [Keys -> Clients \cup {Ignore, None}] /\ list'[k] = None /\ \A j \in Keys \ {k} : list'[j] = list[j]
  BY <1>1, TypesGiven DEF Steady, Typed
<1>8. Others(c) /\ (Sifted(c) => Sifted(c)')
  <2>1. Others(c)
    BY FinalizePutEffect DEF Ends, Goes, Steady
  <2> QED
    BY <1>4, <2>1
<1>9. Heard'
  <2>1. events' = [events EXCEPT ![c] = [events[c] EXCEPT ![k] = <<>>]]
    BY DEF FinalizePut
  <2>2. <<>> \in Seq(Notes)
    OBVIOUS
  <2> QED
    BY <1>1, <1>8, <2>1, <2>2, HeardAt DEF Steady, Typed
<1>10. CASE job[c].locked = {k}
  <2>1. Ends(c)
    BY <1>10, FinalizePutEffect DEF Steady
  <2>2. {k} \subseteq job[c].locked \cup job[c].evicted
    BY <1>10
  <2>3. /\ \A j \in Keys : j \in job[c].locked \/ front'[j] \in {Absent, front[j]}
        /\ \A j \in Keys : j \in job[c].locked \/ list'[j] = list[j]
        /\ \A j \in job[c].locked : list'[j] \in {Ignore, None}
    BY <1>2, <1>7, <1>10
  <2> DEFINE S == {k}
  <2>4. /\ S \subseteq job[c].locked \cup job[c].evicted
        /\ \A j \in S : lock'[j] = Unlocked \/ (lock'[j].owner = c /\ lock'[j].count >= 1)
        /\ \A j \in Keys \ S : lock'[j] = lock[j]
    BY <1>6, <2>2
  <2>5. lock' \in LockMaps /\ list' \in [Keys -> Clients \cup {Ignore, None}]
    BY <1>6, <1>7
  <2> HIDE DEF S, Ends
  <2> QED
    BY <1>1, <1>2, <1>3, <1>5, <1>9, <2>1, <2>3, <2>4, <2>5, EndSteady
<1>11. CASE job[c].locked # {k}
  <2>1. /\ Goes(c, "asked", job[c].locked \ {k}, job[c].evicted, job[c].reply)
        /\ job'[c].keys = job[c].keys
    BY <1>4, <1>11, FinalizePutEffect DEF Steady
  <2>2. /\ job'[c].op = job[c].op /\ job'[c].at = "asked" /\ job'[c].locked = job[c].locked \ {k}
        /\ job'[c].evicted = {} /\ job'[c].reply = "ok"
    BY <1>3, <1>4, <2>1 DEF Goes
  <2>3. job[c].op = "putAll"
    BY <1>1, <1>4, <1>11, PlaceOps DEF Ones
  <2>4. Locking' /\ (gate # None => UNCHANGED lock)
    <3>1. {k} \subseteq job[c].locked \cup job[c].evicted /\ job'[c].locked \subseteq job[c].locked \ {k}
          /\ job'[c].evicted \subseteq job[c].evicted \ {k}
      BY <1>1, <1>3, <2>2
    <3> QED
      BY <1>1, <1>6, <1>8, <3>1, LockingGives
  <2>5. ShapedJob(job'[c])
    BY <2>2, <2>3 DEF ShapedJob, ShapeOfPutAll, Ones, Waiting
  <2>6. \A d \in Clients : d # c => {k} \cap job[d].locked = {}
    BY <1>1, LocksOfOne DEF Steady, Locking
  <2>7. Listed'
    <3>1. \A j \in Keys : list'[j] \in Clients /\ j \in {k} => list'[j] = c
      BY <1>7, Parties
    <3>2. \A j \in Keys : list'[j] = c => j # k /\ j \in job[c].locked
      BY <1>7, Parties DEF Steady, Listed
    <3>3. \A j \in Keys : list'[j] = c => /\ j \in job'[c].locked
                                          /\ job'[c].op \in {"get", "getAll", "put", "putAll"}
                                          /\ job'[c].at \in Listing \cup {"front"}
      BY <1>3, <1>4, <2>2, <2>3, <3>2
    <3>4. \A j \in job'[c].locked : list'[j] # None
      BY <1>3, <1>4, <1>7, <2>2 DEF Steady, Listed, Jobs
    <3>5. job'[c].at # "front" /\ {k} \in SUBSET Keys
      BY <2>2
    <3> HIDE DEF Others
    <3> QED
      BY <1>7, <1>8, <2>6, <3>1, <3>3, <3>4, <3>5, ListedSet
  <2>8. Missing'
    BY <1>2, <1>8, <2>2, <2>3, <2>6, {k} \in SUBSET Keys, MissingFills
  <2> QED
    BY <1>1, <1>2, <1>3, <1>5, <1>6, <1>7, <1>8, <1>9, <2>2, <2>4, <2>5, <2>7, <2>8, ClientSteady
<1> QED
  BY <1>10, <1>11

LEMMA FinishSteady ==
    ASSUME Steady, NEW c \in Clients, Finish(c)
    PROVE  Steady'
<1>1. /\ job[c].op \in {"containsKey", "remove", "putAll"}
      /\ job[c].at = "finish" \/ (job[c].at = "asked" /\ job[c].reply = "ok")
      /\ list' = Cleared(job[c].locked) /\ lock' = Released(lock, job[c].locked)
      /\ job' = [job EXCEPT ![c] = IdleJob]
      /\ UNCHANGED <<mode, strategy, front, listening, gate, global, events, back, version, inbox, svc>>
  BY DEF Finish, Ready, Unlock, mapVars, peerVars
<1>2. ~ Waits(c) /\ ~ Sifted(c) /\ gate # c
  BY <1>1, ReadyHas, NotGate DEF Sifted, Steady
<1>3. Working' /\ Ends(c) /\ Others(c)
  BY <1>1, EndsEffect DEF Steady, Typed, Ends
<1>4. /\ list' \in [Keys -> Clients \cup {Ignore, None}]
      /\ \A k \in Keys : list'[k] = IF k \in job[c].locked THEN None ELSE list[k]
  BY <1>1, ClearedParts DEF Steady, Typed
<1>5. job[c].locked \subseteq Keys
  BY DEF Steady, Typed, Working, Jobs
<1> DEFINE S == job[c].locked
<1>6. /\ lock' \in LockMaps
      /\ \A j \in S : lock'[j] = Unlocked \/ (lock'[j].owner = c /\ lock'[j].count >= 1)
      /\ \A j \in Keys \ S : lock'[j] = lock[j]
  BY <1>1, ReleaseOnce
<1>7. S \subseteq job[c].locked \cup job[c].evicted
  OBVIOUS
<1>8. Heard'
  BY <1>1, <1>2, <1>3, HeardKept DEF Steady, Typed
<1>9. /\ \A k \in job[c].locked : list'[k] \in {Ignore, None}
      /\ \A k \in Keys : k \in job[c].locked \/ list'[k] = list[k]
  BY <1>4, <1>5
<1>10. /\ front' \in [Keys -> Versions] /\ listening' \subseteq Keys
       /\ \A k \in Keys : k \in job[c].locked \/ front'[k] \in {Absent, front[k]}
  BY <1>1, TypesGiven DEF Steady, Typed
<1> HIDE DEF S
<1> QED
  BY <1>1, <1>2, <1>3, <1>4, <1>6, <1>7, <1>8, <1>9, <1>10, EndSteady

LEMMA FailSteady ==
    ASSUME Steady, NEW c \in Clients, Fail(c)
    PROVE  Steady'
<1>1. /\ job[c].reply = "error" /\ job[c].op # "clear"
      /\ lock' = Released(lock, job[c].locked)
      /\ job' = [job EXCEPT ![c] = IdleJob]
      /\ list' = [k \in Keys |-> IF k \notin job[c].locked THEN list[k]
                          ELSE IF job[c].at = "asked" THEN None ELSE Ignore]
      /\ front' = IF job[c].op \in {"put", "putAll"} THEN Without(front, job[c].locked) ELSE front
      /\ events' = [events EXCEPT ![c] = NoEvents]
      /\ UNCHANGED <<mode, strategy, gate, global, back, version, inbox, svc>>
  BY DEF Fail, Unlock, peerVars
<1>2. ~ Waits(c) /\ gate # c
  BY <1>1, NotGate DEF Waits, Steady
<1>3. Working' /\ Ends(c) /\ Others(c)
  BY <1>1, EndsEffect DEF Steady, Typed, Ends
<1>4. job[c].locked \subseteq Keys
  BY DEF Steady, Typed, Working, Jobs
<1>5. /\ list' \in [Keys -> Clients \cup {Ignore, None}]
      /\ \A k \in Keys : k \in job[c].locked \/ list'[k] = list[k]
      /\ \A k \in job[c].locked : list'[k] \in {Ignore, None}
  BY <1>1, <1>4, TypesGiven DEF Steady, Typed
<1> DEFINE S == job[c].locked
<1>6. /\ lock' \in LockMaps
      /\ \A j \in S : lock'[j] = Unlocked \/ (lock'[j].owner = c /\ lock'[j].count >= 1)
      /\ \A j \in Keys \ S : lock'[j] = lock[j]
  BY <1>1, ReleaseOnce
<1>7. S \subseteq job[c].locked \cup job[c].evicted
  OBVIOUS
<1>8. Heard'
  BY <1>1, <1>3, HeardReset DEF Steady, Typed
<1>9. front' \in [Keys -> Versions] /\ \A k \in Keys : front'[k] \in {Absent, front[k]}
  BY <1>1, TypesGiven, WithoutParts DEF Steady, Typed
<1>10. listening' \subseteq Keys
  <2>1. listening' \subseteq listening
    BY DEF Fail
  <2> QED
    BY <2>1, TypesGiven DEF Steady, Typed
<1> HIDE DEF S
<1> QED
  BY <1>1, <1>2, <1>3, <1>5, <1>6, <1>7, <1>8, <1>9, <1>10, EndSteady

\* A clear has no keys and no list.
LEMMA ClearHas ==
    ASSUME Steady, NEW c \in Clients, job[c].op = "clear"
    PROVE  /\ job[c] \in Jobs /\ ShapedJob(job[c]) /\ job[c].at \in {"close", "ask", "asked"}
           /\ job[c].locked = {} /\ job[c].evicted = {} /\ ~ Sifted(c)
           /\ \A k \in Keys : list[k] # c
BY PlaceOps DEF ShapedJob, ShapeOfClear, Sifted, Steady, Listed

LEMMA CloseSteady ==
    ASSUME Steady, NEW c \in Clients, Close(c) \/ CloseFails(c)
    PROVE  Steady'
<1>1. /\ job[c].at = "close" /\ job' = [job EXCEPT ![c].at = "ask"]
      /\ UNCHANGED <<mode, lock, list, events, back, version, inbox, svc>>
  BY DEF Close, CloseFails, mapVars, peerVars, ctrlVars
<1>2. /\ \/ gate = None /\ (\A k \in Keys : lock[k] = Unlocked) /\ gate' = c /\ global' = Ignore
         \/ UNCHANGED <<gate, global>>
      /\ front' \in {front, Without(front, Keys)} /\ listening' \subseteq Keys
      /\ strategy' \in {strategy, "none"}
  <2>1. listening \subseteq Keys
    BY TypesGiven DEF Steady, Typed
  <2> QED
    BY <2>1 DEF Close, CloseFails, mapVars, ctrlVars
<1>3. job[c].op = "clear" /\ ~ Waits(c)
  BY <1>1, PlaceOps DEF Waits
<1>4. Working' /\ Moves(c, "ask") /\ job'[c].keys = job[c].keys
  BY <1>1, MoveEffect DEF Steady, Typed, Places
<1>5. /\ Others(c) /\ job'[c].op = "clear" /\ job'[c].at = "ask" /\ job'[c].locked = {}
      /\ job'[c].evicted = {} /\ job'[c].reply = job[c].reply
  BY <1>3, <1>4, ClearHas DEF Moves, Goes
<1>6. front' \in [Keys -> Versions] /\ \A k \in Keys : front'[k] \in {Absent, front[k]}
  BY <1>2, TypesGiven, WithoutParts DEF Steady, Typed
<1>7. job[c].reply = "no"
  BY <1>1, <1>3, ClearHas DEF ShapedJob, Waiting, Jobs
<1>8. Shaped'
  <2>1. ShapedJob(job'[c])
    BY <1>5, <1>7 DEF ShapedJob, ShapeOfClear, Ones
  <2> QED
    BY <1>5, <2>1, ShapedKept DEF Steady
<1>9. Heard'
  BY <1>1, <1>3, <1>5, ClearHas, HeardKept DEF Steady, Typed
<1>10. Typed'
  <2>1. Incoming' /\ Serving'
    BY <1>1, IncomingKept, ServingKept DEF Steady, Typed
  <2>2. gate' \in Clients \cup {None} /\ global' \in {Ignore, None} /\ strategy' \in {"none", "present", "all"}
    BY <1>2, TypesGiven DEF Steady, Typed
  <2>3. TypeOK'
    BY <1>1, <1>2, <1>4, <1>6, <2>1, <2>2, TypesGiven, TypesKept DEF Steady, Typed
  <2> QED
    BY <1>4, <1>9, <2>1, <2>3 DEF Typed
<1>11. Answered'
  BY <1>1, <1>3, <1>5, AnsweredJob DEF Steady
<1>12. Locking'
  BY <1>1, <1>3, <1>5, ClearHas, LockingKept DEF Steady
<1>13. Closed'
  <2>1. CASE gate = None /\ (\A k \in Keys : lock[k] = Unlocked) /\ gate' = c /\ global' = Ignore
    BY <1>1, <1>5, <2>1, Parties DEF Closed
  <2>2. CASE UNCHANGED <<gate, global>>
    BY <1>1, <1>5, <2>2, ClosedKept DEF Steady
  <2> QED
    BY <1>2, <2>1, <2>2
<1>14. Listed'
  <2>1. \A k \in Keys : list'[k] # c
    BY <1>1, <1>3, ClearHas
  <2>2. {} \in SUBSET Keys /\ job'[c].at # "front" /\ \A k \in Keys \ {} : list'[k] = list[k]
    BY <1>1, <1>5
  <2>3. job'[c].at \in Listing => \A k \in job'[c].locked : list'[k] # None
    BY <1>5
  <2> QED
    BY <1>5, <2>1, <2>2, <2>3, ListedSet
<1>15. Missing'
  BY <1>5, <1>6, {} \in SUBSET Keys, MissingFills
<1>16. Suited'
  BY <1>1, <1>2, <1>5, SuitedKept DEF Steady
<1> QED
  BY <1>8, <1>10, <1>11, <1>12, <1>13, <1>14, <1>15, <1>16 DEF Steady

LEMMA OpenSteady ==
    ASSUME Steady, NEW c \in Clients, Open(c)
    PROVE  Steady'
<1>1. /\ job[c].op = "clear" /\ job[c].reply # "no" /\ job' = [job EXCEPT ![c] = IdleJob]
      /\ UNCHANGED <<mode, strategy, front, listening, lock, list, events, back, version, inbox, svc>>
      /\ IF gate = c THEN gate' = None /\ global' = None ELSE UNCHANGED <<gate, global>>
  BY DEF Open, mapVars, peerVars
<1>2. Working' /\ Ends(c) /\ Others(c)
  BY <1>1, EndsEffect DEF Steady, Typed, Ends
<1>3. /\ job'[c] = IdleJob /\ job'[c].at = "idle" /\ job'[c].locked = {} /\ job'[c].evicted = {}
      /\ job'[c].op = "none"
  BY <1>2 DEF Ends, IdleJob
<1>4. job[c].locked = {} /\ job[c].evicted = {} /\ ~ Sifted(c) /\ ~ Waits(c) /\ \A k \in Keys : list[k] # c
  BY <1>1, ClearHas DEF Waits
<1>5. Shaped'
  BY <1>2, <1>3, IdleIsJob, ShapedKept DEF Steady
<1>6. Typed'
  <2>1. Incoming' /\ Serving' /\ Heard'
    BY <1>1, <1>2, <1>4, IncomingKept, ServingKept, HeardKept DEF Steady, Typed
  <2>2. gate' \in Clients \cup {None} /\ global' \in {Ignore, None}
    BY <1>1, TypesGiven DEF Steady, Typed
  <2>3. TypeOK'
    BY <1>1, <1>2, <2>1, <2>2, TypesGiven, TypesKept DEF Steady, Typed
  <2> QED
    BY <1>2, <2>1, <2>3 DEF Typed
<1>7. Answered'
  BY <1>1, <1>2, <1>4, AnsweredJob DEF Steady
<1>8. Locking'
  BY <1>1, <1>2, <1>3, <1>4, LockingKept DEF Steady
<1>9. Closed'
  <2>1. CASE gate = c
    BY <1>1, <2>1, Parties DEF Steady, Closed
  <2>2. CASE gate # c
    BY <1>1, <1>2, <2>2, ClosedKept DEF Steady
  <2> QED
    BY <2>1, <2>2
<1>10. {} \in SUBSET Keys /\ job'[c].at # "front" /\ job'[c].at \notin Listing
       /\ (\A k \in Keys \ {} : list'[k] = list[k]) /\ (\A k \in Keys \ {} : front'[k] \in {Absent, front[k]})
       /\ (\A k \in Keys : list'[k] # c)
  BY <1>1, <1>3, <1>4 DEF Listing
<1>11. Listed'
  BY <1>2, <1>3, <1>10, ListedSet
<1>12. Missing'
  BY <1>2, <1>3, <1>10, MissingFills
<1>13. Suited'
  BY <1>1, <1>2, <1>3, SuitedKept DEF Steady
<1> QED
  BY <1>5, <1>6, <1>7, <1>8, <1>9, <1>11, <1>12, <1>13 DEF Steady

LEMMA WorksSteady ==
    ASSUME Steady, NEW c \in Clients, Works(c)
    PROVE  Steady'
BY LockSteady, EnsureSteady, EnsuredSteady, LocksDoneSteady, RequestsSteady, RegisteredSteady,
   JudgeSteady, ReleaseSteady, FinishSteady, FailSteady, CloseSteady, OpenSteady, AssignSteady,
   LockNextSteady, FinishGetSteady, FrontKeySteady, FinalizePutSteady DEF Works

LEMMA ReceiveSteady ==
    ASSUME Steady, Receive
    PROVE  Steady'
<1>1. /\ Shrinks /\ svc.at = "idle"
      /\ UNCHANGED <<mode, listening, lock, gate, list, global, events, back, version>>
  BY ReceiveEffect DEF Steady, ctrlVars
<1>2. Answered'
  BY AnsweredReceive DEF Steady
<1>3. Incoming'
  BY <1>1, HeadTailProperties DEF Receive, Incoming, Steady, Typed
<1>4. CASE inbox[1].type = "reply"
  <2> DEFINE c == inbox[1].client
             o == inbox[1].outcome
  <2>1. /\ c \in Clients /\ o \in {"ok", "error"} /\ Working'
        /\ Goes(c, job[c].at, job[c].locked, job[c].evicted, o) /\ job'[c].keys = job[c].keys
        /\ UNCHANGED <<svc, front, strategy>>
    BY <1>4, ReceiveEffect DEF Steady
  <2>2. Waits(c)
    <3>1. 1 \in Answers
      BY <1>1, <1>4 DEF Answers, Shrinks, Steady, Typed, Incoming
    <3> QED
      BY <3>1 DEF Steady, Answered
  <2> HIDE DEF c, o
  <2>3. /\ Others(c) /\ job'[c].op = job[c].op /\ job'[c].at = job[c].at /\ job'[c].locked = job[c].locked
        /\ job'[c].evicted = job[c].evicted /\ job'[c].reply = o
    BY <2>1 DEF Goes
  <2>4. job[c].at \in Waiting /\ job[c].at \in Listing
    BY <2>2 DEF Waits, Waiting, Listing
  <2>5. ShapedJob(job[c])
    BY <2>1, PlaceOps
  <2>6. ShapedJob(job'[c])
    <3>1. job[c].op \in Ones => ShapeOfOne(job'[c])
      BY <2>1, <2>3, <2>5 DEF ShapedJob, ShapeOfOne
    <3>2. job[c].op = "getAll" => ShapeOfGetAll(job'[c])
      BY <2>1, <2>3, <2>5 DEF ShapedJob, ShapeOfGetAll
    <3>3. job[c].at # "idle" /\ job[c].evicted = {}
      BY <2>4, <2>5 DEF Waiting, ShapedJob
    <3> QED
      BY <2>1, <2>3, <2>4, <2>5, <3>1, <3>2, <3>3 DEF ShapedJob, ShapeOfPutAll, ShapeOfClear, Ones
  <2>7. Shaped'
    BY <2>1, <2>3, <2>6, ShapedKept DEF Steady
  <2>8. Typed'
    <3>1. Serving'
      BY <2>1, ServingKept DEF Steady, Typed
    <3>2. Heard'
      BY <1>1, <2>1, <2>3, HeardKept DEF Sifted, target, Steady, Typed
    <3>3. TypeOK'
      BY <1>1, <2>1, <3>1, TypesGiven, TypesKept DEF Steady, Typed
    <3> QED
      BY <1>3, <2>1, <3>1, <3>2, <3>3 DEF Typed
  <2>9. Locking' /\ Closed' /\ Listed' /\ Missing'
    <3>1. job[c].op = "clear" => job[c].at \in {"ask", "asked"}
      BY <2>1, <2>4, ClearHas DEF Waiting
    <3>2. UNCHANGED <<lock, gate, list, global, svc, front>>
      BY <1>1, <2>1
    <3> QED
      BY <2>1, <2>4, <3>1, <3>2, MoveKeeps
  <2>10. Suited'
    BY <1>1, <2>1, <2>3, SuitedKept DEF Steady
  <2> QED
    BY <1>2, <2>7, <2>8, <2>9, <2>10 DEF Steady
<1>5. CASE inbox[1].type # "reply"
  <2>1. /\ UNCHANGED job /\ front' \in {front, Without(front, Keys)} /\ strategy' \in {strategy, "none"}
    BY <1>5, ReceiveEffect DEF Steady
  <2>2. svc' = svc \/ (inbox[1] \in Notes /\ svc' = [IdleSvc EXCEPT !.at = "lock", !.event = inbox[1]])
    BY <1>5, ReceiveEffect DEF Steady
  <2>3. Serving' /\ svc'.at # "validate"
    <3>1. CASE svc' = svc
      BY <1>1, <3>1, ServingKept DEF Steady, Typed
    <3>2. CASE inbox[1] \in Notes /\ svc' = [IdleSvc EXCEPT !.at = "lock", !.event = inbox[1]]
      BY <3>2 DEF Serving, IdleSvc
    <3> QED
      BY <2>2, <3>1, <3>2
  <2>4. front' \in [Keys -> Versions] /\ \A k \in Keys : front'[k] \in {Absent, front[k]}
    BY <2>1, TypesGiven, WithoutParts DEF Steady, Typed
  <2>5. Typed'
    <3>1. Working' /\ Heard'
      BY <1>1, <2>1 DEF Steady, Typed, Working, Heard, Sifted, target
    <3>2. strategy' \in {"none", "present", "all"}
      BY <2>1, TypesGiven DEF Steady, Typed
    <3>3. TypeOK'
      BY <1>1, <2>3, <2>4, <3>1, <3>2, TypesGiven, TypesKept DEF Steady, Typed
    <3> QED
      BY <1>3, <2>3, <3>1, <3>3 DEF Typed
  <2>6. Shaped' /\ Closed' /\ Listed'
    BY <1>1, <2>1 DEF Steady, Shaped, Closed, Listed
  <2>7. Suited'
    BY <1>1, <2>1 DEF Steady, Suited, target
  <2>8. Locking'
    BY <1>1, <2>1, <2>3 DEF Steady, Locking
  <2>9. Missing'
    <3>1. \A d \in Clients : job[d].locked \subseteq Keys
      BY DEF Steady, Typed, Working, Jobs
    <3> QED
      BY <2>1, <2>4, <3>1 DEF Steady, Missing
  <2> QED
    BY <1>2, <2>5, <2>6, <2>7, <2>8, <2>9 DEF Steady
<1> QED
  BY <1>4, <1>5

\* A step of the service thread with an event in hand.
LEMMA ServiceSteady ==
    ASSUME Steady, Serving', Heard', lock' \in LockMaps, Locking', gate # None => UNCHANGED lock,
           front' \in [Keys -> Versions], \A k \in Keys : front'[k] \in {Absent, front[k]},
           listening' \subseteq Keys,
           UNCHANGED <<mode, strategy, gate, list, global, back, version, inbox, job>>
    PROVE  Steady'
<1>1. Typed'
  <2>1. Working' /\ Incoming'
    BY IncomingKept DEF Steady, Typed, Working
  <2>2. TypeOK'
    BY <2>1, TypesGiven, TypesKept DEF Steady, Typed
  <2> QED
    BY <2>1, <2>2 DEF Typed
<1>2. Shaped' /\ Listed' /\ Suited'
  BY DEF Steady, Shaped, Listed, Suited, target
<1>3. Closed'
  BY DEF Steady, Closed
<1>4. Missing'
  <2>1. \A d \in Clients : job[d].locked \subseteq Keys
    BY DEF Steady, Typed, Working, Jobs
  <2> QED
    BY <2>1 DEF Steady, Missing
<1>5. Answered'
  BY DEF Steady, Answered, Answers, Waits
<1> QED
  BY <1>1, <1>2, <1>3, <1>4, <1>5 DEF Steady

LEMMA ServiceHas ==
    ASSUME Steady, svc.at # "idle"
    PROVE  /\ svc.event \in Notes /\ svc.event.key \in Keys
           /\ svc \in [at : {"idle", "lock", "validate", "find", "add"},
                       event : Notes \cup {None}, found : Clients \cup {Ignore, None}]
BY MessageParts DEF Steady, Typed, Serving

LEMMA ServiceLockSteady ==
    ASSUME Steady, ServiceLock
    PROVE  Steady'
<1> DEFINE k == svc.event.key
<1>1. /\ svc.at = "lock" /\ k \in Keys
      /\ UNCHANGED <<mode, strategy, front, listening, gate, list, global, events, back, version, inbox, job>>
  BY ServiceHas DEF ServiceLock, mapVars, peerVars
<1>2. Heard' /\ front' \in [Keys -> Versions] /\ listening' \subseteq Keys
  BY <1>1, TypesGiven DEF Steady, Typed, Heard, Sifted, target
<1>3. CASE Free(k, Service)
  <2>1. lock' = Locked(lock, {k}, Service) /\ svc' = [svc EXCEPT !.at = "validate"]
    BY <1>3 DEF ServiceLock
  <2>2. svc'.at = "validate" /\ svc'.event = svc.event /\ Serving'
    BY <1>1, <2>1, ServiceHas DEF Serving
  <2>3. lock[k].owner = None /\ gate = None /\ lock[k].count = 0
    <3>1. gate \in {None, Service} /\ lock[k].owner \in {None, Service}
      BY <1>3 DEF Free
    <3>2. lock[k].owner # Service /\ gate # Service
      BY <1>1, TypesGiven, Parties, NearCacheConstants DEF Steady, Locking, Typed
    <3> QED
      BY <1>1, <3>1, <3>2, LocksGiven
  <2>4. /\ lock' \in LockMaps /\ lock'[k] = [owner |-> Service, count |-> 1]
        /\ \A j \in Keys \ {k} : lock'[j] = lock[j]
    <3>1. lock \in LockMaps /\ Service \in Clients \cup {Service} /\ {k} \in SUBSET Keys
      BY <1>1, TypesGiven DEF Steady, Typed
    <3>2. /\ Locked(lock, {k}, Service) \in LockMaps
          /\ \A j \in {k} : Locked(lock, {k}, Service)[j] = [owner |-> Service, count |-> lock[j].count + 1]
          /\ \A j \in Keys \ {k} : Locked(lock, {k}, Service)[j] = lock[j]
      BY <3>1, LockedParts
    <3> HIDE DEF k
    <3> QED
      BY <2>1, <2>3, <3>2
  <2>5. lock'[k].owner = Service /\ lock'[k].count = 1
    BY <2>4
  <2>6. \A d \in Clients : k \notin job[d].locked \cup job[d].evicted /\ job[d].locked \cup job[d].evicted \subseteq Keys
    BY <2>3, Parties DEF Steady, Locking, Typed, Working, Jobs
  <2>7. Locking'
    <3>1. \A j \in Keys : /\ lock'[j].owner = None <=> lock'[j] = Unlocked
                          /\ lock'[j].owner # None => lock'[j].count >= 1
      BY <2>4, <2>5, Parties, LocksGiven DEF Steady, Locking
    <3>2. /\ \A d \in Clients : \A j \in job'[d].locked \cup job'[d].evicted : lock'[j].owner = d
          /\ \A d \in Clients : \A j \in job'[d].locked \cap job'[d].evicted : lock'[j].count >= 2
      <4>1. \A d \in Clients : \A j \in job[d].locked \cup job[d].evicted : lock'[j] = lock[j]
        BY <2>4, <2>6
      <4>2. /\ \A d \in Clients : \A j \in job[d].locked \cup job[d].evicted : lock'[j].owner = d
            /\ \A d \in Clients : \A j \in job[d].locked \cap job[d].evicted : lock'[j].count >= 2
        BY <4>1 DEF Steady, Locking
      <4> QED
        BY <1>1, <4>2
    <3>3. \A j \in Keys : lock[j].owner # Service
      BY <1>1 DEF Steady, Locking
    <3>4. \A j \in Keys : lock'[j].owner = Service <=> svc'.at = "validate" /\ svc'.event.key = j
      BY <2>2, <2>4, <2>5, <3>3
    <3> QED
      BY <2>2, <2>5, <3>1, <3>2, <3>4 DEF Locking
  <2> QED
    BY <1>1, <1>2, <2>2, <2>3, <2>4, <2>7, ServiceSteady
<1>4. CASE ~ Free(k, Service)
  <2>1. UNCHANGED lock /\ svc' = [svc EXCEPT !.at = "find"]
    BY <1>4 DEF ServiceLock
  <2>2. svc'.at = "find" /\ Serving'
    BY <1>1, <2>1, ServiceHas DEF Serving
  <2>3. Locking' /\ lock' \in LockMaps
    BY <1>1, <2>1, <2>2, TypesGiven DEF Steady, Locking, Typed
  <2> QED
    BY <1>1, <1>2, <2>1, <2>2, <2>3, ServiceSteady
<1> QED
  BY <1>3, <1>4

LEMMA ValidateSteady ==
    ASSUME Steady, Validate
    PROVE  Steady'
<1> DEFINE k == svc.event.key
<1>1. /\ svc.at = "validate" /\ k \in Keys /\ svc' = IdleSvc /\ lock' = Released(lock, {k})
      /\ front' \in {front, Without(front, {k})} /\ listening' \subseteq listening
      /\ UNCHANGED <<mode, strategy, gate, list, global, events, back, version, inbox, job>>
  BY ServiceHas DEF Validate, peerVars
<1>2. Heard'
  BY <1>1 DEF Steady, Typed, Heard, Sifted, target
<1>3. listening' \subseteq Keys
  BY <1>1, TypesGiven DEF Steady, Typed
<1>4. front' \in [Keys -> Versions] /\ \A j \in Keys : front'[j] \in {Absent, front[j]}
  BY <1>1, TypesGiven, WithoutParts DEF Steady, Typed
<1>5. lock[k].owner = Service /\ lock[k].count = 1
  BY <1>1 DEF Steady, Locking
<1>6. /\ lock' \in LockMaps /\ lock'[k] = Unlocked
      /\ \A j \in Keys \ {k} : lock'[j] = lock[j]
  <2>1. lock \in LockMaps /\ {k} \in SUBSET Keys /\ \A j \in {k} : lock[j].count >= 1
    BY <1>1, <1>5, TypesGiven DEF Steady, Typed
  <2>2. /\ Released(lock, {k}) \in LockMaps
        /\ \A j \in {k} : lock[j].count = 1 => Released(lock, {k})[j] = Unlocked
        /\ \A j \in Keys \ {k} : Released(lock, {k})[j] = lock[j]
    BY <2>1, ReleasedParts
  <2> HIDE DEF k
  <2> QED
    BY <1>1, <1>5, <2>2
<1>7. \A d \in Clients : k \notin job[d].locked \cup job[d].evicted /\ job[d].locked \cup job[d].evicted \subseteq Keys
  BY <1>5, Parties DEF Steady, Locking, Typed, Working, Jobs
<1>8. svc'.at = "idle" /\ Serving'
  BY <1>1 DEF IdleSvc, Serving
<1>9. Locking'
  <2>1. \A j \in Keys : /\ lock'[j].owner = None <=> lock'[j] = Unlocked
                        /\ lock'[j].owner # None => lock'[j].count >= 1
    BY <1>6, LocksGiven DEF Steady, Locking
  <2>2. \A d \in Clients : \A j \in job[d].locked \cup job[d].evicted : lock'[j] = lock[j]
    BY <1>6, <1>7
  <2>3. /\ \A d \in Clients : \A j \in job[d].locked \cup job[d].evicted : lock'[j].owner = d
        /\ \A d \in Clients : \A j \in job[d].locked \cap job[d].evicted : lock'[j].count >= 2
    BY <2>2 DEF Steady, Locking
  <2>4. /\ \A d \in Clients : \A j \in job'[d].locked \cup job'[d].evicted : lock'[j].owner = d
        /\ \A d \in Clients : \A j \in job'[d].locked \cap job'[d].evicted : lock'[j].count >= 2
    BY <1>1, <2>3
  <2>5. \A j \in Keys : lock'[j].owner # Service
    <3>1. \A j \in Keys \ {k} : lock[j].owner # Service
      BY DEF Steady, Locking
    <3>2. lock'[k].owner # Service
      BY <1>6, Parties DEF Unlocked
    <3> QED
      BY <1>6, <3>1, <3>2
  <2> QED
    BY <1>8, <2>1, <2>4, <2>5 DEF Locking
<1>10. gate = None
  BY <1>1, <1>5, LocksGiven, Parties DEF Steady, Closed
<1> QED
  BY <1>1, <1>2, <1>3, <1>4, <1>6, <1>8, <1>9, <1>10, ServiceSteady

LEMMA FindSteady ==
    ASSUME Steady, Find
    PROVE  Steady'
<1>1. /\ svc.at = "find" /\ UNCHANGED <<lock, front, listening>> /\ UNCHANGED events
      /\ UNCHANGED <<mode, strategy, gate, list, global, back, version, inbox, job>>
  BY DEF Find, mapVars, peerVars, ctrlVars
<1>2. svc.event.key \in Keys
  BY <1>1, ServiceHas
<1>3. Current(svc.event.key) \in Clients \cup {Ignore, None}
  BY <1>2, TypesGiven DEF Current, Steady, Typed
<1>4. Serving' /\ svc'.at # "validate"
  <2>1. \/ svc' = [svc EXCEPT !.at = "lock"]
        \/ svc' = [svc EXCEPT !.at = "add", !.found = Current(svc.event.key)]
    BY DEF Find
  <2> QED
    BY <1>1, <1>3, <2>1, ServiceHas DEF Serving
<1>5. Heard' /\ front' \in [Keys -> Versions] /\ listening' \subseteq Keys /\ lock' \in LockMaps
  BY <1>1, TypesGiven DEF Steady, Typed, Heard, Sifted, target
<1>6. Locking'
  BY <1>1, <1>4 DEF Steady, Locking
<1> QED
  BY <1>1, <1>4, <1>5, <1>6, ServiceSteady

LEMMA AddEffect ==
    ASSUME Typed, Add
    PROVE  /\ svc.at = "add" /\ svc.event \in Notes /\ svc.event.key \in Keys
           /\ svc.found \in Clients => job[svc.found].at # "front"
           /\ \/ /\ svc.found = Current(svc.event.key) /\ svc.found \in {Ignore, None} /\ UNCHANGED events
                 /\ svc' = IdleSvc
              \/ /\ svc.found = Current(svc.event.key) /\ svc.found \in Clients /\ svc' = IdleSvc
                 /\ events' = [events EXCEPT ![svc.found] = [events[svc.found] EXCEPT ![svc.event.key] =
                                  Append(events[svc.found][svc.event.key], svc.event)]]
              \/ svc.found # Current(svc.event.key) /\ UNCHANGED events /\ svc'.at = "lock" /\ svc'.event = svc.event
           /\ Serving'
           /\ UNCHANGED <<mode, strategy, front, listening, lock, gate, list, global, back, version, inbox, job>>
<1>1. /\ svc.at = "add" /\ svc.event \in Notes /\ svc.event.key \in Keys
      /\ svc \in [at : {"idle", "lock", "validate", "find", "add"},
                  event : Notes \cup {None}, found : Clients \cup {Ignore, None}]
  BY MessageParts DEF Typed, Serving, Add
<1>2. svc.found \in Clients => job[svc.found].at # "front"
  BY DEF Add
<1>3. /\ UNCHANGED <<mode, strategy, front, listening, lock, gate, list, global, back, version, inbox, job>>
  BY DEF Add, mapVars, peerVars
<1>4. CASE svc.found = Current(svc.event.key)
  <2>1. svc' = IdleSvc /\ Serving'
    BY <1>4 DEF Add, IdleSvc, Serving
  <2>2. CASE svc.found \in Clients
    <3>1. svc.found # Ignore
      BY <2>2, Parties
    <3>2. events' = [events EXCEPT ![svc.found] = [events[svc.found] EXCEPT ![svc.event.key] =
                                  Append(events[svc.found][svc.event.key], svc.event)]]
      BY <1>4, <3>1 DEF Add
    <3> QED
      BY <1>1, <1>2, <1>3, <1>4, <2>1, <2>2, <3>2
  <2>3. CASE svc.found = Ignore
    <3>1. UNCHANGED events
      BY <1>4, <2>3 DEF Add
    <3> QED
      BY <1>1, <1>2, <1>3, <1>4, <2>1, <2>3, <3>1
  <2>4. CASE svc.found = None
    <3>1. UNCHANGED events
      <4>1. svc.found # Ignore
        BY <2>4, Parties
      <4>2. svc.found \notin Clients
        BY <2>4, Parties
      <4>3. events' = [events EXCEPT ![svc.found][svc.event.key] = Append(@, svc.event)]
        BY <1>4, <4>1 DEF Add
      <4>4. events = [d \in Clients |-> [k \in Keys |-> events[d][k]]]
        BY DEF Typed, Heard
      <4> QED
        BY <4>2, <4>3, <4>4
    <3> QED
      BY <1>1, <1>2, <1>3, <1>4, <2>1, <2>4, <3>1
  <2> QED
    BY <1>1, <2>2, <2>3, <2>4
<1>5. CASE svc.found # Current(svc.event.key)
  <2>1. svc' = [svc EXCEPT !.at = "lock", !.found = None] /\ UNCHANGED events
    BY <1>5 DEF Add
  <2>2. svc'.at = "lock" /\ svc'.event = svc.event /\ Serving'
    BY <1>1, <2>1 DEF Serving
  <2> QED
    BY <1>1, <1>2, <1>3, <1>5, <2>1, <2>2
<1> QED
  BY <1>4, <1>5

LEMMA AddSteady ==
    ASSUME Steady, Add
    PROVE  Steady'
<1>1. /\ svc.at = "add" /\ svc.event \in Notes /\ svc.event.key \in Keys /\ Serving'
      /\ UNCHANGED <<mode, strategy, front, listening, lock, gate, list, global, back, version, inbox, job>>
  BY AddEffect DEF Steady
<1>2. svc'.at # "validate"
  BY AddEffect DEF Steady, IdleSvc
<1>3. Heard'
  <2>1. CASE UNCHANGED events
    BY <1>1, <2>1 DEF Steady, Typed, Heard, Sifted, target
  <2>2. CASE svc.found \in Clients
             /\ events' = [events EXCEPT ![svc.found] = [events[svc.found] EXCEPT ![svc.event.key] =
                                  Append(events[svc.found][svc.event.key], svc.event)]]
    <3>0. PICK d \in Clients : d = svc.found
      BY <2>2
    <3> DEFINE s == Append(events[d][svc.event.key], svc.event)
    <3>1. Sifted(d) => Sifted(d)'
      BY <1>1 DEF Sifted, target
    <3>2. ~ Sifted(d) => s \in Seq(Notes)
      <4>1. ~ Sifted(d) => events[d][svc.event.key] \in Seq(Notes)
        BY <1>1, <3>0 DEF Steady, Typed, Heard
      <4> QED
        BY <1>1, <4>1, AppendProperties
    <3>3. Heard /\ events' = [events EXCEPT ![d] = [events[d] EXCEPT ![svc.event.key] = s]]
      BY <2>2, <3>0 DEF Steady, Typed
    <3> HIDE DEF s
    <3> QED
      BY <1>1, <3>1, <3>2, <3>3, HeardAt
  <2> QED
    BY <2>1, <2>2, AddEffect DEF Steady
<1>4. front' \in [Keys -> Versions] /\ listening' \subseteq Keys /\ lock' \in LockMaps
  BY <1>1, TypesGiven DEF Steady, Typed
<1>5. Locking'
  BY <1>1, <1>2 DEF Steady, Locking
<1> QED
  BY <1>1, <1>3, <1>4, <1>5, ServiceSteady

\* Steady is what the system starts with and every step keeps.
LEMMA InitSteady == Init => Steady
<1> SUFFICES ASSUME Init PROVE Steady
  OBVIOUS
<1>1. \A c \in Clients : job[c] = IdleJob
  BY DEF Init
<1>2. /\ IdleJob.at = "idle" /\ IdleJob.op = "none" /\ IdleJob.locked = {} /\ IdleJob.evicted = {}
      /\ IdleJob.reply = "no"
  BY DEF IdleJob
<1>3. svc.at = "idle" /\ svc.found = None /\ Serving
  BY DEF Init, IdleSvc, Serving
<1>4. Working
  BY IdleIsJob DEF Init, Working
<1>5. Incoming /\ inbox = <<>>
  BY DEF Init, Incoming
<1>6. Heard
  <2>1. events = [c \in Clients |-> NoEvents] /\ NoEvents = [k \in Keys |-> NoEvents[k]]
    BY DEF Init, NoEvents
  <2>2. \A c \in Clients : events[c] = NoEvents
    BY <2>1
  <2>3. events = [c \in Clients |-> [k \in Keys |-> events[c][k]]]
    BY <2>1, <2>2
  <2> QED
    BY <2>2, <2>3, NothingHeard DEF Heard
<1>7. TypeOK
  <2>1. [k \in Keys |-> Unlocked] \in [Keys -> [owner : Clients \cup {Service, None}, count : Nat]]
    BY DEF Unlocked
  <2>2. \A c \in Clients : job[c].op \in Operations \cup {"none"} /\ job[c].reply \in {"no", "ok", "error"}
    BY <1>1, <1>2
  <2> QED
    BY <1>3, <2>1, <2>2, VersionParts DEF Init, TypeOK, Absent
<1>8. Shaped
  BY <1>1, IdleIsJob DEF Shaped
<1>9. Answered
  BY <1>5 DEF Answered, Answers
<1>10. Locking
  <2>1. \A k \in Keys : lock[k] = Unlocked /\ lock[k].owner = None
    BY DEF Init, Unlocked
  <2> QED
    BY <1>1, <1>2, <1>3, <2>1, Parties DEF Locking
<1>11. Closed /\ Listed /\ Missing
  BY <1>1, <1>2, Parties DEF Init, Closed, Listed, Listing, Missing
<1>12. Suited
  BY <1>1, <1>2 DEF Init, Suited
<1> QED
  BY <1>3, <1>4, <1>5, <1>6, <1>7, <1>8, <1>9, <1>10, <1>11, <1>12 DEF Steady, Typed

LEMMA NextSteady ==
    ASSUME Steady, [Next]_vars
    PROVE  Steady'
<1>1. CASE Peer
  BY <1>1, PeerSteady
<1>2. CASE Serves
  BY <1>2, ReceiveSteady, ServiceLockSteady, ValidateSteady, FindSteady, AddSteady DEF Serves
<1>3. ASSUME NEW c \in Clients, Starts(c) \/ Works(c) PROVE Steady'
  BY <1>3, StartsSteady, WorksSteady
<1>4. CASE UNCHANGED vars
  <2>1. UNCHANGED <<mode, front, listening, strategy, lock, gate, list, global, events, back, version, inbox, job, svc>>
    BY <1>4 DEF vars, mapVars, ctrlVars, peerVars
  <2>2. Typed'
    BY <2>1 DEF Steady, Typed, TypeOK, Working, Incoming, Serving, Heard, Sifted, target
  <2>3. Shaped' /\ Answered' /\ Locking' /\ Closed' /\ Listed' /\ Missing' /\ Suited'
    BY <2>1 DEF Steady, Shaped, Answered, Answers, Waits, Locking, Closed, Listed, Missing, Suited, target
  <2> QED
    BY <2>2, <2>3 DEF Steady
<1> QED
  BY <1>1, <1>2, <1>3, <1>4 DEF Next

LEMMA AlwaysSteady == Spec => []Steady
<1>1. Init => Steady
  BY InitSteady
<1>2. Steady /\ [Next]_vars => Steady'
  BY NextSteady
<1> QED
  BY <1>1, <1>2, PTL DEF Spec

(***************************************************************************)
(* The types of the near cache (CachingMap): a lock of the control map     *)
(* belongs to a thread, its list to a client or to nobody, and what clear  *)
(* leaves there for all keys is IGNORE.                                    *)
(***************************************************************************)
THEOREM TypeCorrect == Spec => []TypeOK
<1>1. Steady => TypeOK
  BY DEF Steady, Typed
<1> QED
  BY <1>1, AlwaysSteady, PTL

(***************************************************************************)
(* validate spins on the service thread as long as a key is locked and has *)
(* no list.  A client that waits for an answer has a list for every key it *)
(* has locked, so the service thread gets past the events to the answer,   *)
(* whatever the strategy of the map and whatever fails.                    *)
(***************************************************************************)
THEOREM NeverWaitsUnlistedHolds == Spec => []NeverWaitsUnlisted
<1>1. Steady => NeverWaitsUnlisted
  <2>1. SUFFICES ASSUME Steady, NEW c \in Clients, Waits(c),
                        NEW k \in IF gate = c THEN Keys ELSE job[c].locked
                 PROVE  Current(k) # None
    BY DEF NeverWaitsUnlisted
  <2>2. CASE gate = c
    <3>1. global = Ignore
      BY <2>1, <2>2, Parties DEF Steady, Closed
    <3> QED
      BY <3>1, Parties DEF Current
  <2>3. CASE gate # c
    <3>1. job[c].at \in Listing /\ k \in job[c].locked
      BY <2>1, <2>3 DEF Waits, Listing
    <3>2. list[k] # None
      BY <2>1, <3>1 DEF Steady, Listed
    <3> QED
      BY <3>2 DEF Current
  <2> QED
    BY <2>2, <2>3
<1> QED
  BY <1>1, AlwaysSteady, PTL
=============================================================================
