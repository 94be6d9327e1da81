--------------------------- MODULE NearCacheCoherent ---------------------------
(***************************************************************************)
(* NearCache's front map does not drift away from the back map, in the     *)
(* uses the code is made for (Sound), for any number of clients and keys   *)
(* and any size of the front map: on top of NearCacheSound.                *)
(***************************************************************************)
EXTENDS NearCacheSound

(***************************************************************************)
(* A change of a key is on its way: in the inbox, before or after another  *)
(* message, or in the hands of the service thread.                         *)
(***************************************************************************)
Before(r, k) == \E i \in DOMAIN inbox : i < r /\ Changes(inbox[i], k)
After(r, k)  == \E i \in DOMAIN inbox : i > r /\ Changes(inbox[i], k)
Carried(k)   == svc.at # "idle" /\ Changes(svc.event, k)
Coming(k)    == After(0, k) \/ Carried(k)

\* A value read is that of the back map, unless a change is coming.
Agrees(v, k) == v \in {Absent, back[k]}
Right(v, k)  == Agrees(v, k) \/ Coming(k)

\* The front map has right values where nobody looks at the events, and none where they
\* are ignored.
Entry(k) ==
    /\ list[k] \notin Clients => Right(front[k], k)
    /\ Ignore \in {list[k], global} => front[k] = Absent
    /\ back[k] <= version

\* What get and getAll have read is right, or they have heard of a change.
Unread == {"lock", "assign", "ensure", "ensuring", "locks", "register", "registering"}
Reads(c) ==
    job[c].op \in {"get", "getAll"} =>
        /\ job[c].at \in Unread => \A k \in Keys : job[c].values[k] = Absent
        /\ job[c].at \in Listing => \A k \in job[c].locked : list[k] = c
        /\ job[c].at \in Filling => \A k \in job[c].locked :
              Right(job[c].values[k], k) \/ ~ OnlyLoaded(events[c][k])
        /\ job[c].at = "front" => \A k \in job[c].keys :
              list[k] = c /\ (Right(job[c].values[k], k) \/ k \in job[c].invalid)

\* The event of a put comes before its answer, the changes of others after it.
Wrote(c, k) ==
    /\ \A r \in Answers : inbox[r] = Reply(c, "ok") =>
          /\ events[c][k] # <<>> \/ Carried(k) \/ Before(r, k)
          /\ Agrees(job[c].values[k], k) \/ After(r, k)
    /\ job[c].reply = "ok" =>
          /\ events[c][k] # <<>>
          /\ Right(job[c].values[k], k) \/ Len(events[c][k]) >= 2
Writes(c) ==
    job[c].op \in {"put", "putAll"} =>
        /\ job[c].at \in {"locks", "ask"} => job[c].locked \subseteq job[c].keys
        /\ job[c].at = "asked" => \A k \in listening : list[k] = c => Wrote(c, k)

\* A priming event comes before the answer to the registration of a get, and its value
\* is right until a change is heard after it.
Prime(m, k)    == IsPriming(m) /\ m.key = k
Expects(c, k)  == /\ job[c].op = "get" /\ job[c].at = "registering"
                  /\ k \in job[c].locked /\ k \in listening
Expected(r, k) == \E c \in Clients : Expects(c, k) /\ \E j \in Answers : r < j /\ inbox[j].client = c
PrimesSent ==
    \A i \in DOMAIN inbox, k \in Keys : Prime(inbox[i], k) =>
        Expected(i, k) /\ (Agrees(inbox[i].value, k) \/ After(i, k))
PrimesCarried ==
    svc.at # "idle" => \A k \in Keys : Prime(svc.event, k) =>
        Expected(0, k) /\ (Agrees(svc.event.value, k) \/ After(0, k))
PrimesHeard(c) ==
    job[c].op = "get" =>
        /\ job[c].at \in {"lock", "assign", "ensure", "register"} =>
              \A k \in Keys : \A i \in DOMAIN events[c][k] : ~ IsPriming(events[c][k][i])
        /\ job[c].at = "registering" =>
              \A k \in job[c].locked : \A i \in DOMAIN events[c][k] : IsPriming(events[c][k][i]) =>
                  k \in listening /\ (Right(events[c][k][i].value, k) \/ i < Len(events[c][k]))

\* Requests that cannot fail do not.
Certain == "fail" \notin usage =>
              /\ \A c \in Clients : job[c].reply # "error"
              /\ \A i \in Answers : inbox[i].outcome # "error"

Own(c)   == Reads(c) /\ Writes(c) /\ PrimesHeard(c)
Faithful == (\A k \in Keys : Entry(k)) /\ PrimesSent /\ PrimesCarried /\ (\A c \in Clients : Own(c)) /\ Certain

Truthful == Sound => Faithful

-----------------------------------------------------------------------------
(***************************************************************************)
(* What is on its way stays on its way while the inbox grows.              *)
(***************************************************************************)
LEMMA GrowsKeeps ==
    ASSUME Typed, Grows
    PROVE  /\ Len(inbox) \in Nat /\ Len(inbox') \in Nat /\ Len(inbox) <= Len(inbox')
           /\ DOMAIN inbox = 1..Len(inbox) /\ (DOMAIN inbox)' = 1..Len(inbox')
           /\ \A i \in 1..Len(inbox) : i \in 1..Len(inbox') /\ inbox'[i] = inbox[i]
           /\ Answers \subseteq Answers' /\ Answers \subseteq 1..Len(inbox)
           /\ \A i \in Answers' : i \in Answers \/ i \in (Len(inbox) + 1)..Len(inbox')
           /\ \A i \in (DOMAIN inbox)' : i \in 1..Len(inbox) \/ i \in (Len(inbox) + 1)..Len(inbox')
<1>1. /\ Len(inbox) \in Nat /\ Len(inbox') \in Nat /\ Len(inbox) <= Len(inbox')
      /\ DOMAIN inbox = 1..Len(inbox) /\ (DOMAIN inbox)' = 1..Len(inbox')
  BY LenProperties DEF Grows, Typed, Incoming
<1>2. \A i \in 1..Len(inbox) : i \in 1..Len(inbox') /\ inbox'[i] = inbox[i]
  BY <1>1 DEF Grows
<1>3. \A i \in (DOMAIN inbox)' : i \in 1..Len(inbox) \/ i \in (Len(inbox) + 1)..Len(inbox')
  BY <1>1
<1> QED
  BY <1>1, <1>2, <1>3 DEF Answers

LEMMA ChangesStay ==
    ASSUME Typed, Grows, NEW r, NEW k
    PROVE  /\ Before(r, k) => Before(r, k)'
           /\ After(r, k) => After(r, k)'
           /\ UNCHANGED svc /\ Coming(k) => Coming(k)'
<1>1. Before(r, k) => Before(r, k)'
  BY GrowsKeeps DEF Before
<1>2. ASSUME NEW q PROVE After(q, k) => After(q, k)'
  BY GrowsKeeps DEF After
<1> QED
  BY <1>1, <1>2 DEF Coming, Carried

\* A change of a key that is listened to is told, unless it is its loading.
Announced == \A k \in listening : back'[k] # back[k] =>
                back[k] = Absent \/ \E i \in (Len(inbox) + 1)..Len(inbox') : Changes(inbox'[i], k)

LEMMA AgreeingStays ==
    ASSUME Typed, Grows, Announced, NEW k \in listening, NEW v, NEW r \in Nat, r <= Len(inbox)
    PROVE  /\ Agrees(v, k) \/ After(r, k) => Agrees(v, k)' \/ After(r, k)'
           /\ UNCHANGED svc /\ Right(v, k) => Right(v, k)'
<1>1. ASSUME NEW i \in (Len(inbox) + 1)..Len(inbox'), Changes(inbox'[i], k)
      PROVE  After(r, k)' /\ After(0, k)'
  BY <1>1, GrowsKeeps DEF After
<1>2. Agrees(v, k) => Agrees(v, k)' \/ (After(r, k)' /\ After(0, k)')
  BY <1>1 DEF Agrees, Announced
<1>3. After(r, k) => After(r, k)'
  BY ChangesStay
<1>4. Coming(k) /\ UNCHANGED svc => Coming(k)'
  BY ChangesStay
<1>5. After(0, k)' => Coming(k)'
  BY DEF Coming
<1> QED
  BY <1>2, <1>3, <1>4, <1>5 DEF Right

\* A request whose answer is on its way is waited for.
LEMMA ExpectedWaits ==
    ASSUME Steady, NEW j \in Answers
    PROVE  inbox[j].client \in Clients /\ Waits(inbox[j].client) /\ j \in DOMAIN inbox
BY AnswersType DEF Steady, Typed, Answered, Answers

\* Who reads a key, or writes one that he listens to, owns it.
LEMMA ReadersOwn ==
    ASSUME Sound, Keen, Steady, NEW d \in Clients
    PROVE  /\ job[d].op \in {"get", "getAll"} /\ job[d].at \in Filling =>
                 \A k \in job[d].locked : k \in listening
           /\ job[d].op \in {"get", "getAll"} /\ job[d].at = "front" =>
                 \A k \in job[d].keys : k \in listening /\ k \in job[d].locked
           /\ \A k \in job[d].locked : k \in Keys /\ lock[k].owner = d
           /\ \A k \in Keys : list[k] = d => k \in job[d].locked
           /\ job[d].keys \subseteq Keys
<1>1. ShapedJob(job[d]) /\ job[d] \in Jobs
  BY PlaceOps
<1>2. /\ \A k \in job[d].locked : k \in Keys /\ lock[k].owner = d
      /\ \A k \in Keys : list[k] = d => k \in job[d].locked
      /\ job[d].keys \subseteq Keys
  BY <1>1 DEF Steady, Locking, Listed, Jobs
<1>3. job[d].op = "getAll" /\ job[d].at \in Filling \cup {"front"} => listening = Keys
  <2>1. SUFFICES ASSUME job[d].op = "getAll", job[d].at \in Filling \cup {"front"} PROVE listening = Keys
    OBVIOUS
  <2>2. target = "all"
    BY <2>1, SoundHas
  <2>3. strategy = "all"
    BY <2>1, <2>2 DEF Keen, Tracks
  <2> QED
    BY <2>3 DEF Keen, Heeded
<1>4. job[d].op = "get" /\ job[d].at \in Filling => job[d].locked \subseteq listening
  BY DEF Keen, Tracks
<1>5. job[d].at = "front" => job[d].op = "getAll" /\ job[d].keys \subseteq job[d].locked
  BY <1>1, PlaceOps DEF ShapedJob, ShapeOfGetAll
<1> QED
  BY <1>2, <1>3, <1>4, <1>5

\* Who waits for a registration stays in wait while another client moves.
LEMMA ExpectedStays ==
    ASSUME Steady, UNCHANGED mode, NEW t \in Threads, Others(t), t \in Clients => ~ Waits(t),
           \A j \in Answers : j \in Answers' /\ inbox'[j] = inbox[j],
           \A k \in listening : k \in listening' \/ lock[k].owner \in {None, t} \/ target = "all",
           NEW r \in Nat, NEW k \in Keys, Expected(r, k)
    PROVE  Expected(r, k)' /\ k \in listening
<1>1. PICK d \in Clients : Expects(d, k) /\ \E j \in Answers : r < j /\ inbox[j].client = d
  BY DEF Expected
<1>2. PICK j \in Answers : r < j /\ inbox[j].client = d
  BY <1>1
<1>3. Waits(d)
  BY <1>2, ExpectedWaits
<1>4. d # t /\ job'[d] = job[d]
  BY <1>3 DEF Others
<1>5. lock[k].owner = d
  BY <1>1 DEF Expects, Steady, Locking
<1>6. target # "all"
  BY <1>1 DEF Expects, Steady, Suited
<1>7. d # None
  BY Parties
<1>8. k \in listening /\ k \in listening'
  BY <1>1, <1>4, <1>5, <1>6, <1>7 DEF Expects
<1>9. Expects(d, k)'
  BY <1>1, <1>4, <1>8 DEF Expects
<1> QED
  BY <1>2, <1>8, <1>9 DEF Expected

(***************************************************************************)
(* A step of a client that changes nothing at the peer and asks for        *)
(* nothing.                                                                *)
(***************************************************************************)
LEMMA QuietOwn ==
    ASSUME Sound, Keen, Steady, Steady', NEW c \in Clients, Others(c),
           UNCHANGED <<mode, inbox, svc, back>>,
           \A d \in Clients : d # c => events'[d] = events[d],
           \A k \in Keys : list'[k] = list[k] \/ lock[k].owner \in {None, c},
           listening' \subseteq listening,
           \A k \in listening : k \in listening' \/ lock[k].owner \in {None, c} \/ target = "all",
           NEW d \in Clients, d # c, Own(d)
    PROVE  Own(d)'
<1>1. job'[d] = job[d] /\ events'[d] = events[d] /\ d # None
  BY Parties DEF Others
<1>2. \A k \in Keys : \A v : Right(v, k)' = Right(v, k)
  BY DEF Right, Agrees, Coming, Carried, After
<1>3. \A k \in job[d].locked : k \in Keys /\ lock[k].owner = d /\ list'[k] = list[k]
  BY <1>1, ReadersOwn
<1>4. job[d].op = "getAll" /\ job[d].at = "front" => job[d].keys \subseteq job[d].locked
  BY ReadersOwn
<1>5. Reads(d)'
  <2>1. SUFFICES ASSUME job[d].op \in {"get", "getAll"}
                 PROVE  /\ job[d].at \in Unread => \A k \in Keys : job[d].values[k] = Absent
                        /\ job[d].at \in Listing => \A k \in job[d].locked : list'[k] = d
                        /\ job[d].at \in Filling => \A k \in job[d].locked :
                              Right(job[d].values[k], k)' \/ ~ OnlyLoaded(events[d][k])
                        /\ job[d].at = "front" => \A k \in job[d].keys :
                              list'[k] = d /\ (Right(job[d].values[k], k)' \/ k \in job[d].invalid)
    BY <1>1 DEF Reads, OnlyLoaded
  <2>2. /\ job[d].at \in Unread => \A k \in Keys : job[d].values[k] = Absent
        /\ job[d].at \in Listing => \A k \in job[d].locked : list[k] = d
        /\ job[d].at \in Filling => \A k \in job[d].locked :
              Right(job[d].values[k], k) \/ ~ OnlyLoaded(events[d][k])
        /\ job[d].at = "front" => \A k \in job[d].keys :
              list[k] = d /\ (Right(job[d].values[k], k) \/ k \in job[d].invalid)
    BY <2>1 DEF Own, Reads
  <2>3. job[d].at = "front" => job[d].op = "getAll"
    BY PlaceOps
  <2>4. job[d].at = "front" => \A k \in job[d].keys : k \in job[d].locked
    BY <1>4, <2>3
  <2>5. job[d].keys \subseteq Keys
    BY ReadersOwn
  <2>6. job[d].at \in Listing => \A k \in job[d].locked : list'[k] = d
    BY <1>3, <2>2
  <2>7. job[d].at \in Filling => \A k \in job[d].locked :
           Right(job[d].values[k], k)' \/ ~ OnlyLoaded(events[d][k])
    <3>1. \A k \in job[d].locked : Right(job[d].values[k], k)' = Right(job[d].values[k], k)
      BY <1>1, <1>2, <1>3
    <3> QED
      BY <2>2, <3>1
  <2>8. job[d].at = "front" => \A k \in job[d].keys :
           list'[k] = d /\ (Right(job[d].values[k], k)' \/ k \in job[d].invalid)
    <3>1. \A k \in job[d].keys : Right(job[d].values[k], k)' = Right(job[d].values[k], k)
      BY <1>1, <1>2, <2>5
    <3> QED
      BY <1>3, <2>2, <2>4, <3>1
  <2> QED
    BY <2>2, <2>6, <2>7, <2>8
<1>6. Writes(d)'
  <2>1. SUFFICES ASSUME job[d].op \in {"put", "putAll"}, job[d].at = "asked",
                        NEW k \in listening', list'[k] = d
                 PROVE  Wrote(d, k)'
    BY <1>1 DEF Writes, Own
  <2>2. k \in Keys /\ k \in listening
    BY DEF Steady, Typed, TypeOK
  <2>3. k \in job[d].locked
    BY <1>1, <2>1, <2>2 DEF Steady, Listed
  <2>4. list[k] = d
    BY <1>3, <2>1, <2>3
  <2>5. Wrote(d, k)
    BY <2>1, <2>2, <2>4 DEF Own, Writes
  <2> QED
    BY <1>1, <2>5 DEF Wrote, Right, Agrees, Coming, Carried, After, Before, Answers
<1>7. PrimesHeard(d)'
  <2>1. SUFFICES ASSUME job[d].op = "get", job[d].at = "registering", NEW k \in job[d].locked,
                        NEW i \in DOMAIN events[d][k], IsPriming(events[d][k][i])
                 PROVE  k \in listening' /\ (Right(events[d][k][i].value, k)' \/ i < Len(events[d][k]))
    BY <1>1 DEF PrimesHeard, Own, IsPriming
  <2>2. k \in listening /\ (Right(events[d][k][i].value, k) \/ i < Len(events[d][k]))
    BY <2>1 DEF Own, PrimesHeard
  <2>3. target # "all"
    BY <2>1 DEF Steady, Suited
  <2> QED
    BY <1>1, <1>2, <1>3, <2>2, <2>3
<1> QED
  BY <1>5, <1>6, <1>7 DEF Own

LEMMA QuietFaithful ==
    ASSUME Sound, Keen, Steady, Steady', Faithful, NEW c \in Clients, Others(c), ~ Waits(c),
           UNCHANGED <<mode, inbox, svc, back>>,
           \A d \in Clients : d # c => events'[d] = events[d],
           \A k \in Keys : list'[k] = list[k] \/ lock[k].owner \in {None, c},
           listening' \subseteq listening,
           \A k \in listening : k \in listening' \/ lock[k].owner \in {None, c} \/ target = "all",
           \A k \in Keys : Entry(k)',
           Own(c)', job'[c].reply \in {job[c].reply, "no"}
    PROVE  Faithful'
<1>1. \A d \in Clients : Own(d)'
  BY QuietOwn DEF Faithful
<1>2. Answers' = Answers
  BY DEF Answers
<1>3. \A r \in Nat, k \in Keys : Expected(r, k) => Expected(r, k)'
  BY <1>2, ExpectedStays DEF Threads
<1>4. 0 \in Nat /\ \A i \in DOMAIN inbox : i \in Nat
  BY AnswersType DEF Steady, Typed
<1>5. \A v, k, r : Agrees(v, k)' = Agrees(v, k) /\ After(r, k)' = After(r, k)
  BY DEF Agrees, After
<1>6. PrimesSent'
  <2>1. SUFFICES ASSUME NEW i \in DOMAIN inbox, NEW k \in Keys, Prime(inbox[i], k)
                 PROVE  Expected(i, k)' /\ (Agrees(inbox[i].value, k)' \/ After(i, k)')
    BY DEF PrimesSent, Prime, IsPriming, Agrees
  <2> QED
    BY <1>3, <1>4, <1>5, <2>1 DEF Faithful, PrimesSent
<1>7. PrimesCarried'
  <2>1. SUFFICES ASSUME svc.at # "idle", NEW k \in Keys, Prime(svc.event, k)
                 PROVE  Expected(0, k)' /\ (Agrees(svc.event.value, k)' \/ After(0, k)')
    BY DEF PrimesCarried, Prime, IsPriming, Agrees
  <2> QED
    BY <1>3, <1>4, <1>5, <2>1 DEF Faithful, PrimesCarried
<1>8. Certain'
  <2>1. SUFFICES ASSUME "fail" \notin usage, NEW d \in Clients PROVE job'[d].reply # "error"
    BY <1>2 DEF Certain, Faithful, usage
  <2>2. job[d].reply # "error" /\ job[c].reply # "error"
    BY <2>1 DEF Faithful, Certain
  <2> QED
    BY <2>2 DEF Others
<1> QED
  BY <1>1, <1>6, <1>7, <1>8 DEF Faithful

(***************************************************************************)
(* A step that adds to the inbox, of a client t that asks for something or *)
(* of the peer.                                                            *)
(***************************************************************************)
Widens(t) == \A k \in listening' : k \in listening \/ target = "all" \/ lock[k].owner = t

LEMMA GrowEntry ==
    ASSUME Sound, Keen, Steady, Grows, Announced, UNCHANGED <<front, list, global, svc>>,
           NEW k \in Keys, Entry(k), back'[k] <= version'
    PROVE  Entry(k)'
<1>1. list[k] \notin Clients => Right(front[k], k)'
  <2>1. CASE front[k] = Absent
    BY <2>1 DEF Right, Agrees
  <2>2. CASE front[k] # Absent
    <3>1. k \in listening /\ 0 \in Nat /\ 0 <= Len(inbox)
      BY <2>2, LenProperties DEF Keen, Heeded, Steady, Typed, Incoming
    <3>2. Right(front[k], k) /\ UNCHANGED svc => Right(front[k], k)'
      <4>1. \A v : UNCHANGED svc /\ Right(v, k) => Right(v, k)'
        BY <3>1, AgreeingStays DEF Steady
      <4> QED
        BY <4>1
    <3> QED
      BY <3>2 DEF Entry
  <2> QED
    BY <2>1, <2>2
<1> QED
  BY <1>1 DEF Entry

LEMMA GrowOwn ==
    ASSUME Sound, Keen, Steady, Steady', NEW t \in Threads, Others(t), Grows, Announced, Widens(t),
           UNCHANGED <<mode, front, list, events, svc>>, listening \subseteq listening',
           \A i \in (Len(inbox) + 1)..Len(inbox') : inbox'[i].type = "reply" => inbox'[i].client = t,
           NEW d \in Clients, d # t, Own(d)
    PROVE  Own(d)'
<1>1. job'[d] = job[d] /\ events' = events /\ list' = list /\ svc' = svc
  BY DEF Others
<1>2. Len(inbox) \in Nat /\ 0 <= Len(inbox) /\ 0 \in Nat
  BY GrowsKeeps DEF Steady
<1>3. \A k \in listening : \A v : Right(v, k) => Right(v, k)'
  BY <1>2, AgreeingStays DEF Steady
<1>4. Reads(d)'
  <2>1. SUFFICES ASSUME job[d].op \in {"get", "getAll"}
                 PROVE  /\ job[d].at \in Unread => \A k \in Keys : job[d].values[k] = Absent
                        /\ job[d].at \in Listing => \A k \in job[d].locked : list[k] = d
                        /\ job[d].at \in Filling => \A k \in job[d].locked :
                              Right(job[d].values[k], k)' \/ ~ OnlyLoaded(events[d][k])
                        /\ job[d].at = "front" => \A k \in job[d].keys :
                              list[k] = d /\ (Right(job[d].values[k], k)' \/ k \in job[d].invalid)
    BY <1>1 DEF Reads, OnlyLoaded
  <2>2. /\ job[d].at \in Unread => \A k \in Keys : job[d].values[k] = Absent
        /\ job[d].at \in Listing => \A k \in job[d].locked : list[k] = d
        /\ job[d].at \in Filling => \A k \in job[d].locked :
              Right(job[d].values[k], k) \/ ~ OnlyLoaded(events[d][k])
        /\ job[d].at = "front" => \A k \in job[d].keys :
              list[k] = d /\ (Right(job[d].values[k], k) \/ k \in job[d].invalid)
    BY <2>1 DEF Own, Reads
  <2>3. /\ job[d].at \in Filling => \A k \in job[d].locked : k \in listening
        /\ job[d].at = "front" => \A k \in job[d].keys : k \in listening
    BY <2>1, ReadersOwn
  <2>4. \A k \in listening : Right(job[d].values[k], k) => Right(job[d].values[k], k)'
    BY <1>1, <1>3
  <2>5. job[d].at \in Filling => \A k \in job[d].locked :
           Right(job[d].values[k], k)' \/ ~ OnlyLoaded(events[d][k])
    BY <2>2, <2>3, <2>4
  <2>6. job[d].at = "front" => \A k \in job[d].keys :
           list[k] = d /\ (Right(job[d].values[k], k)' \/ k \in job[d].invalid)
    BY <2>2, <2>3, <2>4
  <2> QED
    BY <2>2, <2>5, <2>6
<1>5. Writes(d)'
  <2>1. SUFFICES ASSUME job[d].op \in {"put", "putAll"}, job[d].at = "asked",
                        NEW k \in listening', list[k] = d
                 PROVE  Wrote(d, k)'
    BY <1>1 DEF Writes, Own
  <2>2. k \in Keys /\ lock[k].owner = d
    BY <2>1, ReadersOwn DEF Steady, Typed, TypeOK
  <2>3. k \in listening
    <3>1. CASE target = "all"
      BY <2>1, <2>2, <3>1 DEF Keen, Tracks
    <3>2. CASE lock[k].owner = t
      BY <2>2, <3>2
    <3> QED
      BY <3>1, <3>2 DEF Widens
  <2>4. Wrote(d, k)
    BY <2>1, <2>3 DEF Own, Writes
  <2>5. job[d].reply = "ok" => /\ events[d][k] # <<>>
                               /\ Right(job[d].values[k], k)' \/ Len(events[d][k]) >= 2
    <3>1. Right(job[d].values[k], k) => Right(job[d].values[k], k)'
      BY <1>1, <1>3, <2>3
    <3> QED
      BY <2>4, <3>1 DEF Wrote
  <2>6. ASSUME NEW r \in Answers', inbox'[r] = Reply(d, "ok")
        PROVE  /\ events[d][k] # <<>> \/ Carried(k)' \/ Before(r, k)'
               /\ Agrees(job[d].values[k], k)' \/ After(r, k)'
    <3>1. r \in Answers
      <4>1. inbox'[r].client = d /\ inbox'[r].type = "reply"
        BY <2>6 DEF Reply
      <4> QED
        BY <2>6, <4>1, GrowsKeeps DEF Steady
    <3>2. r \in Nat /\ r <= Len(inbox) /\ inbox[r] = Reply(d, "ok")
      BY <2>6, <3>1, GrowsKeeps DEF Steady
    <3>3. /\ events[d][k] # <<>> \/ Carried(k) \/ Before(r, k)
          /\ Agrees(job[d].values[k], k) \/ After(r, k)
      BY <2>4, <3>1, <3>2 DEF Wrote
    <3>4. Before(r, k) => Before(r, k)'
      BY ChangesStay DEF Steady
    <3>5. Carried(k) => Carried(k)'
      BY <1>1 DEF Carried
    <3>6. \A v : Agrees(v, k) \/ After(r, k) => Agrees(v, k)' \/ After(r, k)'
      BY <2>3, <3>2, AgreeingStays DEF Steady
    <3>7. Agrees(job[d].values[k], k)' \/ After(r, k)'
      BY <1>1, <3>3, <3>6
    <3> QED
      BY <3>3, <3>4, <3>5, <3>7
  <2> QED
    BY <1>1, <2>5, <2>6 DEF Wrote
<1>6. PrimesHeard(d)'
  <2>1. SUFFICES ASSUME job[d].op = "get", job[d].at = "registering", NEW k \in job[d].locked,
                        NEW i \in DOMAIN events[d][k], IsPriming(events[d][k][i])
                 PROVE  k \in listening' /\ (Right(events[d][k][i].value, k)' \/ i < Len(events[d][k]))
    BY <1>1 DEF PrimesHeard, Own, IsPriming
  <2>2. k \in listening /\ (Right(events[d][k][i].value, k) \/ i < Len(events[d][k]))
    BY <2>1 DEF Own, PrimesHeard
  <2>3. Right(events[d][k][i].value, k) => Right(events[d][k][i].value, k)'
    BY <1>1, <1>3, <2>2
  <2> QED
    BY <2>2, <2>3
<1> QED
  BY <1>4, <1>5, <1>6 DEF Own

LEMMA GrowFaithful ==
    ASSUME Sound, Keen, Steady, Steady', Faithful, NEW t \in Threads, Others(t), Grows, Announced, Widens(t),
           UNCHANGED <<mode, front, list, global, events, svc>>, listening \subseteq listening',
           t \in Clients => ~ Waits(t) /\ Own(t)' /\ job'[t].reply \in {job[t].reply, "no"},
           \A i \in (Len(inbox) + 1)..Len(inbox') :
              /\ inbox'[i].type = "reply" => /\ inbox'[i].client = t
                                             /\ "fail" \notin usage => inbox'[i].outcome # "error"
              /\ \A k \in Keys : Prime(inbox'[i], k) =>
                    Expected(i, k)' /\ inbox'[i].value \in {Absent, back'[k]},
           \A k \in Keys : back'[k] <= version'
    PROVE  Faithful'
<1>1. \A k \in Keys : Entry(k)'
  BY GrowEntry DEF Faithful
<1>2. \A d \in Clients : Own(d)'
  BY GrowOwn DEF Faithful
<1>3. /\ Len(inbox) \in Nat /\ DOMAIN inbox = 1..Len(inbox) /\ 0 \in Nat /\ 0 <= Len(inbox)
      /\ \A j \in Answers : j \in Answers' /\ inbox'[j] = inbox[j]
  BY GrowsKeeps DEF Steady
<1>4. \A r \in Nat, k \in Keys : Expected(r, k) => Expected(r, k)' /\ k \in listening
  BY <1>3, ExpectedStays
<1>5. PrimesSent'
  <2>1. SUFFICES ASSUME NEW i \in (DOMAIN inbox)', NEW k \in Keys, Prime(inbox'[i], k)
                 PROVE  Expected(i, k)' /\ (inbox'[i].value \in {Absent, back'[k]} \/ After(i, k)')
    BY DEF PrimesSent, Prime, IsPriming, Agrees
  <2>2. CASE i \in 1..Len(inbox)
    <3>1. inbox'[i] = inbox[i] /\ i \in DOMAIN inbox /\ i \in Nat /\ i <= Len(inbox)
      BY <1>3, <2>2, GrowsKeeps DEF Steady
    <3>2. Expected(i, k) /\ (Agrees(inbox[i].value, k) \/ After(i, k))
      BY <2>1, <3>1 DEF Faithful, PrimesSent
    <3>3. Expected(i, k)' /\ k \in listening
      BY <1>4, <3>1, <3>2
    <3>4. ASSUME NEW w PROVE Agrees(w, k) \/ After(i, k) => w \in {Absent, back'[k]} \/ After(i, k)'
      BY <3>1, <3>3, AgreeingStays DEF Steady, Agrees
    <3> QED
      BY <3>1, <3>2, <3>3, <3>4
  <2>3. CASE i \in (Len(inbox) + 1)..Len(inbox')
    BY <2>1, <2>3
  <2> QED
    BY <2>2, <2>3, GrowsKeeps DEF Steady
<1>6. PrimesCarried'
  <2>1. SUFFICES ASSUME svc.at # "idle", NEW k \in Keys, Prime(svc.event, k)
                 PROVE  Expected(0, k)' /\ (Agrees(svc.event.value, k)' \/ After(0, k)')
    BY DEF PrimesCarried, Prime, IsPriming, Agrees
  <2>2. Expected(0, k) /\ (Agrees(svc.event.value, k) \/ After(0, k))
    BY <2>1 DEF Faithful, PrimesCarried
  <2>3. Expected(0, k)' /\ k \in listening
    BY <1>3, <1>4, <2>2
  <2>4. ASSUME NEW w PROVE Agrees(w, k) \/ After(0, k) => w \in {Absent, back'[k]} \/ After(0, k)'
    BY <1>3, <2>3, AgreeingStays DEF Steady, Agrees
  <2> QED
    BY <2>2, <2>3, <2>4 DEF Agrees
<1>7. Certain'
  <2>1. SUFFICES ASSUME "fail" \notin usage
                 PROVE  /\ \A d \in Clients : job'[d].reply # "error"
                        /\ \A i \in Answers' : inbox'[i].outcome # "error"
    BY DEF Certain, usage
  <2>2. /\ \A d \in Clients : job[d].reply # "error"
        /\ \A i \in Answers : inbox[i].outcome # "error"
    BY <2>1 DEF Faithful, Certain
  <2>3. \A i \in Answers' : inbox'[i].outcome # "error"
    <3>1. SUFFICES ASSUME NEW i \in Answers' PROVE inbox'[i].outcome # "error"
      OBVIOUS
    <3>2. CASE i \in Answers
      BY <1>3, <2>2, <3>2
    <3>3. CASE i \in (Len(inbox) + 1)..Len(inbox')
      BY <2>1, <3>3 DEF Answers
    <3> QED
      BY <3>2, <3>3, GrowsKeeps DEF Steady
  <2>4. \A d \in Clients : job'[d].reply # "error"
    BY <2>2 DEF Others
  <2> QED
    BY <2>3, <2>4
<1> QED
  BY <1>1, <1>2, <1>5, <1>6, <1>7 DEF Faithful

-----------------------------------------------------------------------------
(***************************************************************************)
(* The peer.                                                               *)
(***************************************************************************)
LEMMA ToldAnnounced == ASSUME Told, listening \subseteq Keys PROVE Announced
BY DEF Told, Announced

LEMMA PeerFaithful ==
    ASSUME Sound, Keen, Steady, Steady', Faithful, Peer
    PROVE  Faithful'
<1>1. PICK k \in Keys : OthersWrite(k)
  <2>1. mode \in [keys : SUBSET Keys, target : {"present", "auto", "all"}, ops : SUBSET Operations,
                  usage : SUBSET {"expire", "load", "refresh", "fail", "reset"}]
    BY NearCacheConstants DEF Steady, Typed, TypeOK
  <2>2. mode.keys \subseteq Keys
    BY <2>1
  <2> QED
    BY <2>2 DEF Peer, Refresh, Truncate, Sound
<1>2. /\ Tells /\ OnlyChanges /\ Told /\ version \in Versions /\ version' \in Versions /\ version <= version'
      /\ \A j \in Keys : back'[j] \in {back[j], Absent, version'}
      /\ UNCHANGED <<mode, mapVars, ctrlVars, job, svc>>
  BY <1>1, OthersWriteEffect, TypesGiven DEF Steady, Typed
<1>3. UNCHANGED <<mode, front, list, global, events, svc>> /\ UNCHANGED job /\ listening' = listening
  BY <1>2 DEF mapVars, ctrlVars
<1>4. Grows /\ Announced
  BY <1>2, ToldAnnounced, TypesGiven DEF Tells, Steady, Typed
<1>5. \A j \in Keys : back'[j] <= version'
  <2>1. \A j \in Keys : back[j] <= version /\ back[j] \in Nat
    BY TypesGiven, VersionParts DEF Faithful, Entry, Steady, Typed
  <2>2. version \in Nat /\ version' \in Nat
    BY <1>2, VersionParts
  <2> QED
    BY <1>2, <2>1, <2>2 DEF Absent
<1>6. \A i \in (Len(inbox) + 1)..Len(inbox') : inbox'[i] \in Notes \cup Resets /\ inbox'[i].type \notin {"reply", "prime", "refresh"}
  BY <1>2, MessageParts DEF Tells, OnlyChanges
<1>7. \A i \in (Len(inbox) + 1)..Len(inbox') :
              /\ inbox'[i].type = "reply" => /\ inbox'[i].client = Service
                                             /\ "fail" \notin usage => inbox'[i].outcome # "error"
              /\ \A j \in Keys : Prime(inbox'[i], j) =>
                    Expected(i, j)' /\ inbox'[i].value \in {Absent, back'[j]}
  BY <1>6 DEF Prime, IsPriming
<1>8. Service \in Threads /\ Others(Service) /\ Service \notin Clients
  BY <1>3, ServiceIsThread
<1>9. Widens(Service) /\ listening \subseteq listening'
  BY <1>3 DEF Widens
<1> QED
  BY <1>3, <1>4, <1>5, <1>7, <1>8, <1>9, GrowFaithful

-----------------------------------------------------------------------------
(***************************************************************************)
(* The steps of a client that neither hear nor tell anything new.          *)
(***************************************************************************)
Quiet(c) ==
    /\ Others(c) /\ ~ Waits(c) /\ UNCHANGED <<mode, inbox, svc, back, version>>
    /\ \A d \in Clients : d # c => events'[d] = events[d]
    /\ \A k \in Keys : list'[k] = list[k] \/ lock[k].owner \in {None, c}
    /\ listening' \subseteq listening
    /\ \A k \in listening : k \in listening' \/ lock[k].owner \in {None, c} \/ target = "all"
    /\ job'[c].reply \in {job[c].reply, "no"}

LEMMA QuietStep ==
    ASSUME Sound, Keen, Steady, Steady', Faithful, NEW c \in Clients, Quiet(c),
           \A k \in Keys : Entry(k)', Own(c)'
    PROVE  Faithful'
BY QuietFaithful DEF Quiet

\* An entry that nobody touches, one that goes, and one whose value is right.
LEMMA EntryKept ==
    ASSUME NEW k \in Keys, Entry(k), UNCHANGED <<inbox, svc, back, version>>,
           \/ front'[k] = Absent
           \/ /\ front'[k] = front[k] /\ (list[k] \in Clients => list'[k] \in Clients)
              /\ Ignore \in {list'[k], global'} => Ignore \in {list[k], global}
           \/ (\E v : front'[k] = v /\ Right(v, k)) /\ Ignore \notin {list'[k], global'}
    PROVE  Entry(k)'
<1>1. back'[k] <= version'
  BY DEF Entry
<1>2. \A v : Right(v, k)' = Right(v, k)
  BY DEF Right, Agrees, Coming, After, Carried
<1>3. Right(front[k], k)' <=> front'[k] \in {Absent, back'[k]} \/ Coming(k)'
  BY DEF Right, Agrees
<1>4. \A v : Right(v, k) <=> v \in {Absent, back'[k]} \/ Coming(k)'
  BY <1>2 DEF Right, Agrees
<1>5. CASE front'[k] = Absent
  BY <1>1, <1>3, <1>5 DEF Entry
<1>6. CASE /\ front'[k] = front[k] /\ (list[k] \in Clients => list'[k] \in Clients)
           /\ Ignore \in {list'[k], global'} => Ignore \in {list[k], global}
  BY <1>1, <1>3, <1>4, <1>6 DEF Entry
<1>7. CASE (\E v : front'[k] = v /\ Right(v, k)) /\ Ignore \notin {list'[k], global'}
  BY <1>1, <1>3, <1>4, <1>7 DEF Entry
<1> QED
  BY <1>5, <1>6, <1>7

LEMMA EntriesKept ==
    ASSUME Faithful, UNCHANGED <<front, list, global, inbox, svc, back, version>>
    PROVE  \A k \in Keys : Entry(k)'
BY EntryKept DEF Faithful

LEMMA IdleOwn == ASSUME NEW c \in Clients, job'[c] = IdleJob PROVE Own(c)'
BY DEF Own, Reads, Writes, PrimesHeard, IdleJob

LEMMA StartFaithful ==
    ASSUME Sound, Keen, Steady, Steady', Faithful, NEW c \in Clients, NEW op \in Operations,
           NEW a \in {"lock", "ensure", "locks", "close"}, NEW K \in SUBSET Keys, Start(c, op, a, K)
    PROVE  Faithful'
<1>1. Others(c) /\ job'[c].at = a /\ job'[c].locked = {} /\ job'[c].reply = "no" /\ job'[c].values = IdleJob.values
  BY StartEffect DEF Steady, Typed, Begins, Places
<1>2. /\ UNCHANGED <<mode, front, listening, list, global, inbox, svc, back, version>>
      /\ events' = [events EXCEPT ![c] = NoEvents] /\ job[c].at = "idle"
  BY DEF Start, mapVars, peerVars
<1>3. events = [d \in Clients |-> [k \in Keys |-> events[d][k]]]
  BY DEF Steady, Typed, Heard
<1>4. events'[c] = NoEvents /\ \A d \in Clients : d # c => events'[d] = events[d]
  BY <1>2, <1>3
<1>5. Quiet(c)
  BY <1>1, <1>2, <1>4 DEF Quiet, Waits
<1>6. \A k \in Keys : job'[c].values[k] = Absent
  BY <1>1 DEF IdleJob
<1>7. Reads(c)'
  BY <1>1, <1>6 DEF Reads, Filling
<1>8. Writes(c)'
  BY <1>1 DEF Writes
<1>9. PrimesHeard(c)'
  BY <1>1, <1>4 DEF PrimesHeard, NoEvents
<1> QED
  BY <1>2, <1>5, <1>7, <1>8, <1>9, EntriesKept, QuietStep DEF Own

LEMMA UnregisteredParts ==
    ASSUME NEW S, NEW t
    PROVE  Unregistered(S, t) \subseteq S /\ \A k \in Unregistered(S, t) : lock[k].owner \in {None, t}
BY DEF Unregistered, Free

LEMMA ExpireFaithful ==
    ASSUME Sound, Keen, Steady, Steady', Faithful, NEW c \in Clients, NEW k \in Keys, Expire(c, k)
    PROVE  Faithful'
<1>1. /\ front' = Without(front, {k}) /\ listening' = listening \ Unregistered({k}, c) /\ job[c].at = "idle"
      /\ UNCHANGED <<mode, list, global, events, inbox, svc, back, version, job>>
  BY DEF Expire, ctrlVars, peerVars
<1>2. job'[c] = IdleJob /\ Others(c)
  BY <1>1, IdleHasNothing DEF Others
<1>3. Quiet(c)
  BY <1>1, <1>2, UnregisteredParts DEF Quiet, Waits
<1>4. \A j \in Keys : front'[j] \in {Absent, front[j]}
  BY <1>1, TypesGiven, WithoutParts DEF Steady, Typed
<1>5. ASSUME NEW j \in Keys PROVE Entry(j)'
  BY <1>1, <1>4, EntryKept DEF Faithful
<1> QED
  BY <1>2, <1>3, <1>5, IdleOwn, QuietStep

LEMMA StartsFaithful ==
    ASSUME Sound, Keen, Steady, Steady', Faithful, NEW c \in Clients, Starts(c)
    PROVE  Faithful'
<1>1. mode.keys \subseteq Keys
  <2>1. mode \in [keys : SUBSET Keys, target : {"present", "auto", "all"}, ops : SUBSET Operations,
                  usage : SUBSET {"expire", "load", "refresh", "fail", "reset"}]
    BY NearCacheConstants DEF Steady, Typed, TypeOK
  <2> QED
    BY <2>1
<1>2. ASSUME NEW op \in Operations, NEW a \in {"lock", "ensure", "locks", "close"}, NEW K \in SUBSET Keys,
             Start(c, op, a, K)
      PROVE  Faithful'
  BY <1>2, StartFaithful
<1>3. ASSUME NEW k \in Keys, Get(c, k) \/ ContainsKey(c, k) \/ Put(c, k) \/ Remove(c, k) PROVE Faithful'
  <2>1. {k} \in SUBSET Keys
    OBVIOUS
  <2> QED
    BY <1>2, <1>3, <2>1 DEF Get, ContainsKey, Put, Remove, Operations
<1>4. ASSUME NEW K \in SUBSET Keys, GetAll(c, K) \/ PutAll(c, K) PROVE Faithful'
  <2>1. K \ Cached(front) \in SUBSET Keys
    OBVIOUS
  <2> QED
    BY <1>2, <1>4, <2>1 DEF GetAll, PutAll, Operations
<1>5. CASE Clear(c)
  BY <1>2, <1>5 DEF Clear, Operations
<1> QED
  BY <1>1, <1>3, <1>4, <1>5, ExpireFaithful DEF Starts

\* A step on the way to the first request keeps what the client has.
LEMMA EarlyOwn ==
    ASSUME Steady, NEW c \in Clients, Own(c), job'[c].op = job[c].op, job'[c].values = job[c].values,
           UNCHANGED <<events, inbox, svc, back>>,
           job[c].op \in {"get", "getAll"} =>
              /\ job[c].at \in Unread /\ job'[c].at \in Unread \cup {"ask"}
              /\ job'[c].at \in Listing => \A k \in job'[c].locked : k \in Keys /\ list'[k] = c,
           job[c].op \in {"put", "putAll"} =>
              /\ job'[c].at # "asked"
              /\ job'[c].at \in {"locks", "ask"} => job'[c].locked \subseteq job'[c].keys,
           job[c].op = "get" => /\ job'[c].at # "registering"
                                /\ job'[c].at \in {"lock", "assign", "ensure", "register"} =>
                                      job[c].at \in {"lock", "assign", "ensure", "register"}
    PROVE  Own(c)'
<1>1. Reads(c)'
  <2>1. SUFFICES ASSUME job[c].op \in {"get", "getAll"}
                 PROVE  /\ job'[c].at \in Unread => \A k \in Keys : job'[c].values[k] = Absent
                        /\ job'[c].at \in Listing => \A k \in job'[c].locked : list'[k] = c
                        /\ job'[c].at \in Filling => \A k \in job'[c].locked :
                              Right(job[c].values[k], k)' \/ ~ OnlyLoaded(events'[c][k])
                        /\ job'[c].at = "front" => \A k \in job'[c].keys :
                              list'[k] = c /\ (Right(job[c].values[k], k)' \/ k \in job'[c].invalid)
    BY DEF Reads, OnlyLoaded, Right, Agrees
  <2>2. \A k \in Keys : job[c].values[k] = Absent /\ job'[c].values[k] = Absent
    BY <2>1 DEF Own, Reads
  <2>3. \A k \in Keys : Right(job[c].values[k], k)'
    BY <2>2 DEF Right, Agrees
  <2>4. job'[c].at # "front" /\ (job'[c].at \in Filling => job'[c].at \in Listing)
    BY <2>1 DEF Unread, Filling, Listing
  <2> QED
    BY <2>1, <2>2, <2>3, <2>4
<1>2. Writes(c)'
  BY DEF Writes
<1>3. PrimesHeard(c)'
  BY DEF PrimesHeard, Own, IsPriming
<1> QED
  BY <1>1, <1>2, <1>3 DEF Own

LEMMA LockFaithful ==
    ASSUME Sound, Keen, Steady, Steady', Faithful, NEW c \in Clients, Lock(c)
    PROVE  Faithful'
<1>1. /\ job[c].at = "lock"
      /\ UNCHANGED <<mode, front, listening, list, global, events, inbox, svc, back, version>>
      /\ job' = [job EXCEPT ![c].at = "assign", ![c].locked = job[c].keys]
  BY DEF Lock, mapVars, peerVars
<1>2. /\ Others(c) /\ job'[c].op = job[c].op /\ job'[c].at = "assign" /\ job'[c].reply = job[c].reply
  BY LockEffect DEF Goes, Steady, Typed
<1>3. job'[c].values = job[c].values
  BY <1>1, PlaceOps DEF Steady, Typed, Working, Jobs
<1>4. Quiet(c)
  BY <1>1, <1>2 DEF Quiet, Waits
<1>5. Own(c)'
  BY <1>1, <1>2, <1>3, EarlyOwn DEF Faithful, Unread, Listing
<1> QED
  BY <1>1, <1>4, <1>5, EntriesKept, QuietStep

LEMMA AssignFaithful ==
    ASSUME Sound, Keen, Steady, Steady', Faithful, NEW c \in Clients, NEW k \in Keys, Assign(c, k)
    PROVE  Faithful'
<1>1. /\ job[c].at = "assign" /\ job[c].keys = {k}
      /\ UNCHANGED <<mode, global, events, inbox, svc, back, version>>
  BY DEF Assign, peerVars
<1>2. job[c] \in Jobs /\ job \in [Clients -> Jobs] /\ ShapedJob(job[c]) /\ job[c].op \in Ones
  BY <1>1, PlaceOps DEF Steady, Typed, Working
<1>3. job[c].locked = {k} /\ lock[k].owner = c
  <2>1. job[c].locked = {k}
    BY <1>1, <1>2 DEF ShapedJob, ShapeOfOne
  <2> QED
    BY <2>1 DEF Steady, Locking
<1>4. CASE /\ job' = [job EXCEPT ![c] = IdleJob]
           /\ UNCHANGED <<list, front, listening>>
  <2>1. Others(c) /\ job'[c] = IdleJob
    BY <1>4, EndsEffect DEF Ends, Steady, Typed
  <2>2. Quiet(c)
    BY <1>1, <1>4, <2>1 DEF Quiet, Waits, IdleJob
  <2> QED
    BY <1>1, <1>4, <2>1, <2>2, EntriesKept, IdleOwn, QuietStep
<1>5. CASE /\ list' = [list EXCEPT ![k] = ListFor(c, k)]
           /\ job' = [job EXCEPT ![c].at = IF job[c].op = "get" THEN "ensure" ELSE "ask"]
           /\ ~ (job[c].op \in {"get", "containsKey"} /\ front[k] # Absent)
           /\ IF job[c].op = "remove"
              THEN /\ front' = Without(front, {k})
                   /\ listening' = listening \ Unregistered({k} \cap Cached(front), c)
              ELSE UNCHANGED <<front, listening>>
  <2> DEFINE a == IF job[c].op = "get" THEN "ensure" ELSE "ask"
  <2>1. a \in Places /\ job' = [job EXCEPT ![c].at = a]
    BY <1>5 DEF Places
  <2>2. /\ Others(c) /\ job'[c].op = job[c].op /\ job'[c].at = a /\ job'[c].reply = job[c].reply
        /\ job'[c].locked = job[c].locked /\ job'[c].keys = job[c].keys /\ job'[c].values = job[c].values
    <3> HIDE DEF a
    <3>1. Moves(c, a) /\ job'[c].keys = job[c].keys /\ job'[c].values = job[c].values
      BY <2>1, MoveEffect DEF Steady, Typed
    <3> QED
      BY <3>1 DEF Moves, Goes
  <2>3. /\ list'[k] = ListFor(c, k) /\ ListFor(c, k) \in {c, Ignore}
        /\ \A j \in Keys \ {k} : list'[j] = list[j]
    BY <1>5, ListForParts, TypesGiven DEF Steady, Typed
  <2>4. listening' \subseteq listening /\ \A j \in listening \ listening' : lock[j].owner \in {None, c}
    BY <1>5, UnregisteredParts
  <2>5. Quiet(c)
    BY <1>1, <1>3, <2>2, <2>3, <2>4 DEF Quiet, Waits
  <2>6. Own(c)'
    <3>1. job[c].op \in {"get", "getAll"} => list'[k] = c
      BY <2>3 DEF ListFor, Fills
    <3> QED
      BY <1>1, <1>2, <1>3, <2>2, <3>1, EarlyOwn DEF Faithful, Unread, Listing, Ones
  <2>7. front \in [Keys -> Versions]
    BY TypesGiven DEF Steady, Typed
  <2>8. \A j \in Keys \ {k} : front'[j] = front[j]
    BY <1>5, <2>7, WithoutParts
  <2>9. front'[k] = Absent \/ (front'[k] = front[k] /\ list'[k] = c)
    <3>1. CASE job[c].op = "remove"
      BY <1>5, <2>7, <3>1, WithoutParts
    <3>2. CASE job[c].op # "remove" /\ front[k] # Absent
      <4>1. job[c].op \in {"get", "put"}
        BY <1>2, <1>5, <3>2 DEF Ones
      <4> QED
        BY <1>5, <2>3, <3>2, <4>1 DEF ListFor, Fills
    <3> QED
      BY <1>5, <3>1, <3>2
  <2>10. ASSUME NEW j \in Keys PROVE Entry(j)'
    <3>1. Entry(j) /\ c # Ignore /\ c # None
      BY Parties DEF Faithful
    <3>2. CASE j # k
      BY <1>1, <2>3, <2>8, <3>1, <3>2, EntryKept
    <3>3. CASE j = k
      BY <1>1, <2>9, <3>1, <3>3, EntryKept
    <3> QED
      BY <3>2, <3>3
  <2> QED
    BY <2>5, <2>6, <2>10, QuietStep
<1> QED
  BY <1>4, <1>5 DEF Assign

LEMMA EnsuresQuietly ==
    ASSUME Sound, Keen, Steady, Steady', Faithful, NEW c \in Clients,
           job[c].at = "ensure" \/ (job[c].at = "ensuring" /\ target = "all" /\ ~ Waits(c)),
           NEW r \in {job[c].reply, "no"}, Goes(c, AfterEnsure(c), job[c].locked, job[c].evicted, r),
           job'[c].values = job[c].values,
           UNCHANGED <<mode, front, listening, list, global, events, inbox, svc, back, version>>
    PROVE  Faithful'
<1>1. /\ Others(c) /\ job'[c].op = job[c].op /\ job'[c].at = AfterEnsure(c) /\ job'[c].locked = job[c].locked
      /\ job'[c].reply = r
  BY DEF Goes
<1>2. job[c].op \in {"get", "getAll"} /\ job[c].locked \subseteq Keys
  BY PlaceOps DEF Jobs
<1>3. Quiet(c)
  BY <1>1 DEF Quiet, Waits
<1>4. AfterEnsure(c) \in {"locks", "ask", "register"} /\ (target = "all" => AfterEnsure(c) # "register")
  BY DEF AfterEnsure
<1>5. job[c].at \in Listing => \A k \in job[c].locked : list[k] = c
  BY <1>2 DEF Faithful, Own, Reads
<1>6. job[c].at \in Unread /\ job[c].at \in Listing
  BY DEF Unread, Listing
<1>7. job'[c].at \in Unread \cup {"ask"} /\ job'[c].at # "registering"
  BY <1>1, <1>4 DEF Unread
<1>8. job'[c].at \in Listing => \A k \in job'[c].locked : k \in Keys /\ list'[k] = c
  BY <1>1, <1>2, <1>5, <1>6
<1>9. job[c].op = "get" => /\ job'[c].at # "registering"
                           /\ job'[c].at \in {"lock", "assign", "ensure", "register"} =>
                                  job[c].at \in {"lock", "assign", "ensure", "register"}
  BY <1>1, <1>4
<1>10. Own(c)'
  BY <1>1, <1>2, <1>6, <1>7, <1>8, <1>9, EarlyOwn DEF Faithful
<1> QED
  BY <1>3, <1>10, EntriesKept, QuietStep

LEMMA EnsuredFaithful ==
    ASSUME Sound, Keen, Steady, Steady', Faithful, NEW c \in Clients, Ensured(c)
    PROVE  Faithful'
<1>1. /\ job[c].at = "ensuring" /\ ~ Waits(c)
      /\ UNCHANGED <<mode, front, listening, list, global, events, inbox, svc, back, version>>
  BY DEF Ensured, Waits, ctrlVars, peerVars
<1>2. Goes(c, AfterEnsure(c), job[c].locked, job[c].evicted, "no") /\ job'[c].values = job[c].values
  BY EnsuredEffect DEF Steady, Typed
<1>3. target = "all"
  BY <1>1 DEF Steady, Suited
<1>4. "no" \in {job[c].reply, "no"}
  OBVIOUS
<1> QED
  BY <1>1, <1>2, <1>3, <1>4, EnsuresQuietly

LEMMA LockNextFaithful ==
    ASSUME Sound, Keen, Steady, Steady', Faithful, NEW c \in Clients, NEW k \in Keys, LockNext(c, k)
    PROVE  Faithful'
<1>1. /\ job[c].at = "locks" /\ k \in job[c].keys /\ k \notin job[c].locked
      /\ UNCHANGED <<mode, front, listening, global, events, inbox, svc, back, version>>
      /\ IF Free(k, c) THEN list' = [list EXCEPT ![k] = ListFor(c, k)] ELSE UNCHANGED list
  BY DEF LockNext, mapVars, peerVars
<1>2. /\ Others(c) /\ job'[c].op = job[c].op /\ job'[c].at = "locks" /\ job'[c].reply = job[c].reply
      /\ job'[c].locked = IF Free(k, c) THEN job[c].locked \cup {k} ELSE job[c].locked
      /\ job'[c].keys = job[c].keys /\ job'[c].values = job[c].values
  BY LockNextEffect DEF Goes, Steady, Typed
<1>3. list \in [Keys -> Clients \cup {Ignore, None}] /\ front \in [Keys -> Versions]
  BY TypesGiven DEF Steady, Typed
<1>4. \A j \in Keys : list'[j] = list[j] \/ (j = k /\ Free(k, c) /\ list'[k] = ListFor(c, k))
  BY <1>1, <1>3
<1>5. Quiet(c)
  BY <1>1, <1>2, <1>4 DEF Quiet, Waits, Free
<1>6. job[c].op \in {"getAll", "putAll"} /\ job[c].locked \subseteq Keys
  BY <1>1, PlaceOps DEF Jobs
<1>7. Own(c)'
  <2>1. CASE job[c].op = "getAll"
    <3>1. \A j \in job[c].locked : list[j] = c
      BY <1>1, <2>1 DEF Faithful, Own, Reads, Listing
    <3>2. ListFor(c, k) = c
      BY <2>1 DEF ListFor, Fills
    <3>3. \A j \in job[c].locked : list'[j] = c
      BY <1>1, <1>4, <1>6, <3>1
    <3>4. Free(k, c) => list'[k] = c
      BY <1>1, <1>3, <3>2
    <3>5. \A j \in job'[c].locked : j \in Keys /\ list'[j] = c
      BY <1>2, <1>6, <3>3, <3>4
    <3>6. job[c].at \in Unread /\ job'[c].at \in Unread
      BY <1>1, <1>2 DEF Unread
    <3> QED
      BY <1>1, <1>2, <2>1, <3>5, <3>6, EarlyOwn DEF Faithful
  <2>2. CASE job[c].op = "putAll"
    <3>1. job'[c].locked \subseteq job'[c].keys
      BY <1>1, <1>2, <2>2 DEF Faithful, Own, Writes
    <3> QED
      BY <1>1, <1>2, <2>2, <3>1, EarlyOwn DEF Faithful
  <2> QED
    BY <1>6, <2>1, <2>2
<1>8. ASSUME NEW j \in Keys PROVE Entry(j)'
  <2>1. Entry(j) /\ c # Ignore
    BY Parties DEF Faithful
  <2>2. CASE list'[j] = list[j]
    BY <1>1, <2>1, <2>2, EntryKept
  <2>3. CASE j = k /\ list'[k] = ListFor(c, k)
    <3>1. front[k] = Absent \/ ListFor(c, k) = c
      BY <1>6 DEF ListFor, Fills
    <3> QED
      BY <1>1, <2>1, <2>3, <3>1, EntryKept
  <2> QED
    BY <1>4, <2>2, <2>3
<1> QED
  BY <1>5, <1>7, <1>8, QuietStep

LEMMA LocksDoneFaithful ==
    ASSUME Sound, Keen, Steady, Steady', Faithful, NEW c \in Clients, LocksDone(c)
    PROVE  Faithful'
<1>1. /\ job[c].at = "locks"
      /\ UNCHANGED <<mode, front, listening, list, global, events, inbox, svc, back, version>>
      /\ job' = [job EXCEPT ![c].at = IF job[c].op = "getAll" /\ target # "all" THEN "register" ELSE "ask"]
  BY DEF LocksDone, ctrlVars, peerVars
<1> DEFINE a == IF job[c].op = "getAll" /\ target # "all" THEN "register" ELSE "ask"
<1>2. a \in Places /\ a \in {"register", "ask"} /\ (job[c].op = "putAll" => a = "ask")
  BY DEF Places
<1>3. job' = [job EXCEPT ![c].at = a]
  BY <1>1
<1> HIDE DEF a
<1>4. /\ Others(c) /\ job'[c].op = job[c].op /\ job'[c].at = a /\ job'[c].reply = job[c].reply
      /\ job'[c].locked = job[c].locked /\ job'[c].keys = job[c].keys /\ job'[c].values = job[c].values
  BY <1>2, <1>3, MoveEffect DEF Moves, Goes, Steady, Typed
<1>5. Quiet(c)
  BY <1>1, <1>4 DEF Quiet, Waits
<1>6. job[c].op \in {"getAll", "putAll"} /\ job[c].locked \subseteq Keys
  BY <1>1, PlaceOps DEF Jobs
<1>7. job[c].op = "getAll" => /\ job[c].at \in Unread /\ job'[c].at \in Unread \cup {"ask"}
                              /\ \A k \in job'[c].locked : k \in Keys /\ list'[k] = c
  BY <1>1, <1>2, <1>4, <1>6 DEF Faithful, Own, Reads, Unread, Listing
<1>8. job[c].op = "putAll" => /\ job'[c].at # "asked"
                              /\ job'[c].locked \subseteq job'[c].keys
  BY <1>1, <1>2, <1>4 DEF Faithful, Own, Writes
<1>9. Own(c)'
  BY <1>1, <1>4, <1>6, <1>7, <1>8, EarlyOwn DEF Faithful
<1> QED
  BY <1>1, <1>5, <1>9, EntriesKept, QuietStep

LEMMA RegisteredFaithful ==
    ASSUME Sound, Keen, Steady, Steady', Faithful, NEW c \in Clients, Registered(c)
    PROVE  Faithful'
<1> DEFINE a == IF job[c].keys \subseteq Primed(c) THEN "finish" ELSE "ask"
<1>1. /\ job[c].at = "registering" /\ ~ Waits(c)
      /\ UNCHANGED <<mode, front, listening, list, global, inbox, svc, back, version>>
      /\ events' = [events EXCEPT ![c] = [k \in Keys |-> Unprimed(c, k)]]
  BY DEF Registered, Waits, mapVars, peerVars
<1>2. /\ Others(c) /\ job'[c].op = job[c].op /\ job'[c].at = a /\ job'[c].reply = "no"
      /\ job'[c].locked = job[c].locked
      /\ job'[c].values = [k \in Keys |-> IF k \in Primed(c) THEN Priming(c, k).value ELSE Absent]
  BY RegisteredEffect DEF Goes, Steady
<1>3. a \in {"finish", "ask"}
  OBVIOUS
<1> HIDE DEF a
<1>4. job[c].op = "get" /\ job[c].locked \subseteq Keys
  <2>1. target # "all"
    BY <1>1 DEF Steady, Suited
  <2> QED
    BY <1>1, <2>1, PlaceOps, SoundHas DEF Jobs
<1>5. \A d \in Clients : d # c => events'[d] = events[d]
  <2>1. events = [d \in Clients |-> [k \in Keys |-> events[d][k]]]
    BY DEF Steady, Typed, Heard
  <2> QED
    BY <1>1, <2>1
<1>6. Quiet(c)
  BY <1>1, <1>2, <1>5 DEF Quiet, Waits
<1>7. \A k \in job[c].locked : Right(job'[c].values[k], k)
  <2>1. SUFFICES ASSUME NEW k \in job[c].locked, k \in Primed(c) PROVE Right(Priming(c, k).value, k)
    BY <1>2, <1>4 DEF Right, Agrees
  <2>2. k \in Keys /\ events[c][k] \in Seq(Notes)
    BY <1>4 DEF Steady, Typed, Heard, Sifted
  <2>3. PICK i \in Primes(c, k) : Priming(c, k) = events[c][k][i]
    BY <2>1, <2>2, PrimingType DEF Steady, Typed
  <2>4. i \in DOMAIN events[c][k] /\ IsPriming(events[c][k][i]) /\ i = Len(events[c][k])
    BY <1>4, <2>3 DEF Primes
  <2>5. i \in Nat
    BY <2>2, <2>4, LenProperties
  <2> QED
    BY <1>1, <1>4, <2>3, <2>4, <2>5 DEF Faithful, Own, PrimesHeard
<1>8. \A k \in job[c].locked : Right(job[c].values[k], k)'
  BY <1>1, <1>2, <1>7 DEF Right, Agrees, Coming, Carried, After
<1>9. Reads(c)'
  <2>1. \A k \in job[c].locked : list[k] = c
    BY <1>1, <1>4 DEF Faithful, Own, Reads, Listing
  <2> QED
    BY <1>1, <1>2, <1>3, <1>8, <2>1 DEF Reads, Unread
<1>10. Own(c)'
  BY <1>2, <1>3, <1>4, <1>9 DEF Own, Writes, PrimesHeard
<1> QED
  BY <1>1, <1>6, <1>10, EntriesKept, QuietStep

\* A client that is done with its values has nothing to look after.
LEMMA DoneOwn ==
    ASSUME NEW c \in Clients, job'[c].at \in {"release", "terminated"} PROVE Own(c)'
BY DEF Own, Reads, Writes, PrimesHeard, Unread, Listing, Filling

\* Nobody has locked a key while all are locked.
LEMMA OpenWhenLocked ==
    ASSUME Steady, NEW k \in Keys, lock[k].owner # None
    PROVE  global # Ignore /\ global = None
BY Parties DEF Steady, Closed, Unlocked

\* A key whose list its client gives up, with the value it leaves in the front map.
LEMMA EntryGivenUp ==
    ASSUME Steady, NEW c \in Clients, NEW k \in Keys, Entry(k), lock[k].owner = c,
           UNCHANGED <<global, inbox, svc, back, version>>, list'[k] = None,
           front'[k] = Absent \/ \E v : front'[k] = v /\ Right(v, k)
    PROVE  Entry(k)'
<1>1. global' # Ignore /\ list'[k] # Ignore
  BY OpenWhenLocked, Parties
<1> QED
  BY <1>1, EntryKept

LEMMA FinishGetFaithful ==
    ASSUME Sound, Keen, Steady, Steady', Faithful, NEW c \in Clients, NEW k \in Keys, FinishGet(c, k)
    PROVE  Faithful'
<1>1. /\ job[c].op = "get" /\ k \in job[c].locked
      /\ job[c].at = "finish" \/ (job[c].at = "asked" /\ job[c].reply = "ok")
      /\ list' = [list EXCEPT ![k] = None] /\ events' = [events EXCEPT ![c] = NoEvents]
      /\ UNCHANGED <<mode, global, inbox, svc, back, version>>
  BY FinishGetEffect DEF FinishGet, Steady, peerVars
<1>2. ~ Waits(c) /\ job[c].at \in Listing /\ job[c].at \in Filling
  BY <1>1, ReadyHas DEF Filling
<1>3. lock[k].owner = c /\ front[k] = Absent
  BY <1>1, <1>2 DEF Steady, Locking, Missing
<1>4. /\ Others(c) /\ job'[c].at = "release" /\ job'[c].reply = job[c].reply
      /\ listening' \subseteq listening /\ \A j \in listening \ listening' : lock[j].owner \in {None, c}
  <2>1. listening' = listening \/ listening' = listening \ Unregistered({k}, c)
    BY FinishGetEffect DEF Steady
  <2>2. listening' \subseteq listening /\ \A j \in listening \ listening' : lock[j].owner \in {None, c}
    BY <2>1, UnregisteredParts
  <2>3. Others(c) /\ job'[c].at = "release" /\ job'[c].reply = job[c].reply
    BY FinishGetEffect DEF Goes, Moves, Steady
  <2> QED
    BY <2>2, <2>3
<1>5. list \in [Keys -> Clients \cup {Ignore, None}] /\ front \in [Keys -> Versions]
  BY TypesGiven DEF Steady, Typed
<1>6. /\ \A j \in Keys \ {k} : front'[j] \in {Absent, front[j]} /\ list'[j] = list[j]
      /\ list'[k] = None
      /\ front'[k] = Absent \/ \E v : front'[k] = v /\ Right(v, k)
  <2>1. list'[k] = None /\ \A j \in Keys \ {k} : list'[j] = list[j]
    BY <1>1, <1>5
  <2>2. CASE /\ OnlyLoaded(events[c][k])
             /\ \E X, P, G \in SUBSET Keys : Puts(c, k, X, P, G)
    <3>1. PICK X \in SUBSET Keys, P \in SUBSET Keys, G \in SUBSET Keys : Puts(c, k, X, P, G)
      BY <2>2
    <3>2. \A j \in Keys \ {k} : front'[j] \in {Absent, front[j]}
      BY <3>1, PutsParts
    <3>3. front'[k] \in {Absent, job[c].values[k]}
      BY <3>1 DEF Puts, FrontWith
    <3>4. Right(job[c].values[k], k)
      BY <1>1, <1>2, <2>2 DEF Faithful, Own, Reads
    <3> QED
      BY <2>1, <3>2, <3>3, <3>4
  <2>3. CASE UNCHANGED front
    BY <1>3, <2>1, <2>3
  <2> QED
    BY <2>2, <2>3, FinishGetEffect DEF Steady
<1>7. \A d \in Clients : d # c => events'[d] = events[d]
  <2>1. events = [d \in Clients |-> [j \in Keys |-> events[d][j]]]
    BY DEF Steady, Typed, Heard
  <2> QED
    BY <1>1, <2>1
<1>8. Quiet(c)
  BY <1>1, <1>2, <1>3, <1>4, <1>6, <1>7 DEF Quiet
<1>9. ASSUME NEW j \in Keys PROVE Entry(j)'
  <2>1. Entry(j)
    BY DEF Faithful
  <2>2. CASE j # k
    BY <1>1, <1>6, <2>1, <2>2, EntryKept
  <2>3. CASE j = k
    BY <1>1, <1>3, <1>6, <2>1, <2>3, EntryGivenUp
  <2> QED
    BY <2>2, <2>3
<1> QED
  BY <1>4, <1>8, <1>9, DoneOwn, QuietStep

LEMMA JudgeFaithful ==
    ASSUME Sound, Keen, Steady, Steady', Faithful, NEW c \in Clients, Judge(c)
    PROVE  Faithful'
<1> DEFINE a == IF job[c].locked = {} THEN "release" ELSE "front"
<1>1. /\ Goes(c, a, job[c].locked, job[c].evicted, job[c].reply)
      /\ job'[c].keys = job[c].locked /\ job'[c].values = job[c].values
      /\ job'[c].invalid = {k \in Keys : ~OnlyLoaded(events[c][k])}
  BY JudgeEffect DEF Steady
<1>2. /\ events' = [events EXCEPT ![c] = NoEvents] /\ job[c].op = "getAll"
      /\ UNCHANGED <<mode, front, listening, list, global, inbox, svc, back, version>>
  BY DEF Judge, Ready, mapVars, peerVars
<1>3. a \in {"release", "front"}
  OBVIOUS
<1> HIDE DEF a
<1>4. /\ Others(c) /\ job'[c].op = "getAll" /\ job'[c].at = a /\ job'[c].reply = job[c].reply
      /\ job[c].locked \subseteq Keys
  BY <1>1, <1>2, PlaceOps DEF Goes, Jobs
<1>5. ~ Waits(c) /\ job[c].at \in Listing /\ job[c].at \in Filling
  <2>1. job[c].at = "finish" \/ (job[c].at = "asked" /\ job[c].reply = "ok")
    BY JudgeEffect DEF Steady
  <2> QED
    BY <2>1, ReadyHas DEF Filling
<1>6. \A d \in Clients : d # c => events'[d] = events[d]
  <2>1. events = [d \in Clients |-> [j \in Keys |-> events[d][j]]]
    BY DEF Steady, Typed, Heard
  <2> QED
    BY <1>2, <2>1
<1>7. Quiet(c)
  BY <1>2, <1>4, <1>5, <1>6 DEF Quiet
<1>8. \A k \in job[c].locked : list[k] = c /\ (Right(job[c].values[k], k) \/ ~ OnlyLoaded(events[c][k]))
  BY <1>2, <1>5 DEF Faithful, Own, Reads
<1>9. \A k \in job[c].locked : Right(job[c].values[k], k) => Right(job[c].values[k], k)'
  BY <1>1, <1>2 DEF Right, Agrees, Coming, Carried, After
<1>10. \A k \in job'[c].keys : list'[k] = c /\ (Right(job[c].values[k], k)' \/ k \in job'[c].invalid)
  BY <1>1, <1>2, <1>4, <1>8, <1>9
<1>11. Reads(c)'
  BY <1>1, <1>3, <1>4, <1>10 DEF Reads, Unread, Listing, Filling
<1>12. Own(c)'
  BY <1>4, <1>11 DEF Own, Writes, PrimesHeard
<1> QED
  BY <1>2, <1>7, <1>12, EntriesKept, QuietStep

LEMMA FrontKeyFaithful ==
    ASSUME Sound, Keen, Steady, Steady', Faithful, NEW c \in Clients, NEW k \in Keys, FrontKey(c, k)
    PROVE  Faithful'
<1> DEFINE a == IF job[c].keys = {k} THEN "release" ELSE "front"
<1>1. /\ job[c].at = "front" /\ k \in job[c].keys /\ job'[c].keys = job[c].keys \ {k}
      /\ job'[c].values = job[c].values /\ job'[c].invalid = job[c].invalid
  BY FrontKeyEffect DEF Steady
<1>2. /\ list' = [list EXCEPT ![k] = None]
      /\ UNCHANGED <<mode, listening, global, events, inbox, svc, back, version>>
  BY DEF FrontKey, peerVars
<1>3. a \in {"release", "front"}
  OBVIOUS
<1>4. /\ Others(c) /\ job'[c].op = job[c].op /\ job'[c].at = a /\ job'[c].reply = job[c].reply
  BY FrontKeyEffect DEF Goes, Steady
<1> HIDE DEF a
<1>5. job[c].op = "getAll" /\ job[c].keys \subseteq job[c].locked /\ job[c].locked \subseteq Keys
  BY <1>1, PlaceOps DEF ShapedJob, ShapeOfGetAll, Jobs
<1>6. lock[k].owner = c
  BY <1>1, <1>5 DEF Steady, Locking
<1>7. \A j \in job[c].keys : list[j] = c /\ (Right(job[c].values[j], j) \/ j \in job[c].invalid)
  BY <1>1, <1>5 DEF Faithful, Own, Reads
<1>8. list'[k] = None /\ \A j \in Keys \ {k} : list'[j] = list[j]
  BY <1>2, TypesGiven DEF Steady, Typed
<1>9. /\ \A j \in Keys \ {k} : front'[j] \in {Absent, front[j]}
      /\ front'[k] = Absent \/ \E v : front'[k] = v /\ Right(v, k)
  <2>1. CASE k \notin job[c].invalid /\ \E X, P, G \in SUBSET Keys : Puts(c, k, X, P, G)
    <3>1. PICK X \in SUBSET Keys, P \in SUBSET Keys, G \in SUBSET Keys : Puts(c, k, X, P, G)
      BY <2>1
    <3>2. \A j \in Keys \ {k} : front'[j] \in {Absent, front[j]}
      BY <3>1, PutsParts
    <3>3. front'[k] \in {Absent, job[c].values[k]}
      BY <3>1 DEF Puts, FrontWith
    <3> QED
      BY <1>1, <1>7, <2>1, <3>2, <3>3
  <2>2. CASE front' = Without(front, {k})
    BY <2>2, TypesGiven, WithoutParts DEF Steady, Typed
  <2> QED
    BY <2>1, <2>2, FrontKeyEffect DEF Steady
<1>10. Quiet(c)
  BY <1>1, <1>2, <1>4, <1>6, <1>8 DEF Quiet, Waits
<1>11. Reads(c)'
  <2>1. \A j \in job[c].keys : Right(job[c].values[j], j) => Right(job[c].values[j], j)'
    BY <1>1, <1>2 DEF Right, Agrees, Coming, Carried, After
  <2>2. \A j \in job'[c].keys : list'[j] = c /\ (Right(job[c].values[j], j)' \/ j \in job'[c].invalid)
    BY <1>1, <1>5, <1>7, <1>8, <2>1
  <2> QED
    BY <1>1, <1>3, <1>4, <2>2 DEF Reads, Unread, Listing, Filling
<1>12. Own(c)'
  BY <1>4, <1>5, <1>11 DEF Own, Writes, PrimesHeard
<1>13. ASSUME NEW j \in Keys PROVE Entry(j)'
  <2>1. Entry(j)
    BY DEF Faithful
  <2>2. CASE j # k
    BY <1>2, <1>8, <1>9, <2>1, <2>2, EntryKept
  <2>3. CASE j = k
    BY <1>2, <1>6, <1>8, <1>9, <2>1, <2>3, EntryGivenUp
  <2> QED
    BY <2>2, <2>3
<1> QED
  BY <1>10, <1>12, <1>13, QuietStep

LEMMA ReleaseFaithful ==
    ASSUME Sound, Keen, Steady, Steady', Faithful, NEW c \in Clients, Release(c)
    PROVE  Faithful'
<1>1. /\ job[c].at = "release"
      /\ UNCHANGED <<mode, front, list, global, events, inbox, svc, back, version>>
      /\ listening' \in {listening, listening \ job[c].evicted}
      /\ job' \in {[job EXCEPT ![c].at = "terminated"], [job EXCEPT ![c] = IdleJob]}
  BY DEF Release, peerVars
<1>2. Others(c) /\ job'[c].reply \in {job[c].reply, "no"} /\ Own(c)'
  <2>1. CASE job' = [job EXCEPT ![c].at = "terminated"]
    <3>1. Moves(c, "terminated")
      BY <2>1, MoveEffect DEF Steady, Typed, Places
    <3> QED
      BY <3>1, DoneOwn DEF Moves, Goes
  <2>2. CASE job' = [job EXCEPT ![c] = IdleJob]
    <3>1. Others(c) /\ job'[c] = IdleJob
      BY <2>2, EndsEffect DEF Ends, Steady, Typed
    <3>2. IdleJob.reply = "no"
      BY DEF IdleJob
    <3>3. Own(c)'
      BY <3>1, IdleOwn
    <3> QED
      BY <3>1, <3>2, <3>3
  <2> QED
    BY <1>1, <2>1, <2>2
<1>3. \A k \in job[c].evicted : lock[k].owner = c
  BY DEF Steady, Locking
<1>4. Quiet(c)
  BY <1>1, <1>2, <1>3 DEF Quiet, Waits
<1> QED
  BY <1>1, <1>2, <1>4, EntriesKept, QuietStep

\* The value a put leaves in the front map is right: its only event was its own.
LEMMA FinalizePutValue ==
    ASSUME Sound, Keen, Steady, Faithful, NEW c \in Clients, NEW k \in job[c].locked,
           job[c].op \in {"put", "putAll"}, job[c].at = "asked", job[c].reply = "ok",
           list[k] = c, NEW X \in SUBSET Keys,
           (\E P, D \in SUBSET Keys : KeepsPut(c, k, X, P, D)) \/ RemovesPut(c, k, X)
    PROVE  front'[k] = Absent \/ \E v : front'[k] = v /\ Right(v, k)
<1>1. k \in Keys /\ front \in [Keys -> Versions]
  BY ReadersOwn, TypesGiven DEF Steady, Typed
<1>2. CASE RemovesPut(c, k, X)
  BY <1>1, <1>2, WithoutParts DEF RemovesPut
<1>3. ASSUME NEW P \in SUBSET Keys, NEW D \in SUBSET Keys, KeepsPut(c, k, X, P, D)
      PROVE  front'[k] = Absent \/ \E v : front'[k] = v /\ Right(v, k)
  <2>1. front'[k] \in {Absent, job[c].values[k]} /\ (k \in D => front'[k] = Absent)
    BY <1>1, <1>3 DEF KeepsPut, FrontWith
  <2>2. CASE k \in listening
    <3>1. Wrote(c, k)
      BY <2>2 DEF Faithful, Own, Writes
    <3>2. events[c][k] # <<>> /\ (Right(job[c].values[k], k) \/ Len(events[c][k]) >= 2)
      BY <3>1 DEF Wrote
    <3>3. events[c][k] \in Seq(Notes)
      BY <1>1 DEF Steady, Typed, Heard, Sifted
    <3>4. Len(events[c][k]) # 0
      BY <3>2, <3>3, EmptySeq
    <3>5. Len(events[c][k]) = 1
      BY <1>3, <3>4 DEF KeepsPut, ValidPut
    <3>6. Right(job[c].values[k], k)
      BY <3>2, <3>5
    <3> QED
      BY <2>1, <3>6
  <2>3. CASE k \notin listening
    <3>1. front[k] = Absent /\ target = "present"
      BY <1>1, <2>3 DEF Keen, Tracks
    <3>2. Without(front, X)[k] = Absent
      BY <1>1, <3>1, WithoutParts
    <3>3. k \in D
      BY <1>3, <3>1, <3>2 DEF KeepsPut, TakenBack
    <3> QED
      BY <2>1, <3>3
  <2> QED
    BY <2>2, <2>3
<1> QED
  BY <1>2, <1>3

LEMMA FinalizePutFaithful ==
    ASSUME Sound, Keen, Steady, Steady', Faithful, NEW c \in Clients, NEW k \in Keys, FinalizePut(c, k)
    PROVE  Faithful'
<1>1. /\ job[c].op \in {"put", "putAll"} /\ k \in job[c].locked
      /\ job[c].at = "finish" \/ (job[c].at = "asked" /\ job[c].reply = "ok")
      /\ list' = [list EXCEPT ![k] = None] /\ events' = [events EXCEPT ![c][k] = <<>>]
      /\ UNCHANGED <<mode, strategy, global, inbox, svc, back, version>>
  BY FinalizePutEffect DEF FinalizePut, Steady, peerVars
<1>2. job[c].at = "asked" /\ job[c].reply = "ok" /\ ~ Waits(c) /\ job[c].at \in Listing
  BY <1>1, PlaceOps, ReadyHas
<1>3. lock[k].owner = c
  BY <1>1 DEF Steady, Locking
<1>4. list'[k] = None /\ \A j \in Keys \ {k} : list'[j] = list[j]
  BY <1>1, TypesGiven DEF Steady, Typed
<1>5. \A j \in Keys \ {k} : front'[j] \in {Absent, front[j]}
  BY FinalizePutFront
<1>6. /\ listening' \subseteq listening /\ \A j \in listening \ listening' : lock[j].owner \in {None, c}
      /\ front'[k] = Absent \/ \E v : front'[k] = v /\ Right(v, k)
  <2>1. CASE list[k] = Ignore
    <3>1. UNCHANGED <<front, listening>>
      BY <2>1 DEF FinalizePut
    <3>2. front[k] = Absent
      BY <2>1 DEF Faithful, Entry
    <3> QED
      BY <3>1, <3>2
  <2>2. CASE list[k] # Ignore
    <3>1. list[k] = c
      BY <1>1, <1>2, <2>2, PutHas
    <3>2. PICK X \in SUBSET Keys : (\E P, D \in SUBSET Keys : KeepsPut(c, k, X, P, D)) \/ RemovesPut(c, k, X)
      BY <2>2, FinalizePutEffect DEF Steady
    <3>3. \E T : listening' = listening \ Unregistered(T, c)
      BY <3>2 DEF KeepsPut, RemovesPut
    <3>4. listening' \subseteq listening /\ \A j \in listening \ listening' : lock[j].owner \in {None, c}
      BY <3>3, UnregisteredParts
    <3>5. front'[k] = Absent \/ \E v : front'[k] = v /\ Right(v, k)
      BY <1>1, <1>2, <3>1, <3>2, FinalizePutValue
    <3> QED
      BY <3>4, <3>5
  <2> QED
    BY <2>1, <2>2
<1>7. /\ \A d \in Clients : d # c => events'[d] = events[d]
      /\ \A j \in Keys \ {k} : events'[c][j] = events[c][j]
  <2>1. events = [d \in Clients |-> [j \in Keys |-> events[d][j]]]
    BY DEF Steady, Typed, Heard
  <2>2. events[c] = [j \in Keys |-> events[c][j]]
    BY <2>1
  <2> QED
    BY <1>1, <2>1, <2>2
<1>8. \/ Ends(c)
      \/ /\ Others(c) /\ job'[c].op = job[c].op /\ job'[c].at = job[c].at /\ job'[c].reply = job[c].reply
         /\ job'[c].values = job[c].values
  BY FinalizePutEffect DEF Goes, Steady
<1>9. IdleJob.reply = "no"
  BY DEF IdleJob
<1>10. Others(c) /\ job'[c].reply \in {job[c].reply, "no"}
  BY <1>8, <1>9 DEF Ends
<1>11. Quiet(c)
  BY <1>1, <1>2, <1>3, <1>4, <1>6, <1>7, <1>10 DEF Quiet
<1>12. Own(c)'
  <2>1. CASE Ends(c)
    BY <2>1, IdleOwn DEF Ends
  <2>2. CASE /\ job'[c].op = job[c].op /\ job'[c].at = job[c].at /\ job'[c].reply = job[c].reply
             /\ job'[c].values = job[c].values
    <3>1. ASSUME NEW j \in listening', list'[j] = c PROVE Wrote(c, j)'
      <4>1. j \in listening /\ j \in Keys /\ j # k /\ list[j] = c
        BY <1>4, <1>6, <3>1, TypesGiven, Parties DEF Steady, Typed
      <4>2. Wrote(c, j) /\ events'[c][j] = events[c][j]
        BY <1>1, <1>2, <1>7, <4>1 DEF Faithful, Own, Writes
      <4>3. Right(job[c].values[j], j)' = Right(job[c].values[j], j)
        BY <1>1, <2>2 DEF Right, Agrees, Coming, Carried, After
      <4>4. \A r : /\ Before(r, j)' = Before(r, j) /\ After(r, j)' = After(r, j) /\ Carried(j)' = Carried(j)
                   /\ Agrees(job[c].values[j], j)' = Agrees(job[c].values[j], j)
        BY <1>1, <2>2 DEF Before, After, Carried, Agrees
      <4>5. Answers' = Answers
        BY <1>1 DEF Answers
      <4> QED
        BY <1>1, <2>2, <4>2, <4>3, <4>4, <4>5 DEF Wrote
    <3>2. Writes(c)'
      BY <1>2, <2>2, <3>1 DEF Writes
    <3> QED
      BY <1>1, <2>2, <3>2 DEF Own, Reads, PrimesHeard
  <2> QED
    BY <1>8, <2>1, <2>2
<1>13. ASSUME NEW j \in Keys PROVE Entry(j)'
  <2>1. Entry(j)
    BY DEF Faithful
  <2>2. CASE j # k
    BY <1>1, <1>4, <1>5, <2>1, <2>2, EntryKept
  <2>3. CASE j = k
    BY <1>1, <1>3, <1>4, <1>6, <2>1, <2>3, EntryGivenUp
  <2> QED
    BY <2>2, <2>3
<1> QED
  BY <1>11, <1>12, <1>13, QuietStep

\* An operation that will not fill the front map has no value of its keys there.
LEMMA IgnoresHas ==
    ASSUME Steady, Faithful, NEW c \in Clients, job[c].op \notin {"get", "getAll", "put", "putAll"},
           job[c].at \in Listing, NEW k \in job[c].locked
    PROVE  front[k] = Absent
<1>1. k \in Keys /\ lock[k].owner = c /\ list[k] # None
  BY PlaceOps DEF Jobs, Steady, Locking, Listed
<1>2. list[k] \notin Clients
  BY <1>1 DEF Steady, Listed, Locking
<1>3. list[k] = Ignore
  BY <1>1, <1>2, TypesGiven DEF Steady, Typed
<1> QED
  BY <1>1, <1>3 DEF Faithful, Entry

LEMMA FinishFaithful ==
    ASSUME Sound, Keen, Steady, Steady', Faithful, NEW c \in Clients, Finish(c)
    PROVE  Faithful'
<1>1. /\ job[c].op \in {"containsKey", "remove", "putAll"}
      /\ job[c].at = "finish" \/ (job[c].at = "asked" /\ job[c].reply = "ok")
      /\ job[c].op = "putAll" => job[c].locked = {}
      /\ list' = Cleared(job[c].locked) /\ job' = [job EXCEPT ![c] = IdleJob]
      /\ UNCHANGED <<mode, front, listening, global, events, inbox, svc, back, version>>
  BY DEF Finish, Ready, mapVars, peerVars
<1>2. ~ Waits(c) /\ job[c].at \in Listing
  BY <1>1, ReadyHas
<1>3. Others(c) /\ job'[c] = IdleJob
  BY <1>1, EndsEffect DEF Ends, Steady, Typed
<1>4. \A k \in job[c].locked : lock[k].owner = c /\ front[k] = Absent
  BY <1>1, <1>2, IgnoresHas DEF Steady, Locking
<1>5. \A k \in Keys : list'[k] = IF k \in job[c].locked THEN None ELSE list[k]
  BY <1>1, ClearedParts DEF Steady, Typed
<1>6. job'[c].reply = "no"
  BY <1>3 DEF IdleJob
<1>7. Quiet(c)
  BY <1>1, <1>2, <1>3, <1>4, <1>5, <1>6 DEF Quiet
<1>8. ASSUME NEW k \in Keys PROVE Entry(k)'
  <2>1. Entry(k)
    BY DEF Faithful
  <2>2. CASE k \in job[c].locked
    BY <1>1, <1>4, <2>1, <2>2, EntryKept
  <2>3. CASE k \notin job[c].locked
    BY <1>1, <1>5, <2>1, <2>3, EntryKept
  <2> QED
    BY <2>2, <2>3
<1> QED
  BY <1>3, <1>7, <1>8, IdleOwn, QuietStep

LEMMA FailFaithful ==
    ASSUME Sound, Keen, Steady, Steady', Faithful, NEW c \in Clients, Fail(c)
    PROVE  Faithful'
<1> DEFINE S == job[c].locked
<1>1. /\ job[c].reply = "error" /\ job[c].op # "clear" /\ job' = [job EXCEPT ![c] = IdleJob]
      /\ list' = [k \in Keys |-> IF k \notin S THEN list[k]
                                 ELSE IF job[c].at = "asked" THEN None ELSE Ignore]
      /\ front' = IF job[c].op \in {"put", "putAll"} THEN Without(front, S) ELSE front
      /\ listening' = CASE job[c].at = "ensuring"    -> {}
                        [] job[c].at = "registering" -> listening \ S
                        [] job[c].at = "asked" /\ job[c].op \in {"get", "getAll"}
                                                     -> listening \ Unregistered(S, c)
                        [] OTHER -> listening \ Unregistered(S \cap (Cached(front) \ Cached(front')), c)
      /\ events' = [events EXCEPT ![c] = NoEvents]
      /\ UNCHANGED <<mode, global, inbox, svc, back, version>>
  BY DEF Fail, peerVars
<1>2. job[c].at \in {"ensuring", "registering", "asked"} /\ ~ Waits(c) /\ job[c].at \in Listing
  BY <1>1, PlaceOps DEF ShapedJob, Waiting, Waits, Listing
<1>3. Others(c) /\ job'[c] = IdleJob
  BY <1>1, EndsEffect DEF Ends, Steady, Typed
<1>4. job'[c].reply = "no"
  BY <1>3 DEF IdleJob
<1>5. \A k \in S : lock[k].owner = c /\ k \in Keys
  BY PlaceOps DEF Steady, Locking, Jobs
<1>6. job[c].op # "getAll"
  BY <1>1, SoundHas DEF Faithful, Certain
<1>7. \A k \in Keys : front'[k] \in {Absent, front[k]} /\ (k \in S => front'[k] = Absent)
  <2>1. CASE job[c].op \in {"put", "putAll"}
    BY <1>1, <2>1, TypesGiven, WithoutParts DEF Steady, Typed
  <2>2. CASE job[c].op = "get"
    BY <1>1, <1>2, <2>2 DEF Steady, Missing
  <2>3. CASE job[c].op \notin {"get", "getAll", "put", "putAll"}
    BY <1>1, <1>2, <2>3, IgnoresHas
  <2> QED
    BY <1>6, <2>1, <2>2, <2>3
<1>8. \A k \in Keys \ S : list'[k] = list[k]
  BY <1>1
<1>9. listening' \subseteq listening /\ \A k \in listening \ listening' : lock[k].owner \in {None, c} \/ target = "all"
  <2>1. CASE job[c].at = "ensuring"
    <3>1. target = "all" /\ listening' = {}
      BY <1>1, <2>1 DEF Steady, Suited
    <3> QED
      BY <3>1
  <2>2. CASE job[c].at = "registering"
    <3>1. listening' = listening \ S
      BY <1>1, <2>2
    <3> QED
      BY <1>5, <3>1
  <2>3. CASE job[c].at = "asked"
    <3>1. \E T : listening' = listening \ Unregistered(T, c)
      BY <1>1, <2>3
    <3> QED
      BY <3>1, UnregisteredParts
  <2> QED
    BY <1>2, <2>1, <2>2, <2>3
<1>10. \A d \in Clients : d # c => events'[d] = events[d]
  <2>1. events = [d \in Clients |-> [j \in Keys |-> events[d][j]]]
    BY DEF Steady, Typed, Heard
  <2> QED
    BY <1>1, <2>1
<1> HIDE DEF S
<1>11. Quiet(c)
  BY <1>1, <1>2, <1>3, <1>4, <1>5, <1>8, <1>9, <1>10 DEF Quiet
<1>12. ASSUME NEW k \in Keys PROVE Entry(k)'
  <2>1. Entry(k) /\ front'[k] \in {Absent, front[k]} /\ UNCHANGED <<global, inbox, svc, back, version>>
    BY <1>1, <1>7 DEF Faithful
  <2>2. CASE k \in S
    BY <1>7, <2>1, <2>2, EntryKept
  <2>3. CASE k \notin S
    BY <1>8, <2>1, <2>3, EntryKept
  <2> QED
    BY <2>2, <2>3
<1> QED
  BY <1>3, <1>11, <1>12, IdleOwn, QuietStep

\* A clear has no values.
LEMMA ClearOwn == ASSUME NEW c \in Clients, job'[c].op = "clear" PROVE Own(c)'
BY DEF Own, Reads, Writes, PrimesHeard

LEMMA CloseFaithful ==
    ASSUME Sound, Keen, Steady, Steady', Faithful, NEW c \in Clients, Close(c) \/ CloseFails(c)
    PROVE  Faithful'
<1>1. job[c].at = "close" /\ job' = [job EXCEPT ![c].at = "ask"] /\ "ask" \in Places
  BY DEF Close, CloseFails, Places
<1>2. job[c].op = "clear"
  BY <1>1, PlaceOps
<1>3. Others(c) /\ job'[c].op = "clear" /\ job'[c].reply = job[c].reply
  BY <1>1, <1>2, MoveEffect DEF Moves, Goes, Steady, Typed
<1>4. CASE CloseFails(c)
  <2>1. UNCHANGED <<mode, front, listening, list, global, events, inbox, svc, back, version>>
    BY <1>4 DEF CloseFails, mapVars, ctrlVars, peerVars
  <2>2. Quiet(c)
    BY <1>1, <1>3, <2>1 DEF Quiet, Waits
  <2> QED
    BY <1>3, <2>1, <2>2, ClearOwn, EntriesKept, QuietStep
<1>5. CASE Close(c)
  <2>1. /\ \A k \in Keys : lock[k] = Unlocked
        /\ front' = Without(front, Keys)
        /\ listening' \subseteq listening
        /\ UNCHANGED <<mode, list, events, inbox, svc, back, version>>
    <3>1. strategy \in {"none", "present", "all"}
      BY TypesGiven DEF Steady, Typed
    <3>2. listening' \subseteq listening
      BY <1>5, <3>1 DEF Close
    <3> QED
      BY <1>5, <3>2 DEF Close, peerVars
  <2>2. \A k \in Keys : front'[k] = Absent /\ lock[k].owner = None
    BY <2>1, TypesGiven, WithoutParts DEF Unlocked, Steady, Typed
  <2>3. Quiet(c)
    BY <1>1, <1>3, <2>1, <2>2, TypesGiven DEF Quiet, Waits, Steady, Typed
  <2>4. ASSUME NEW k \in Keys PROVE Entry(k)'
    BY <2>1, <2>2, EntryKept DEF Faithful
  <2> QED
    BY <1>3, <2>3, <2>4, ClearOwn, QuietStep
<1> QED
  BY <1>4, <1>5

LEMMA OpenFaithful ==
    ASSUME Sound, Keen, Steady, Steady', Faithful, NEW c \in Clients, Open(c)
    PROVE  Faithful'
<1>1. /\ job[c].op = "clear" /\ job[c].reply # "no" /\ job' = [job EXCEPT ![c] = IdleJob]
      /\ global' \in {None, global}
      /\ UNCHANGED <<mode, front, listening, list, events, inbox, svc, back, version>>
  BY DEF Open, mapVars, peerVars
<1>2. Others(c) /\ job'[c] = IdleJob
  BY <1>1, EndsEffect DEF Ends, Steady, Typed
<1>3. job'[c].reply = "no"
  BY <1>2 DEF IdleJob
<1>4. Quiet(c)
  BY <1>1, <1>2, <1>3 DEF Quiet, Waits
<1>5. ASSUME NEW k \in Keys PROVE Entry(k)'
  <2>1. Entry(k) /\ (Ignore \in {list'[k], global'} => Ignore \in {list[k], global})
    BY <1>1, Parties DEF Faithful
  <2> QED
    BY <1>1, <2>1, EntryKept
<1> QED
  BY <1>2, <1>4, <1>5, IdleOwn, QuietStep

-----------------------------------------------------------------------------
(***************************************************************************)
(* The requests.                                                           *)
(***************************************************************************)
\* The answer is the last message.
LEMMA AnswerIs ==
    ASSUME Typed, NEW c \in Clients, NEW o \in {"ok", "error"}, NEW p \in {"ok", "error"},
           Answering(c, o), NEW n \in Nat, NEW es \in [1..n -> Notes],
           inbox' = inbox \o es \o <<Reply(c, p)>>
    PROVE  o = p
<1>1. <<Reply(c, p)>> \in Seq(Msgs) /\ Len(<<Reply(c, p)>>) = 1 /\ <<Reply(c, p)>>[1] = Reply(c, p)
  BY MessageParts
<1> DEFINE ans == <<Reply(c, p)>>
<1> HIDE DEF ans
<1>2. ans \in Seq(Msgs) /\ Len(ans) = 1 /\ ans[1] = Reply(c, p) /\ inbox' = inbox \o es \o ans
  BY <1>1 DEF ans
<1>3. Len(inbox') = Len(inbox) + n + 1 /\ inbox'[Len(inbox) + n + 1] = Reply(c, p)
  BY <1>2, InboxGrows DEF Typed, Incoming
<1>4. inbox'[Len(inbox')] = Reply(c, o)
  BY DEF Answering
<1> QED
  BY <1>3, <1>4 DEF Reply

LEMMA CertainAnswer ==
    ASSUME Typed, NEW c \in Clients, job[c].locked \subseteq Keys, job[c].keys \subseteq Keys,
           Register(c) \/ AskRead(c), NEW o \in {"ok", "error"}, Answering(c, o), "fail" \notin usage
    PROVE  o = "ok"
<1>1. Outcomes = {"ok"} /\ "ok" \in {"ok", "error"}
  BY DEF Outcomes
<1>2. CASE Register(c)
  <2>1. PICK q \in Orders(job[c].locked) :
           inbox' = inbox \o [i \in DOMAIN q |-> Event(q[i], "prime", back[q[i]])] \o <<Reply(c, "ok")>>
    BY <1>1, <1>2 DEF Register
  <2>2. Cardinality(job[c].locked) \in Nat /\ q \in [1..Cardinality(job[c].locked) -> job[c].locked]
    BY OrdersParts
  <2> DEFINE n == Cardinality(job[c].locked)
             es == [i \in DOMAIN q |-> Event(q[i], "prime", back[q[i]])]
  <2>3. \A i \in 1..n : Event(q[i], "prime", back[q[i]]) \in Notes
    BY <2>2, MessageParts, TypesGiven DEF Kinds, Typed
  <2>4. es \in [1..n -> Notes] /\ n \in Nat /\ inbox' = inbox \o es \o <<Reply(c, "ok")>>
    BY <2>1, <2>2, <2>3
  <2> HIDE DEF n, es
  <2> QED
    BY <1>1, <2>4, AnswerIs
<1>3. CASE AskRead(c)
  <2>1. PICK L \in SUBSET Keys : \E q \in Orders(L \cap listening) :
           inbox' = inbox \o [i \in DOMAIN q |-> Event(q[i], "load", Absent)] \o <<Reply(c, "ok")>>
    BY <1>1, <1>3 DEF AskRead
  <2>2. PICK q \in Orders(L \cap listening) :
           inbox' = inbox \o [i \in DOMAIN q |-> Event(q[i], "load", Absent)] \o <<Reply(c, "ok")>>
    BY <2>1
  <2> DEFINE n == Cardinality(L \cap listening)
             es == [i \in DOMAIN q |-> Event(q[i], "load", Absent)]
  <2>3. n \in Nat /\ q \in [1..n -> L \cap listening]
    BY OrdersParts
  <2>4. \A i \in 1..n : Event(q[i], "load", Absent) \in Notes
    BY <2>3, MessageParts, VersionParts DEF Kinds
  <2>5. es \in [1..n -> Notes] /\ inbox' = inbox \o es \o <<Reply(c, "ok")>>
    BY <2>2, <2>3, <2>4
  <2> HIDE DEF n, es
  <2> QED
    BY <1>1, <2>3, <2>5, AnswerIs
<1> QED
  BY <1>2, <1>3

\* A step that asks keeps what is faithful, if its client does.
LEMMA AskingFaithful ==
    ASSUME Sound, Keen, Steady, Steady', Faithful, NEW c \in Clients, Others(c), ~ Waits(c),
           NEW o \in {"ok", "error"}, Answering(c, o), "fail" \notin usage => o = "ok",
           Announced, Widens(c), UNCHANGED <<mode, front, list, global, events, svc>>,
           listening \subseteq listening', job'[c].reply = job[c].reply, Own(c)',
           \A i \in (Len(inbox) + 1)..(Len(inbox') - 1) : \A k \in Keys : Prime(inbox'[i], k) =>
              Expected(i, k)' /\ inbox'[i].value \in {Absent, back'[k]},
           \A k \in Keys : back'[k] <= version'
    PROVE  Faithful'
<1>1. Grows /\ inbox'[Len(inbox')] = Reply(c, o) /\ Len(inbox') \in Nat /\ Len(inbox) \in Nat
  BY GrowsKeeps DEF Answering, Steady
<1>2. \A i \in (Len(inbox) + 1)..Len(inbox') :
             /\ inbox'[i].type = "reply" => /\ inbox'[i].client = c
                                            /\ "fail" \notin usage => inbox'[i].outcome # "error"
             /\ \A k \in Keys : Prime(inbox'[i], k) =>
                   Expected(i, k)' /\ inbox'[i].value \in {Absent, back'[k]}
  <2>1. \A i \in (Len(inbox) + 1)..Len(inbox') : i = Len(inbox') \/ i \in (Len(inbox) + 1)..(Len(inbox') - 1)
    BY <1>1
  <2>2. \A i \in (Len(inbox) + 1)..(Len(inbox') - 1) : inbox'[i].type # "reply"
    BY MessageParts DEF Answering
  <2>3. /\ inbox'[Len(inbox')].client = c
        /\ "fail" \notin usage => inbox'[Len(inbox')].outcome # "error"
        /\ \A k \in Keys : ~ Prime(inbox'[Len(inbox')], k)
    BY <1>1 DEF Reply, Prime, IsPriming
  <2> QED
    BY <2>1, <2>2, <2>3
<1>3. c \in Threads /\ job'[c].reply \in {job[c].reply, "no"}
  BY DEF Threads
<1>4. c \in Clients => ~ Waits(c) /\ Own(c)' /\ job'[c].reply \in {job[c].reply, "no"}
  OBVIOUS
<1> HIDE DEF Others, Widens, Own, Waits
<1> QED
  BY <1>1, <1>2, <1>3, <1>4, GrowFaithful

LEMMA EnsureFaithful ==
    ASSUME Sound, Keen, Steady, Steady', Faithful, NEW c \in Clients, Ensure(c)
    PROVE  Faithful'
<1>1. /\ job[c].at = "ensure" /\ UNCHANGED <<mode, front, list, global, events, svc, back, version>>
      /\ job[c].op \in {"get", "getAll"} /\ job[c].locked \subseteq Keys /\ ~ Waits(c)
  BY PlaceOps DEF Ensure, ctrlVars, Jobs, Waits
<1>2. ASSUME NEW a \in Places, job' = [job EXCEPT ![c].at = a]
      PROVE  Moves(c, a) /\ job'[c].values = job[c].values
  BY <1>2, MoveEffect DEF Steady, Typed
<1>3. CASE target = "all" /\ strategy # "all"
  <2>1. job' = [job EXCEPT ![c].at = "ensuring"] /\ listening' = Keys
    BY <1>3 DEF Ensure
  <2>2. PICK o \in Outcomes : inbox' = Append(inbox, Reply(c, o))
    BY <1>3 DEF Ensure
  <2>3. o \in {"ok", "error"} /\ Reply(c, o) \in Msgs /\ ("fail" \notin usage => o = "ok")
    BY MessageParts DEF Outcomes
  <2>4. Grows /\ Len(inbox') = Len(inbox) + 1 /\ inbox'[Len(inbox) + 1] = Reply(c, o)
    BY <2>2, <2>3, InboxAppend DEF Steady, Typed, Incoming
  <2>5. Answering(c, o) /\ \A i \in (Len(inbox) + 1)..(Len(inbox') - 1) : FALSE
    BY <2>4, LenProperties DEF Answering, Steady, Typed, Incoming
  <2>6. Moves(c, "ensuring") /\ job'[c].values = job[c].values
    BY <1>2, <2>1 DEF Places
  <2>7. /\ Others(c) /\ job'[c].op = job[c].op /\ job'[c].at = "ensuring"
        /\ job'[c].locked = job[c].locked /\ job'[c].reply = job[c].reply
    BY <2>6 DEF Moves, Goes
  <2>8. /\ \A k \in Keys : job[c].values[k] = Absent
        /\ \A k \in job[c].locked : list[k] = c
    BY <1>1 DEF Faithful, Own, Reads, Unread, Listing
  <2>9. Own(c)'
    BY <1>1, <2>6, <2>7, <2>8 DEF Own, Reads, Writes, PrimesHeard, Unread, Listing, Filling
  <2>10. Announced /\ Widens(c) /\ listening \subseteq listening'
    BY <1>1, <1>3, <2>1, TypesGiven DEF Announced, Widens, Steady, Typed
  <2>11. \A k \in Keys : back'[k] <= version'
    BY <1>1 DEF Faithful, Entry
  <2>12. \A i \in (Len(inbox) + 1)..(Len(inbox') - 1) : \A k \in Keys : Prime(inbox'[i], k) =>
              Expected(i, k)' /\ inbox'[i].value \in {Absent, back'[k]}
    BY <2>5
  <2>13. UNCHANGED <<mode, front, list, global, events, svc>> /\ Others(c) /\ job'[c].reply = job[c].reply
    BY <1>1, <2>7
  <2> HIDE DEF Others, Widens, Own, Waits, Answering
  <2> QED
    BY <1>1, <2>3, <2>5, <2>9, <2>10, <2>11, <2>12, <2>13, AskingFaithful
<1>4. CASE ~ (target = "all" /\ strategy # "all")
  <2> DEFINE a == AfterEnsure(c)
  <2>1. job' = [job EXCEPT ![c].at = a] /\ UNCHANGED <<inbox, listening>>
    BY <1>4 DEF Ensure
  <2>2. a \in Places
    BY DEF AfterEnsure, Places
  <2>3. Moves(c, a) /\ job'[c].values = job[c].values
    BY <1>2, <2>1, <2>2
  <2>4. job[c].reply \in {job[c].reply, "no"}
    OBVIOUS
  <2>5. Goes(c, AfterEnsure(c), job[c].locked, job[c].evicted, job[c].reply)
    BY <2>3 DEF Moves
  <2>6. job[c].at = "ensure" \/ (job[c].at = "ensuring" /\ target = "all" /\ ~ Waits(c))
    BY <1>1
  <2>7. UNCHANGED <<mode, front, listening, list, global, events, inbox, svc, back, version>>
    BY <1>1, <2>1
  <2> HIDE DEF a, Goes
  <2> QED
    BY <2>3, <2>4, <2>5, <2>6, <2>7, EnsuresQuietly
<1> QED
  BY <1>3, <1>4

\* Who is to ask has heard no answer.
LEMMA AskerHas ==
    ASSUME Steady, NEW c \in Clients, job[c].at \in {"register", "ask"}
    PROVE  job[c].reply = "no" /\ ~ Waits(c) /\ job[c].locked \subseteq Keys /\ job[c].keys \subseteq Keys
BY PlaceOps DEF ShapedJob, Waiting, Waits, Jobs

LEMMA AskFailsFaithful ==
    ASSUME Sound, Keen, Steady, Steady', Faithful, NEW c \in Clients, AskFails(c)
    PROVE  Faithful'
<1> DEFINE a == IF job[c].at = "ask" THEN "asked" ELSE "registering"
<1>1. /\ job[c].at \in {"register", "ask"} /\ "fail" \in usage
      /\ UNCHANGED <<mode, front, listening, list, global, events, svc, back, version>>
  BY DEF AskFails, mapVars, ctrlVars
<1>2. Moves(c, a) /\ job'[c].values = job[c].values /\ job'[c].keys = job[c].keys
      /\ Answering(c, "error") /\ Len(inbox') = Len(inbox) + 1
  BY AskFailsEffect DEF Steady
<1>3. job[c].reply = "no" /\ ~ Waits(c) /\ job[c].locked \subseteq Keys
  BY <1>1, AskerHas
<1>4. /\ Others(c) /\ job'[c].op = job[c].op /\ job'[c].at = a
      /\ job'[c].locked = job[c].locked /\ job'[c].reply = "no"
  BY <1>2, <1>3 DEF Moves, Goes
<1>5. /\ job[c].at = "ask" => a = "asked"
      /\ job[c].at = "register" => a = "registering"
  OBVIOUS
<1> HIDE DEF a
<1>6. Grows
  BY <1>2 DEF Answering
<1>7. Typed /\ listening \subseteq Keys
  BY TypesGiven DEF Steady, Typed
<1>8. Own(c)
  BY DEF Faithful
<1>9. ASSUME job[c].at = "ask" PROVE Own(c)'
  <2>1. \A k, v : Right(v, k) => Right(v, k)'
    BY <1>1, <1>6, <1>7, ChangesStay DEF Right, Agrees
  <2>2. Reads(c)'
    <3>1. SUFFICES ASSUME job[c].op \in {"get", "getAll"}
                   PROVE  /\ \A k \in job[c].locked : list[k] = c
                          /\ \A k \in job[c].locked : Right(job[c].values[k], k)' \/ ~ OnlyLoaded(events[c][k])
      BY <1>1, <1>2, <1>4, <1>5, <1>9 DEF Reads, Unread, OnlyLoaded
    <3>2. /\ \A k \in job[c].locked : list[k] = c
          /\ \A k \in job[c].locked : Right(job[c].values[k], k) \/ ~ OnlyLoaded(events[c][k])
      BY <1>8, <1>9, <3>1 DEF Own, Reads, Listing, Filling
    <3> QED
      BY <1>2, <2>1, <3>2 DEF Right, Agrees
  <2>3. Writes(c)'
    <3>1. \A r \in Answers' : inbox'[r] # Reply(c, "ok")
      <4>1. \A i \in Answers : inbox'[i] = inbox[i] /\ inbox[i].client # c
        BY <1>3, <1>6, <1>7, GrowsKeeps DEF Steady, Answered
      <4>2. \A r \in Answers' : r \in Answers \/ r = Len(inbox')
        BY <1>2, <1>6, <1>7, GrowsKeeps
      <4>3. inbox'[Len(inbox')] = Reply(c, "error")
        BY <1>2 DEF Answering
      <4> QED
        BY <4>1, <4>2, <4>3 DEF Reply
    <3>2. \A k \in Keys : Wrote(c, k)'
      BY <1>4, <3>1 DEF Wrote
    <3>3. listening' \subseteq Keys
      BY <1>1, <1>7
    <3> QED
      BY <1>4, <1>5, <1>9, <3>2, <3>3 DEF Writes
  <2>4. PrimesHeard(c)'
    BY <1>4, <1>5, <1>9 DEF PrimesHeard
  <2> QED
    BY <2>2, <2>3, <2>4 DEF Own
<1>10. ASSUME job[c].at = "register" PROVE Own(c)'
  <2>1. job[c].op = "get"
    <3>1. job[c].op \in {"get", "getAll"} /\ target # "all"
      BY <1>10, PlaceOps DEF Steady, Suited
    <3> QED
      BY <3>1, SoundHas
  <2>2. /\ \A k \in Keys : job[c].values[k] = Absent
        /\ \A k \in job[c].locked : list[k] = c
        /\ \A k \in Keys : \A i \in DOMAIN events[c][k] : ~ IsPriming(events[c][k][i])
    BY <1>8, <1>10, <2>1 DEF Own, Reads, PrimesHeard, Unread, Listing
  <2> QED
    BY <1>1, <1>2, <1>3, <1>4, <1>5, <1>10, <2>1, <2>2
       DEF Own, Reads, Writes, PrimesHeard, Unread, Listing, Filling, IsPriming
<1>11. Own(c)'
  BY <1>1, <1>9, <1>10
<1>12. Announced /\ Widens(c) /\ listening \subseteq listening'
  BY <1>1, <1>7 DEF Announced, Widens
<1>13. \A k \in Keys : back'[k] <= version'
  BY <1>1 DEF Faithful, Entry
<1>14. \A i \in (Len(inbox) + 1)..(Len(inbox') - 1) : \A k \in Keys : Prime(inbox'[i], k) =>
             Expected(i, k)' /\ inbox'[i].value \in {Absent, back'[k]}
  <2>1. \A i \in (Len(inbox) + 1)..(Len(inbox') - 1) : FALSE
    BY <1>2, <1>6, <1>7, GrowsKeeps
  <2> QED
    BY <2>1
<1>15. job'[c].reply = job[c].reply /\ ("fail" \notin usage => "error" = "ok") /\ "error" \in {"ok", "error"}
  BY <1>1, <1>3, <1>4
<1> HIDE DEF Others, Widens, Own, Waits, Answering
<1> QED
  BY <1>1, <1>2, <1>3, <1>4, <1>11, <1>12, <1>13, <1>14, <1>15, AskingFaithful

LEMMA RegisterFaithful ==
    ASSUME Sound, Keen, Steady, Steady', Faithful, NEW c \in Clients, Register(c)
    PROVE  Faithful'
<1>1. /\ job[c].at = "register" /\ listening' = listening \cup job[c].locked
      /\ UNCHANGED <<mode, front, list, global, events, svc, back, version>>
  BY DEF Register, ctrlVars
<1>2. PICK o \in {"ok", "error"} : Answering(c, o)
  BY RegisterEffect DEF Steady
<1>3. Moves(c, "registering") /\ job'[c].values = job[c].values
  BY RegisterEffect DEF Steady
<1>4. job[c].reply = "no" /\ ~ Waits(c) /\ job[c].locked \subseteq Keys /\ job[c].keys \subseteq Keys
  BY <1>1, AskerHas
<1>5. /\ Others(c) /\ job'[c].op = job[c].op /\ job'[c].at = "registering"
      /\ job'[c].locked = job[c].locked /\ job'[c].reply = job[c].reply
  BY <1>3 DEF Moves, Goes
<1>6. "fail" \notin usage => o = "ok"
  BY <1>2, <1>4, CertainAnswer DEF Steady
<1>7. Typed /\ Grows /\ Len(inbox') \in Nat /\ Len(inbox) \in Nat /\ DOMAIN inbox' = 1..Len(inbox')
      /\ Len(inbox) < Len(inbox') /\ inbox'[Len(inbox')] = Reply(c, o)
  BY <1>2, GrowsKeeps DEF Answering, Steady
<1>8. job[c].op = "get"
  <2>1. job[c].op \in {"get", "getAll"} /\ target # "all"
    BY <1>1, PlaceOps DEF Steady, Suited
  <2> QED
    BY <2>1, SoundHas
<1>9. Own(c)'
  <2>1. /\ \A k \in Keys : job[c].values[k] = Absent
        /\ \A k \in job[c].locked : list[k] = c
        /\ \A k \in Keys : \A i \in DOMAIN events[c][k] : ~ IsPriming(events[c][k][i])
    BY <1>1, <1>8 DEF Faithful, Own, Reads, PrimesHeard, Unread, Listing
  <2> QED
    BY <1>1, <1>3, <1>4, <1>5, <1>8, <2>1
       DEF Own, Reads, Writes, PrimesHeard, Unread, Listing, Filling, IsPriming
<1>10. Announced /\ listening \subseteq listening'
  BY <1>1, TypesGiven DEF Announced, Steady, Typed
<1>11. Widens(c)
  BY <1>1 DEF Widens, Steady, Locking
<1>12. \A i \in (Len(inbox) + 1)..(Len(inbox') - 1) : \A k \in Keys : Prime(inbox'[i], k) =>
             Expected(i, k)' /\ inbox'[i].value \in {Absent, back'[k]}
  <2>1. SUFFICES ASSUME NEW i \in (Len(inbox) + 1)..(Len(inbox') - 1), NEW k \in Keys, Prime(inbox'[i], k)
                 PROVE  Expected(i, k)' /\ inbox'[i].value \in {Absent, back'[k]}
    OBVIOUS
  <2>2. i \in (Len(inbox) + 1)..Len(inbox') /\ i < Len(inbox')
    BY <1>7
  <2>3. inbox'[i].type = "prime" /\ inbox'[i].key = k
    BY <2>1, <2>2, RegisterEffect DEF Prime, IsPriming, Steady
  <2>4. k \in job[c].locked /\ inbox'[i].value = back[k]
    BY <2>2, <2>3, RegisterEffect DEF Steady
  <2>5. Expects(c, k)'
    BY <1>1, <1>5, <1>8, <2>4 DEF Expects
  <2>6. Len(inbox') \in Answers' /\ inbox'[Len(inbox')].client = c
    BY <1>7 DEF Answers, Reply
  <2> QED
    BY <1>1, <2>2, <2>4, <2>5, <2>6 DEF Expected
<1>13. \A k \in Keys : back'[k] <= version'
  BY <1>1 DEF Faithful, Entry
<1> HIDE DEF Others, Widens, Own, Waits, Answering
<1> QED
  BY <1>1, <1>2, <1>4, <1>5, <1>6, <1>9, <1>10, <1>11, <1>12, <1>13, AskingFaithful

LEMMA AskReadFaithful ==
    ASSUME Sound, Keen, Steady, Steady', Faithful, NEW c \in Clients, AskRead(c)
    PROVE  Faithful'
<1>1. /\ job[c].at = "ask" /\ job[c].op \in {"get", "getAll", "containsKey"}
      /\ UNCHANGED <<mode, front, listening, list, global, events, svc>>
  BY DEF AskRead, mapVars, ctrlVars
<1>2. PICK o \in {"ok", "error"} : Answering(c, o)
  BY AskReadEffect DEF Steady
<1>3. /\ Moves(c, "asked") /\ job'[c].keys = job[c].keys
      /\ job'[c].values = [k \in Keys |-> IF k \in job[c].keys THEN back'[k] ELSE job[c].values[k]]
      /\ version' \in Versions /\ version <= version'
      /\ \A k \in Keys : back'[k] = back[k] \/ (back[k] = Absent /\ back'[k] = version')
      /\ \A i \in (Len(inbox) + 1)..Len(inbox') : inbox'[i].type \in {"load", "reply"}
  BY AskReadEffect DEF Steady
<1>4. job[c].reply = "no" /\ ~ Waits(c) /\ job[c].locked \subseteq Keys /\ job[c].keys \subseteq Keys
  BY <1>1, AskerHas
<1>5. /\ Others(c) /\ job'[c].op = job[c].op /\ job'[c].at = "asked"
      /\ job'[c].locked = job[c].locked /\ job'[c].reply = job[c].reply
  BY <1>3 DEF Moves, Goes
<1>6. "fail" \notin usage => o = "ok"
  BY <1>2, <1>4, CertainAnswer DEF Steady
<1>7. Typed /\ Grows /\ Len(inbox') \in Nat /\ Len(inbox) \in Nat /\ listening \subseteq Keys
  BY <1>2, GrowsKeeps, TypesGiven DEF Answering, Steady, Typed
<1>8. Announced /\ Widens(c) /\ listening \subseteq listening'
  BY <1>1, <1>3, <1>7 DEF Announced, Widens
<1>9. Own(c)'
  <2>1. Reads(c)'
    <3>1. SUFFICES ASSUME job[c].op \in {"get", "getAll"}
                   PROVE  /\ \A k \in job[c].locked : list[k] = c
                          /\ \A k \in job[c].locked : Right(job[c].values[k], k)' \/ ~ OnlyLoaded(events[c][k])
      BY <1>1, <1>5 DEF Reads, Unread, OnlyLoaded
    <3>2. /\ \A k \in job[c].locked : list[k] = c
          /\ \A k \in job[c].locked : Right(job[c].values[k], k) \/ ~ OnlyLoaded(events[c][k])
      BY <1>1, <3>1 DEF Faithful, Own, Reads, Listing, Filling
    <3>3. ASSUME NEW k \in job[c].locked PROVE Right(job[c].values[k], k)' \/ ~ OnlyLoaded(events[c][k])
      <4>1. k \in Keys /\ k \in listening
        BY <1>1, <1>4, <3>1, ReadersOwn DEF Filling
      <4>2. CASE k \in job[c].keys
        BY <1>3, <4>1, <4>2 DEF Right, Agrees
      <4>3. CASE k \notin job[c].keys
        <5>1. job'[c].values[k] = job[c].values[k]
          BY <1>3, <4>1, <4>3
        <5>2. Right(job[c].values[k], k) \/ ~ OnlyLoaded(events[c][k])
          BY <3>2
        <5>3. ASSUME NEW v, Right(v, k) PROVE Right(v, k)'
          <6>1. 0 \in Nat /\ 0 <= Len(inbox)
            BY <1>7
          <6> QED
            BY <1>1, <1>7, <1>8, <4>1, <5>3, <6>1, AgreeingStays
        <5> QED
          BY <5>1, <5>2, <5>3 DEF Right, Agrees
      <4> QED
        BY <4>2, <4>3
    <3> QED
      BY <3>2, <3>3
  <2>2. Writes(c)' /\ PrimesHeard(c)'
    BY <1>1, <1>5 DEF Writes, PrimesHeard
  <2> QED
    BY <2>1, <2>2 DEF Own
<1>10. \A k \in Keys : back'[k] <= version'
  <2>1. \A k \in Keys : back[k] <= version /\ back[k] \in Nat
    BY TypesGiven, VersionParts DEF Faithful, Entry, Steady, Typed
  <2>2. version \in Nat /\ version' \in Nat
    BY <1>3, TypesGiven, VersionParts DEF Steady, Typed
  <2> QED
    BY <1>3, <2>1, <2>2
<1>11. \A i \in (Len(inbox) + 1)..(Len(inbox') - 1) : \A k \in Keys : Prime(inbox'[i], k) =>
             Expected(i, k)' /\ inbox'[i].value \in {Absent, back'[k]}
  <2>1. \A i \in (Len(inbox) + 1)..(Len(inbox') - 1) : inbox'[i].type \in {"load", "reply"}
    BY <1>3, <1>7
  <2> QED
    BY <2>1 DEF Prime, IsPriming
<1> HIDE DEF Others, Widens, Own, Waits, Answering
<1> QED
  BY <1>1, <1>2, <1>4, <1>5, <1>6, <1>8, <1>9, <1>10, <1>11, AskingFaithful

LEMMA CertainWrite ==
    ASSUME Steady, NEW c \in Clients, AskWrite(c)
    PROVE  \E o \in {"ok", "error"} : Answering(c, o) /\ ("fail" \notin usage => o = "ok")
<1>1. Typed /\ ShapedJob(job[c]) /\ job[c].at = "ask"
  BY PlaceOps DEF Steady, AskWrite
<1>2. CASE "fail" \in usage
  <2>1. PICK o \in {"ok", "error"} : Answering(c, o)
    BY <1>1, AskWriteEffect
  <2> QED
    BY <1>2, <2>1
<1>3. CASE "fail" \notin usage
  <2>1. Outcomes = {"ok"} /\ "ok" \in {"ok", "error"}
    BY <1>3 DEF Outcomes
  <2>2. job[c].op \in {"put", "putAll", "remove", "clear"} /\ job[c].keys \in SUBSET Keys
    BY <1>1, PlaceOps DEF AskWrite, Operations, Jobs
  <2> DEFINE ans == <<Reply(c, "ok")>>
  <2>3. \E S \in SUBSET Keys, v \in Versions : Write(S, v, ans)
    <3>1. CASE job[c].op \in {"put", "putAll"}
      <4>1. NewVersion /\ Write(job[c].keys, version', ans)
        BY <2>1, <3>1 DEF AskWrite
      <4>2. version' \in Versions
        BY <1>1, TypesGiven, NearCacheConstants, <4>1 DEF NewVersion, Versions, Typed
      <4> QED
        BY <2>2, <4>1, <4>2
    <3>2. CASE job[c].op = "remove"
      BY <2>1, <2>2, <3>2, VersionParts DEF AskWrite
    <3>3. CASE job[c].op = "clear"
      BY <2>1, <2>2, <3>3, VersionParts DEF AskWrite
    <3> QED
      BY <2>2, <3>1, <3>2, <3>3
  <2>4. PICK S \in SUBSET Keys, v \in Versions : Write(S, v, ans)
    BY <2>3
  <2>5. Answering(c, "ok")
    BY <1>1, <2>1, <2>4, AnsweredWrite
  <2> QED
    BY <2>1, <2>5
<1> QED
  BY <1>2, <1>3

LEMMA AskWriteFaithful ==
    ASSUME Sound, Keen, Steady, Steady', Faithful, NEW c \in Clients, AskWrite(c)
    PROVE  Faithful'
<1>1. /\ job[c].at = "ask" /\ job[c].op \notin {"get", "getAll", "containsKey"}
      /\ UNCHANGED <<mode, front, listening, list, global, events, svc>>
  BY DEF AskWrite, mapVars, ctrlVars
<1>2. PICK o \in {"ok", "error"} : Answering(c, o) /\ ("fail" \notin usage => o = "ok")
  BY CertainWrite
<1>3. Typed /\ ShapedJob(job[c])
  BY PlaceOps DEF Steady
<1>4. /\ Moves(c, "asked") /\ job'[c].keys = job[c].keys
      /\ job'[c].values = [k \in Keys |-> IF k \in job[c].keys THEN back'[k] ELSE Absent]
      /\ version' \in Versions /\ version <= version'
      /\ \A k \in Keys : back'[k] \in {back[k], Absent, version'}
      /\ job[c].op \in {"put", "putAll"} =>
            version' = version + 1 /\ \A k \in job[c].keys : back'[k] = version'
      /\ OnlyChanges /\ Told
      /\ \A k \in Keys : back'[k] # back[k] /\ k \in listening =>
            \E i \in (Len(inbox) + 1)..(Len(inbox') - 1) : Changes(inbox'[i], k)
  BY <1>3, AskWriteEffect
<1>5. job[c].reply = "no" /\ ~ Waits(c) /\ job[c].locked \subseteq Keys /\ job[c].keys \subseteq Keys
  BY <1>1, AskerHas
<1>6. /\ Others(c) /\ job'[c].op = job[c].op /\ job'[c].at = "asked"
      /\ job'[c].locked = job[c].locked /\ job'[c].reply = job[c].reply
  BY <1>4 DEF Moves, Goes
<1>7. Grows /\ Len(inbox') \in Nat /\ Len(inbox) \in Nat /\ listening \subseteq Keys /\ (DOMAIN inbox)' = 1..Len(inbox')
  BY <1>2, <1>3, GrowsKeeps, TypesGiven DEF Answering, Typed
<1>8. Announced /\ Widens(c) /\ listening \subseteq listening'
  BY <1>1, <1>4, <1>7, ToldAnnounced DEF Widens
<1>9. \A k \in Keys : back[k] <= version /\ back[k] \in Nat
  BY TypesGiven, VersionParts DEF Faithful, Entry, Steady, Typed
<1>10. version \in Nat /\ version' \in Nat
  BY <1>3, <1>4, TypesGiven, VersionParts DEF Typed
<1>11. Own(c)'
  <2>1. Reads(c)' /\ PrimesHeard(c)'
    BY <1>1, <1>6 DEF Reads, PrimesHeard
  <2>2. ASSUME job[c].op \in {"put", "putAll"}, NEW k \in listening, list[k] = c PROVE Wrote(c, k)'
    <3>1. k \in Keys /\ k \in job[c].locked /\ job[c].locked \subseteq job[c].keys
      BY <1>1, <1>7, <2>2 DEF Steady, Listed, Faithful, Own, Writes
    <3>2. back'[k] # back[k]
      BY <1>4, <1>9, <1>10, <2>2, <3>1
    <3>3. PICK i \in (Len(inbox) + 1)..(Len(inbox') - 1) : Changes(inbox'[i], k)
      BY <1>4, <3>1, <3>2
    <3>4. i \in 1..Len(inbox') /\ i < Len(inbox')
      BY <1>7
    <3>5. \E j \in (DOMAIN inbox)' : j < Len(inbox') /\ Changes(inbox'[j], k)
      BY <1>7, <3>3, <3>4
    <3>6. Agrees(job[c].values[k], k)'
      BY <1>4, <3>1 DEF Agrees
    <3>7. \A r \in Answers' : inbox'[r] = Reply(c, "ok") => r = Len(inbox')
      <4>1. \A j \in Answers : inbox'[j] = inbox[j] /\ inbox[j].client # c
        BY <1>3, <1>5, <1>7, GrowsKeeps DEF Steady, Answered
      <4>2. \A r \in Answers' : r \in Answers \/ r \in (Len(inbox) + 1)..(Len(inbox') - 1) \/ r = Len(inbox')
        BY <1>3, <1>7, GrowsKeeps
      <4>3. \A r \in (Len(inbox) + 1)..(Len(inbox') - 1) : inbox'[r].type # "reply"
        BY <1>2, MessageParts DEF Answering
      <4> QED
        BY <4>1, <4>2, <4>3 DEF Reply
    <3>8. \A r \in Answers' : inbox'[r] = Reply(c, "ok") => Before(r, k)'
      BY <3>5, <3>7 DEF Before
    <3> QED
      BY <1>5, <1>6, <3>6, <3>8 DEF Wrote
  <2>3. Writes(c)'
    BY <1>1, <1>6, <2>2 DEF Writes
  <2> QED
    BY <2>1, <2>3 DEF Own
<1>12. \A k \in Keys : back'[k] <= version'
  BY <1>4, <1>9, <1>10 DEF Absent
<1>13. \A i \in (Len(inbox) + 1)..(Len(inbox') - 1) : \A k \in Keys : Prime(inbox'[i], k) =>
             Expected(i, k)' /\ inbox'[i].value \in {Absent, back'[k]}
  <2>1. \A i \in (Len(inbox) + 1)..(Len(inbox') - 1) : inbox'[i].type \in {"insert", "update", "delete", "reply"}
    BY <1>4, <1>7 DEF OnlyChanges
  <2> QED
    BY <2>1 DEF Prime, IsPriming
<1> HIDE DEF Others, Widens, Own, Waits, Answering
<1> QED
  BY <1>1, <1>2, <1>5, <1>6, <1>8, <1>11, <1>12, <1>13, AskingFaithful

LEMMA WorksFaithful ==
    ASSUME Sound, Keen, Steady, Steady', Faithful, NEW c \in Clients, Works(c)
    PROVE  Faithful'
<1>1. CASE Lock(c) \/ Ensure(c) \/ Ensured(c) \/ LocksDone(c) \/ Register(c) \/ Registered(c)
  BY <1>1, LockFaithful, EnsureFaithful, EnsuredFaithful, LocksDoneFaithful, RegisterFaithful, RegisteredFaithful
<1>2. CASE AskRead(c) \/ AskWrite(c) \/ AskFails(c) \/ Judge(c) \/ Release(c) \/ Finish(c)
  BY <1>2, AskReadFaithful, AskWriteFaithful, AskFailsFaithful, JudgeFaithful, ReleaseFaithful, FinishFaithful
<1>3. CASE Fail(c) \/ Close(c) \/ CloseFails(c) \/ Open(c)
  BY <1>3, FailFaithful, CloseFaithful, OpenFaithful
<1>4. ASSUME NEW k \in Keys, Assign(c, k) \/ LockNext(c, k) \/ FinishGet(c, k) \/ FrontKey(c, k) \/ FinalizePut(c, k)
      PROVE  Faithful'
  BY <1>4, AssignFaithful, LockNextFaithful, FinishGetFaithful, FrontKeyFaithful, FinalizePutFaithful
<1> QED
  BY <1>1, <1>2, <1>3, <1>4 DEF Works

-----------------------------------------------------------------------------
(***************************************************************************)
(* The service thread takes a message from the inbox.                      *)
(***************************************************************************)
LEMMA ReceiveHas ==
    ASSUME Sound, Keen, Steady, Receive
    PROVE  /\ svc.at = "idle" /\ inbox[1] \in Msgs /\ inbox[1].type # "truncate"
           /\ UNCHANGED <<mode, front, listening, list, global, events, back, version>>
           /\ Len(inbox) \in Nat /\ Len(inbox) >= 1 /\ DOMAIN inbox = 1..Len(inbox)
           /\ Len(inbox') = Len(inbox) - 1 /\ (DOMAIN inbox)' = 1..Len(inbox')
           /\ \A i \in 1..Len(inbox') : inbox'[i] = inbox[i + 1]
<1>1. /\ Shrinks /\ inbox[1] \in Msgs /\ svc.at = "idle"
      /\ UNCHANGED <<mode, listening, list, global, events, back, version>>
  BY ReceiveEffect DEF ctrlVars, Steady
<1>2. /\ Len(inbox) \in Nat /\ DOMAIN inbox = 1..Len(inbox) /\ Len(inbox) >= 1
      /\ (DOMAIN inbox)' = 1..Len(inbox') /\ Len(inbox') = Len(inbox) - 1 /\ 1 \in DOMAIN inbox
      /\ \A i \in 1..Len(inbox') : inbox'[i] = inbox[i + 1]
  BY <1>1, LenProperties DEF Shrinks, Steady, Typed, Incoming
<1>3. inbox[1].type # "truncate"
  BY <1>2 DEF Keen, Usual, Unreset
<1>4. UNCHANGED front
  BY <1>3, ReceiveEffect DEF Steady
<1> QED
  BY <1>1, <1>2, <1>3, <1>4

\* An event is carried, unless nobody listens.
LEMMA ReceiveTakes ==
    ASSUME Sound, Keen, Steady, Receive
    PROVE  /\ svc'.at # "idle" => svc'.event = inbox[1] /\ inbox[1] \in Notes
           /\ \A k \in listening : Changes(inbox[1], k) => Carried(k)'
<1>1. CASE inbox[1].type = "reply"
  BY <1>1, ReceiveHas, ReceiveEffect DEF Steady, Changes
<1>2. CASE inbox[1].type # "reply"
  <2>1. /\ inbox[1] \in Notes
        /\ svc' = IF inbox[1].key \in listening
                  THEN [IdleSvc EXCEPT !.at = "lock", !.event = inbox[1]] ELSE svc
    BY <1>2, ReceiveHas, ReceiveEffect DEF Steady
  <2>2. inbox[1].key \in listening => svc'.at = "lock" /\ svc'.event = inbox[1]
    BY <2>1 DEF IdleSvc
  <2>3. inbox[1].key \notin listening => svc'.at = "idle"
    BY <2>1, ReceiveHas
  <2> QED
    BY <2>1, <2>2, <2>3 DEF Carried, Changes
<1> QED
  BY <1>1, <1>2

LEMMA ReceiveMoves ==
    ASSUME Sound, Keen, Steady, Receive, NEW k
    PROVE  /\ \A r \in Nat : After(r + 1, k) => After(r, k)'
           /\ k \in listening => \A r \in Nat : Before(r + 1, k) => Carried(k)' \/ Before(r, k)'
           /\ k \in listening /\ Coming(k) => Coming(k)'
           /\ After(0, k)' => Coming(k)'
<1>1. \A i \in 1..Len(inbox) : i = 1 \/ (i - 1 \in 1..Len(inbox') /\ inbox'[i - 1] = inbox[i])
  BY ReceiveHas
<1>2. ASSUME NEW r \in Nat, After(r + 1, k) PROVE After(r, k)'
  <2>1. PICK i \in 1..Len(inbox) : i > r + 1 /\ Changes(inbox[i], k)
    BY <1>2, ReceiveHas DEF After
  <2>2. i - 1 \in (DOMAIN inbox)' /\ i - 1 > r /\ inbox'[i - 1] = inbox[i]
    BY <1>1, <2>1, ReceiveHas
  <2> QED
    BY <2>1, <2>2 DEF After
<1>3. ASSUME NEW r \in Nat, Before(r + 1, k), k \in listening PROVE Carried(k)' \/ Before(r, k)'
  <2>1. PICK i \in 1..Len(inbox) : i < r + 1 /\ Changes(inbox[i], k)
    BY <1>3, ReceiveHas DEF Before
  <2>2. i = 1 => Carried(k)'
    BY <1>3, <2>1, ReceiveTakes
  <2>3. i # 1 => i - 1 \in (DOMAIN inbox)' /\ i - 1 < r /\ inbox'[i - 1] = inbox[i]
    BY <1>1, <2>1, ReceiveHas
  <2> QED
    BY <2>1, <2>2, <2>3 DEF Before
<1>4. ASSUME k \in listening, Coming(k) PROVE Coming(k)'
  <2>1. PICK i \in 1..Len(inbox) : i > 0 /\ Changes(inbox[i], k)
    BY <1>4, ReceiveHas DEF Coming, Carried, After
  <2>2. i = 1 => Carried(k)'
    BY <1>4, <2>1, ReceiveTakes
  <2>3. i # 1 => i - 1 \in (DOMAIN inbox)' /\ i - 1 > 0 /\ inbox'[i - 1] = inbox[i]
    BY <1>1, <2>1, ReceiveHas
  <2> QED
    BY <2>1, <2>2, <2>3 DEF After, Coming
<1>5. After(0, k)' => Coming(k)'
  BY DEF Coming
<1> QED
  BY <1>2, <1>3, <1>4, <1>5

\* The answer is for the client that waits for it.
LEMMA ReceiveJobs ==
    ASSUME Sound, Keen, Steady, Receive, NEW d \in Clients
    PROVE  /\ job'[d].op = job[d].op /\ job'[d].at = job[d].at /\ job'[d].locked = job[d].locked
           /\ job'[d].keys = job[d].keys /\ job'[d].values = job[d].values
           /\ job'[d] # job[d] => /\ Waits(d) /\ 1 \in Answers
                                  /\ inbox[1] = Reply(d, job'[d].reply)
           /\ \A i \in Answers' : /\ i + 1 \in Answers /\ inbox'[i] = inbox[i + 1] /\ i \in Nat
           /\ \A j \in Answers : j # 1 => j - 1 \in Answers' /\ inbox'[j - 1] = inbox[j] /\ j \in Nat \ {0}
<1>1. \A i \in Answers' : i + 1 \in Answers /\ inbox'[i] = inbox[i + 1] /\ i \in Nat
  BY ReceiveHas DEF Answers
<1>2. \A j \in Answers : j # 1 => j - 1 \in Answers' /\ inbox'[j - 1] = inbox[j] /\ j \in Nat \ {0}
  <2>1. SUFFICES ASSUME NEW j \in Answers, j # 1
                 PROVE  j - 1 \in Answers' /\ inbox'[j - 1] = inbox[j] /\ j \in Nat \ {0}
    OBVIOUS
  <2>2. j - 1 \in 1..Len(inbox') /\ j = (j - 1) + 1 /\ j \in Nat \ {0}
    <3>1. j \in 1..Len(inbox) /\ Len(inbox) \in Nat /\ Len(inbox') = Len(inbox) - 1
      BY ReceiveHas DEF Answers
    <3> QED
      BY <2>1, <3>1
  <2>3. inbox'[j - 1] = inbox[j]
    BY <2>2, ReceiveHas
  <2> QED
    BY <2>2, <2>3, ReceiveHas DEF Answers
<1>3. CASE inbox[1].type = "reply"
  <2>1. PICK c \in Clients : c = inbox[1].client
    BY <1>3, ReceiveEffect DEF Steady
  <2>2. /\ inbox[1] = Reply(c, inbox[1].outcome)
        /\ Goes(c, job[c].at, job[c].locked, job[c].evicted, inbox[1].outcome)
        /\ job'[c].keys = job[c].keys /\ job'[c].values = job[c].values
    BY <1>3, <2>1, ReceiveEffect DEF Steady
  <2>3. 1 \in Answers /\ Waits(c)
    BY <1>3, <2>1, ReceiveHas DEF Answers, Steady, Answered
  <2>4. CASE d = c
    BY <1>1, <1>2, <2>2, <2>3, <2>4 DEF Goes
  <2>5. CASE d # c
    BY <1>1, <1>2, <2>2, <2>5 DEF Goes, Others
  <2> QED
    BY <2>4, <2>5
<1>4. CASE inbox[1].type # "reply"
  BY <1>1, <1>2, <1>4, ReceiveHas, ReceiveEffect DEF Steady
<1> QED
  BY <1>3, <1>4

LEMMA ReceiveOwn ==
    ASSUME Sound, Keen, Steady, Receive, NEW d \in Clients, Own(d)
    PROVE  Own(d)'
<1>1. /\ job'[d].op = job[d].op /\ job'[d].at = job[d].at /\ job'[d].locked = job[d].locked
      /\ job'[d].keys = job[d].keys /\ job'[d].values = job[d].values
      /\ UNCHANGED <<mode, front, listening, list, global, events, back, version>> /\ svc.at = "idle"
  BY ReceiveHas, ReceiveJobs
<1>2. \A k \in listening : \A v : Right(v, k) => Right(v, k)'
  BY <1>1, ReceiveMoves DEF Right, Agrees
<1>3. \A k \in listening : Right(job[d].values[k], k) => Right(job[d].values[k], k)'
  BY <1>1, <1>2 DEF Right, Agrees
<1>4. Reads(d)'
  <2>1. SUFFICES ASSUME job[d].op \in {"get", "getAll"}
                 PROVE  /\ job[d].at \in Unread => \A k \in Keys : job[d].values[k] = Absent
                        /\ job[d].at \in Listing => \A k \in job[d].locked : list[k] = d
                        /\ job[d].at \in Filling => \A k \in job[d].locked :
                              Right(job[d].values[k], k)' \/ ~ OnlyLoaded(events[d][k])
                        /\ job[d].at = "front" => \A k \in job[d].keys :
                              list[k] = d /\ (Right(job[d].values[k], k)' \/ k \in job'[d].invalid)
    BY <1>1 DEF Reads, OnlyLoaded
  <2>2. /\ job[d].at \in Unread => \A k \in Keys : job[d].values[k] = Absent
        /\ job[d].at \in Listing => \A k \in job[d].locked : list[k] = d
        /\ job[d].at \in Filling => \A k \in job[d].locked :
              Right(job[d].values[k], k) \/ ~ OnlyLoaded(events[d][k])
        /\ job[d].at = "front" => \A k \in job[d].keys :
              list[k] = d /\ (Right(job[d].values[k], k) \/ k \in job[d].invalid)
    BY <2>1 DEF Own, Reads
  <2>3. /\ job[d].at \in Filling => \A k \in job[d].locked : k \in listening
        /\ job[d].at = "front" => \A k \in job[d].keys : k \in listening
    BY <2>1, ReadersOwn
  <2>4. job[d].at \in Filling => \A k \in job[d].locked :
           Right(job[d].values[k], k)' \/ ~ OnlyLoaded(events[d][k])
    BY <1>3, <2>2, <2>3
  <2>5. job[d].at = "front" => job'[d] = job[d]
    BY ReceiveJobs DEF Waits
  <2>6. job[d].at = "front" => \A k \in job[d].keys :
           list[k] = d /\ (Right(job[d].values[k], k)' \/ k \in job'[d].invalid)
    BY <1>3, <2>2, <2>3, <2>5
  <2> QED
    BY <2>2, <2>4, <2>6
<1>5. Writes(d)'
  <2>1. SUFFICES ASSUME job[d].op \in {"put", "putAll"}, job[d].at = "asked",
                        NEW k \in listening, list[k] = d
                 PROVE  Wrote(d, k)'
    BY <1>1 DEF Writes, Own
  <2>2. Wrote(d, k)
    BY <2>1 DEF Own, Writes
  <2>3. ASSUME NEW r \in Answers', inbox'[r] = Reply(d, "ok")
        PROVE  /\ events[d][k] # <<>> \/ Carried(k)' \/ Before(r, k)'
               /\ Agrees(job[d].values[k], k)' \/ After(r, k)'
    <3>1. r + 1 \in Answers /\ r \in Nat /\ inbox[r + 1] = Reply(d, "ok")
      BY <2>3, ReceiveJobs
    <3>2. /\ events[d][k] # <<>> \/ Before(r + 1, k)
          /\ Agrees(job[d].values[k], k) \/ After(r + 1, k)
      BY <1>1, <2>2, <3>1 DEF Wrote, Carried
    <3>3. Before(r + 1, k) => Carried(k)' \/ Before(r, k)'
      BY <2>1, <3>1, ReceiveMoves
    <3>4. After(r + 1, k) => After(r, k)'
      BY <3>1, ReceiveMoves
    <3> QED
      BY <1>1, <3>2, <3>3, <3>4 DEF Agrees
  <2>4. ASSUME job'[d].reply = "ok"
        PROVE  /\ events[d][k] # <<>>
               /\ Right(job[d].values[k], k)' \/ Len(events[d][k]) >= 2
    <3>1. CASE job'[d] = job[d]
      <4>1. events[d][k] # <<>> /\ (Right(job[d].values[k], k) \/ Len(events[d][k]) >= 2)
        BY <2>2, <2>4, <3>1 DEF Wrote
      <4> QED
        BY <1>3, <2>1, <4>1
    <3>2. CASE job'[d] # job[d]
      <4>1. 1 \in Answers /\ inbox[1] = Reply(d, "ok")
        BY <2>4, <3>2, ReceiveJobs
      <4>2. /\ events[d][k] # <<>> \/ Before(1, k)
            /\ Agrees(job[d].values[k], k) \/ After(1, k)
        BY <1>1, <2>2, <4>1 DEF Wrote, Carried
      <4>3. ~ Before(1, k)
        BY ReceiveHas DEF Before
      <4>4. 0 \in Nat /\ 0 + 1 = 1
        OBVIOUS
      <4>5. After(1, k) => Coming(k)'
        BY <4>4, ReceiveMoves
      <4> QED
        BY <1>1, <4>2, <4>3, <4>5 DEF Right, Agrees
    <3> QED
      BY <3>1, <3>2
  <2> QED
    BY <1>1, <2>3, <2>4 DEF Wrote
<1>6. PrimesHeard(d)'
  <2>1. SUFFICES ASSUME job[d].op = "get", job[d].at = "registering", NEW k \in job[d].locked,
                        NEW i \in DOMAIN events[d][k], IsPriming(events[d][k][i])
                 PROVE  k \in listening' /\ (Right(events[d][k][i].value, k)' \/ i < Len(events[d][k]))
    BY <1>1 DEF PrimesHeard, Own, IsPriming
  <2>2. k \in listening /\ (Right(events[d][k][i].value, k) \/ i < Len(events[d][k]))
    BY <2>1 DEF Own, PrimesHeard
  <2>3. Right(events[d][k][i].value, k) => Right(events[d][k][i].value, k)'
    BY <1>1, <1>2, <2>2 DEF Right, Agrees
  <2> QED
    BY <1>1, <2>2, <2>3
<1> QED
  BY <1>4, <1>5, <1>6 DEF Own

LEMMA ReceiveExpects ==
    ASSUME Sound, Keen, Steady, Receive, NEW r \in Nat, NEW k \in Keys, Expected(r + 1, k)
    PROVE  Expected(r, k)'
<1>1. PICK d \in Clients : Expects(d, k) /\ \E j \in Answers : r + 1 < j /\ inbox[j].client = d
  BY DEF Expected
<1>2. PICK j \in Answers : r + 1 < j /\ inbox[j].client = d
  BY <1>1
<1>3. j # 1 /\ j \in Nat
  <2>1. j \in 1..Len(inbox) /\ Len(inbox) \in Nat
    BY ReceiveHas DEF Answers
  <2> QED
    BY <1>2, <2>1
<1>4. job'[d] = job[d]
  <2>1. SUFFICES ASSUME job'[d] # job[d] PROVE FALSE
    OBVIOUS
  <2>2. 1 \in Answers /\ inbox[1] = Reply(d, job'[d].reply)
    BY <2>1, ReceiveJobs
  <2>3. inbox[1].client = d
    BY <2>2 DEF Reply
  <2> QED
    BY <1>2, <1>3, <2>2, <2>3 DEF Steady, Answered
<1>5. Expects(d, k)'
  BY <1>1, <1>4, ReceiveHas DEF Expects
<1>6. j - 1 \in Answers' /\ inbox'[j - 1].client = d
  BY <1>2, <1>3, ReceiveJobs
<1>7. r < j - 1
  BY <1>2, <1>3
<1> QED
  BY <1>5, <1>6, <1>7 DEF Expected

LEMMA ReceiveFaithful ==
    ASSUME Sound, Keen, Steady, Steady', Faithful, Receive
    PROVE  Faithful'
<1>1. UNCHANGED <<mode, front, listening, list, global, events, back, version>> /\ svc.at = "idle"
  BY ReceiveHas
<1>2. ASSUME NEW k \in Keys PROVE Entry(k)'
  <2>1. k \in listening => (Right(front[k], k) => Right(front[k], k)')
    BY <1>1, ReceiveMoves DEF Right, Agrees
  <2>2. k \notin listening => Right(front[k], k)'
    BY <1>1 DEF Keen, Heeded, Right, Agrees
  <2> QED
    BY <1>1, <2>1, <2>2 DEF Faithful, Entry
<1>3. \A d \in Clients : Own(d)'
  BY ReceiveOwn DEF Faithful
<1>4. PrimesSent'
  <2>1. SUFFICES ASSUME NEW i \in 1..Len(inbox'), NEW k \in Keys, Prime(inbox'[i], k)
                 PROVE  Expected(i, k)' /\ (inbox'[i].value \in {Absent, back'[k]} \/ After(i, k)')
    BY ReceiveHas DEF PrimesSent, Prime, IsPriming, Agrees
  <2>2. inbox'[i] = inbox[i + 1] /\ i + 1 \in DOMAIN inbox /\ i \in Nat
    BY ReceiveHas
  <2>3. Expected(i + 1, k) /\ (Agrees(inbox[i + 1].value, k) \/ After(i + 1, k))
    BY <2>1, <2>2 DEF Faithful, PrimesSent
  <2>4. Expected(i, k)' /\ (After(i + 1, k) => After(i, k)')
    BY <2>2, <2>3, ReceiveExpects, ReceiveMoves
  <2> QED
    BY <1>1, <2>2, <2>3, <2>4 DEF Agrees
<1>5. PrimesCarried'
  <2>1. SUFFICES ASSUME svc'.at # "idle", NEW k \in Keys, Prime(svc'.event, k)
                 PROVE  Expected(0, k)' /\ (svc'.event.value \in {Absent, back'[k]} \/ After(0, k)')
    BY DEF PrimesCarried, Prime, IsPriming, Agrees
  <2>2. svc'.event = inbox[1] /\ 1 \in DOMAIN inbox /\ 0 \in Nat /\ 1 = 0 + 1
    BY <2>1, ReceiveHas, ReceiveTakes
  <2>3. Expected(0 + 1, k) /\ (Agrees(inbox[1].value, k) \/ After(0 + 1, k))
    BY <2>1, <2>2 DEF Faithful, PrimesSent
  <2>4. Expected(0, k)' /\ (After(0 + 1, k) => After(0, k)')
    BY <2>2, <2>3, ReceiveExpects, ReceiveMoves
  <2> QED
    BY <1>1, <2>2, <2>3, <2>4 DEF Agrees
<1>6. Certain'
  <2>1. SUFFICES ASSUME "fail" \notin usage
                 PROVE  /\ \A d \in Clients : job'[d].reply # "error"
                        /\ \A i \in Answers' : inbox'[i].outcome # "error"
    BY <1>1 DEF Certain, usage
  <2>2. /\ \A d \in Clients : job[d].reply # "error"
        /\ \A i \in Answers : inbox[i].outcome # "error"
    BY <2>1 DEF Faithful, Certain
  <2>3. \A i \in Answers' : inbox'[i].outcome # "error"
    <3>1. \A i \in Answers' : i + 1 \in Answers /\ inbox'[i] = inbox[i + 1]
      <4>1. \A i \in Answers' : i \in 1..Len(inbox') /\ inbox'[i].type = "reply"
        BY ReceiveHas DEF Answers
      <4>2. \A i \in 1..Len(inbox') : i + 1 \in DOMAIN inbox /\ inbox'[i] = inbox[i + 1]
        BY ReceiveHas
      <4> QED
        BY <4>1, <4>2 DEF Answers
    <3> QED
      BY <2>2, <3>1
  <2>4. ASSUME NEW d \in Clients PROVE job'[d].reply # "error"
    <3>1. job'[d] # job[d] => 1 \in Answers /\ inbox[1] = Reply(d, job'[d].reply)
      BY ReceiveJobs
    <3>2. job'[d] # job[d] => inbox[1].outcome = job'[d].reply
      BY <3>1 DEF Reply
    <3> QED
      BY <2>2, <3>1, <3>2
  <2> QED
    BY <2>3, <2>4
<1> QED
  BY <1>2, <1>3, <1>4, <1>5, <1>6 DEF Faithful

-----------------------------------------------------------------------------
(***************************************************************************)
(* The service thread handles an event.                                    *)
(***************************************************************************)
\* It goes on with the event.
LEMMA ServiceGoesOn ==
    ASSUME Faithful, UNCHANGED <<mode, front, listening, list, global, events, inbox, back, version, job>>,
           svc.at # "idle" <=> svc'.at # "idle", svc'.event = svc.event
    PROVE  Faithful'
<1>1. /\ \A r, k : Before(r, k)' = Before(r, k) /\ After(r, k)' = After(r, k)
      /\ \A k : Carried(k)' = Carried(k)
  BY DEF Before, After, Carried
<1>2. Answers' = Answers
  BY DEF Answers
<1>3. /\ \A v, k : Agrees(v, k)' = Agrees(v, k) /\ Right(v, k)' = Right(v, k)
      /\ \A r, k : Expected(r, k)' = Expected(r, k)
  BY <1>1, <1>2 DEF Right, Agrees, Coming, Expected, Expects
<1>4. \A k \in Keys : Entry(k)'
  BY <1>1 DEF Faithful, Entry, Right, Agrees, Coming
<1>5. PrimesSent' /\ PrimesCarried'
  <2>1. PrimesSent'
    BY <1>1, <1>3 DEF Faithful, PrimesSent, Prime, IsPriming, Agrees
  <2>2. PrimesCarried'
    BY <1>1, <1>3 DEF Faithful, PrimesCarried, Prime, IsPriming, Agrees
  <2> QED
    BY <2>1, <2>2
<1>6. ASSUME NEW d \in Clients PROVE Own(d)'
  <2>1. Reads(d)'
    BY <1>1 DEF Faithful, Own, Reads, Right, Agrees, Coming, OnlyLoaded
  <2>2. Writes(d)'
    BY <1>1, <1>2 DEF Faithful, Own, Writes, Wrote, Right, Agrees, Coming
  <2>3. PrimesHeard(d)'
    BY <1>1 DEF Faithful, Own, PrimesHeard, Right, Agrees, Coming, IsPriming
  <2> QED
    BY <2>1, <2>2, <2>3 DEF Own
<1>7. Certain'
  BY <1>2 DEF Faithful, Certain, usage
<1> QED
  BY <1>4, <1>5, <1>6, <1>7 DEF Faithful

\* It is done with an event about another key than those a client has lists for.
LEMMA OwnAway ==
    ASSUME Steady, svc.at # "idle", svc' = IdleSvc, UNCHANGED <<mode, list, inbox, back, job>>,
           listening' \subseteq listening,
           \A j \in listening : j \in listening' \/ lock[j].owner \in {None, Service},
           NEW d \in Clients, list[svc.event.key] # d, events'[d] = events[d], Own(d)
    PROVE  Own(d)'
<1> DEFINE k == svc.event.key
<1>1. job'[d] = job[d] /\ ~ (\E j : Carried(j)') /\ \A j : j # k => ~ Carried(j)
  BY DEF Carried, IdleSvc, Changes
<1>2. \A j : j # k => \A v : Right(v, j)' = Right(v, j)
  BY <1>1 DEF Right, Agrees, Coming, After
<1>3. list[k] # d
  OBVIOUS
<1> HIDE DEF k
<1>4. Reads(d)'
  <2>1. SUFFICES ASSUME job[d].op \in {"get", "getAll"}
                 PROVE  /\ job[d].at \in Unread => \A j \in Keys : job[d].values[j] = Absent
                        /\ job[d].at \in Listing => \A j \in job[d].locked : list[j] = d
                        /\ job[d].at \in Filling => \A j \in job[d].locked :
                              Right(job[d].values[j], j)' \/ ~ OnlyLoaded(events[d][j])
                        /\ job[d].at = "front" => \A j \in job[d].keys :
                              list[j] = d /\ (Right(job[d].values[j], j)' \/ j \in job[d].invalid)
    BY <1>1 DEF Reads, OnlyLoaded
  <2>2. /\ job[d].at \in Unread => \A j \in Keys : job[d].values[j] = Absent
        /\ job[d].at \in Listing => \A j \in job[d].locked : list[j] = d
        /\ job[d].at \in Filling => \A j \in job[d].locked :
              Right(job[d].values[j], j) \/ ~ OnlyLoaded(events[d][j])
        /\ job[d].at = "front" => \A j \in job[d].keys :
              list[j] = d /\ (Right(job[d].values[j], j) \/ j \in job[d].invalid)
    BY <2>1 DEF Own, Reads
  <2>3. \A j : list[j] = d => (Right(job[d].values[j], j) => Right(job[d].values[j], j)')
    BY <1>1, <1>2, <1>3
  <2>4. job[d].at \in Filling => job[d].at \in Listing
    BY DEF Filling, Listing
  <2>5. job[d].at \in Filling => \A j \in job[d].locked :
              Right(job[d].values[j], j)' \/ ~ OnlyLoaded(events[d][j])
    BY <2>2, <2>3, <2>4
  <2>6. job[d].at = "front" => \A j \in job[d].keys :
              list[j] = d /\ (Right(job[d].values[j], j)' \/ j \in job[d].invalid)
    BY <2>2, <2>3
  <2> QED
    BY <2>2, <2>5, <2>6
<1>5. Writes(d)'
  <2>1. SUFFICES ASSUME job[d].op \in {"put", "putAll"}, job[d].at = "asked",
                        NEW j \in listening, list[j] = d
                 PROVE  Wrote(d, j)'
    BY <1>1 DEF Writes, Own
  <2>2. Wrote(d, j) /\ j # k /\ ~ Carried(j) /\ ~ Carried(j)'
    BY <1>1, <1>3, <2>1 DEF Own, Writes
  <2>3. Answers' = Answers /\ \A r : Before(r, j)' = Before(r, j) /\ After(r, j)' = After(r, j)
    BY DEF Answers, Before, After
  <2>4. \A v : Right(v, j)' = Right(v, j) /\ Agrees(v, j)' = Agrees(v, j)
    BY <1>2, <2>2 DEF Agrees
  <2>5. job[d].reply = "ok" => /\ events[d][j] # <<>>
                               /\ Right(job[d].values[j], j)' \/ Len(events[d][j]) >= 2
    <3>1. Right(job[d].values[j], j)' = Right(job[d].values[j], j)
      BY <1>1, <2>4
    <3> QED
      BY <2>2, <3>1 DEF Wrote
  <2>6. \A r \in Answers : inbox[r] = Reply(d, "ok") =>
           /\ events[d][j] # <<>> \/ Carried(j)' \/ Before(r, j)'
           /\ Agrees(job[d].values[j], j)' \/ After(r, j)'
    <3>1. Agrees(job[d].values[j], j)' = Agrees(job[d].values[j], j)
      BY <1>1, <2>4
    <3> QED
      BY <2>2, <2>3, <3>1 DEF Wrote
  <2> QED
    BY <1>1, <2>3, <2>5, <2>6 DEF Wrote
<1>6. PrimesHeard(d)'
  <2>1. SUFFICES ASSUME job[d].op = "get", job[d].at = "registering", NEW j \in job[d].locked,
                        NEW i \in DOMAIN events[d][j], IsPriming(events[d][j][i])
                 PROVE  j \in listening' /\ (Right(events[d][j][i].value, j)' \/ i < Len(events[d][j]))
    BY <1>1 DEF PrimesHeard, Own, IsPriming
  <2>2. j \in listening /\ (Right(events[d][j][i].value, j) \/ i < Len(events[d][j]))
    BY <2>1 DEF Own, PrimesHeard
  <2>3. list[j] = d
    BY <2>1 DEF Own, Reads, Listing
  <2>4. lock[j].owner = d /\ d # None /\ d # Service
    BY <2>1, Parties DEF Steady, Locking
  <2>5. Right(events[d][j][i].value, j)' = Right(events[d][j][i].value, j)
    BY <1>2, <1>3, <2>3
  <2> QED
    BY <2>2, <2>4, <2>5
<1> QED
  BY <1>4, <1>5, <1>6 DEF Own

LEMMA ServiceIsDone ==
    ASSUME Sound, Keen, Steady, Faithful, svc.at # "idle", svc' = IdleSvc,
           NEW k \in Keys, svc.event.key = k,
           UNCHANGED <<mode, list, global, inbox, back, version, job>>,
           listening' \subseteq listening,
           \A j \in listening : j \in listening' \/ lock[j].owner \in {None, Service},
           \A j \in Keys : j # k => front'[j] = front[j],
           Entry(k)', \A d \in Clients : Own(d)'
    PROVE  Faithful'
<1>1. \A j : j # k => ~ Carried(j) /\ ~ Carried(j)'
  BY DEF Carried, IdleSvc, Changes
<1>2. \A j \in Keys : Entry(j)'
  <2>1. ASSUME NEW j \in Keys, j # k PROVE Entry(j)'
    <3>1. Right(front[j], j)' = Right(front[j], j)
      BY <1>1, <2>1 DEF Right, Agrees, Coming, After
    <3> QED
      BY <2>1, <3>1 DEF Faithful, Entry
  <2> QED
    BY <2>1
<1>3. Answers' = Answers
  BY DEF Answers
<1>4. ASSUME NEW r \in Nat, NEW j \in Keys, Expected(r, j) PROVE Expected(r, j)'
  <2>1. Others(Service) /\ Service \in Threads /\ Service \notin Clients
    BY ServiceIsThread
  <2>2. \A i \in Answers : i \in Answers' /\ inbox'[i] = inbox[i]
    BY <1>3
  <2>3. \A i \in listening : i \in listening' \/ lock[i].owner \in {None, Service} \/ target = "all"
    OBVIOUS
  <2>4. UNCHANGED mode /\ (Service \in Clients => ~ Waits(Service))
    BY <2>1
  <2> HIDE DEF Others
  <2> QED
    BY <1>4, <2>1, <2>2, <2>3, <2>4, ExpectedStays
<1>5. PrimesSent'
  <2>1. SUFFICES ASSUME NEW i \in DOMAIN inbox, NEW j \in Keys, Prime(inbox[i], j)
                 PROVE  Expected(i, j)' /\ (inbox[i].value \in {Absent, back[j]} \/ After(i, j)')
    BY DEF PrimesSent, Prime, IsPriming, Agrees
  <2>2. Expected(i, j) /\ (Agrees(inbox[i].value, j) \/ After(i, j)) /\ i \in Nat
    BY <2>1, AnswersType DEF Faithful, PrimesSent, Steady, Typed
  <2>3. After(i, j)' = After(i, j)
    BY DEF After
  <2> QED
    BY <1>4, <2>2, <2>3 DEF Agrees
<1>6. PrimesCarried'
  BY DEF PrimesCarried, IdleSvc
<1>7. Certain'
  BY <1>3 DEF Faithful, Certain, usage
<1> QED
  BY <1>2, <1>5, <1>6, <1>7 DEF Faithful

LEMMA ServiceLockFaithful ==
    ASSUME Steady, Faithful, ServiceLock
    PROVE  Faithful'
<1>1. UNCHANGED <<mode, front, listening, list, global, events, inbox, back, version, job>> /\ svc.at = "lock"
  BY DEF ServiceLock, mapVars, peerVars
<1>2. svc'.at \in {"validate", "find"} /\ svc'.event = svc.event
  BY <1>1, ServiceHas DEF ServiceLock
<1>3. svc.at # "idle" <=> svc'.at # "idle"
  BY <1>1, <1>2
<1> QED
  BY <1>1, <1>2, <1>3, ServiceGoesOn

LEMMA FindFaithful ==
    ASSUME Steady, Faithful, Find
    PROVE  Faithful'
<1>1. UNCHANGED <<mode, front, listening, list, global, events, inbox, back, version, job>> /\ svc.at = "find"
  BY DEF Find, mapVars, ctrlVars, peerVars
<1>2. svc'.at \in {"lock", "add"} /\ svc'.event = svc.event
  BY <1>1, ServiceHas DEF Find
<1>3. svc.at # "idle" <=> svc'.at # "idle"
  BY <1>1, <1>2
<1> QED
  BY <1>1, <1>2, <1>3, ServiceGoesOn

LEMMA ValidateFaithful ==
    ASSUME Sound, Keen, Steady, Faithful, Validate
    PROVE  Faithful'
<1>1. svc.at # "idle"
  BY DEF Validate
<1>2. PICK k \in Keys : k = svc.event.key
  BY <1>1, ServiceHas
<1>3. /\ svc.at = "validate" /\ svc' = IdleSvc /\ svc.at # "idle" /\ k \in Keys
      /\ UNCHANGED <<mode, list, global, events, inbox, back, version, job>>
  BY <1>2, ServiceHas DEF Validate, peerVars
<1>4. lock[k].owner = Service
  BY <1>3, <1>2 DEF Steady, Locking
<1>5. list[k] \notin Clients
  BY <1>3, <1>4, Parties DEF Steady, Listed, Locking
<1>6. list[k] \in {Ignore, None} /\ front \in [Keys -> Versions]
  BY <1>3, <1>5, TypesGiven DEF Steady, Typed
<1>7. \/ /\ list[k] = None /\ ~ IsPriming(svc.event) /\ front' = Without(front, {k})
         /\ listening' = listening \ Unregistered({k} \cap Cached(front), Service)
      \/ /\ ~ (list[k] = None /\ ~ IsPriming(svc.event)) /\ UNCHANGED <<front, listening>>
  BY <1>2 DEF Validate
<1>8. /\ listening' \subseteq listening
      /\ \A j \in listening : j \in listening' \/ lock[j].owner \in {None, Service}
  BY <1>7, UnregisteredParts
<1>9. \A j \in Keys : j # k => front'[j] = front[j]
  BY <1>6, <1>7, WithoutParts
<1>10. Entry(k)'
  <2>1. Entry(k)
    BY <1>3 DEF Faithful
  <2>2. CASE front'[k] = Absent
    BY <1>3, <2>1, <2>2 DEF Entry, Right, Agrees
  <2>3. CASE front'[k] # Absent
    <3>1. UNCHANGED front /\ (list[k] = Ignore \/ IsPriming(svc.event))
      BY <1>3, <1>6, <1>7, <2>3, WithoutParts
    <3>2. IsPriming(svc.event)
      BY <2>1, <2>3, <3>1 DEF Entry
    <3>3. ~ Carried(k)
      BY <3>2 DEF Carried, Changes, IsPriming
    <3>4. Right(front[k], k)
      BY <1>5, <2>1 DEF Entry
    <3>5. Right(front[k], k)'
      BY <1>3, <3>1, <3>3, <3>4 DEF Right, Agrees, Coming, After
    <3> QED
      BY <1>3, <2>1, <3>1, <3>5 DEF Entry
  <2> QED
    BY <2>2, <2>3
<1>11. ASSUME NEW d \in Clients PROVE Own(d)'
  <2>1. list[svc.event.key] # d /\ events'[d] = events[d] /\ Own(d)
    BY <1>3, <1>5, <1>2 DEF Faithful
  <2> QED
    BY <1>3, <1>8, <2>1, OwnAway
<1> QED
  BY <1>3, <1>8, <1>9, <1>10, <1>11, <1>2, ServiceIsDone

\* An event is for a list.
Found == svc.at = "add" => svc.found # None

\* The event comes to the list of a client.
LEMMA HearsOwn ==
    ASSUME Sound, Keen, Steady, Faithful, svc.at # "idle", svc' = IdleSvc,
           NEW c \in Clients, NEW k \in Keys, svc.event.key = k, list[k] = c, job[c].at # "front",
           events' = [events EXCEPT ![c] = [events[c] EXCEPT ![k] = Append(events[c][k], svc.event)]],
           UNCHANGED <<mode, listening, list, inbox, back, job>>
    PROVE  Own(c)'
<1> DEFINE evs == Append(events[c][k], svc.event)
<1>1. /\ job[c].at \in Listing /\ k \in job[c].locked /\ lock[k].owner = c
      /\ job[c].op \in {"get", "getAll", "put", "putAll"}
  BY DEF Steady, Listed, Locking
<1>2. svc.event \in Notes /\ svc.event.type \in Kinds
  BY ServiceHas, MessageParts
<1>3. events[c] \in [Keys -> Seq(Notes)] /\ events[c][k] \in Seq(Notes)
  BY SoundHas DEF Sifted, Steady, Typed, Heard
<1>4. /\ evs \in Seq(Notes) /\ Len(evs) = Len(events[c][k]) + 1 /\ Len(events[c][k]) \in Nat
      /\ evs[Len(evs)] = svc.event /\ \A i \in 1..Len(events[c][k]) : evs[i] = events[c][k][i]
      /\ DOMAIN evs = 1..Len(evs) /\ DOMAIN events[c][k] = 1..Len(events[c][k])
  BY <1>2, <1>3, AppendProperties, LenProperties
<1>5. events'[c][k] = evs /\ \A j \in Keys : j # k => events'[c][j] = events[c][j]
  <2>1. events = [d \in Clients |-> [j \in Keys |-> events[d][j]]]
    BY DEF Steady, Typed, Heard
  <2> QED
    BY <2>1
<1> HIDE DEF evs
<1>6. /\ ~ (\E j : Carried(j)') /\ \A j : j # k => ~ Carried(j)
      /\ Carried(k) => svc.event.type \in {"insert", "update", "delete"}
  BY DEF Carried, IdleSvc, Changes
<1>7. /\ \A j : j # k => \A v : Right(v, j)' = Right(v, j)
      /\ \A v : Right(v, k) => Right(v, k)' \/ Carried(k)
      /\ \A r, j : Before(r, j)' = Before(r, j) /\ After(r, j)' = After(r, j)
      /\ \A v, j : Agrees(v, j)' = Agrees(v, j)
      /\ Answers' = Answers
  BY <1>6 DEF Right, Agrees, Coming, After, Before, Answers
<1>8. /\ Len(evs) >= 1 /\ evs # <<>>
      /\ ~ OnlyLoaded(events[c][k]) \/ Carried(k) => ~ OnlyLoaded(evs)
      /\ events[c][k] # <<>> => Len(evs) >= 2
  <2>1. Len(evs) >= 1 /\ evs # <<>>
    BY <1>4
  <2>2. events[c][k] # <<>> => Len(evs) >= 2
    BY <1>3, <1>4, EmptySeq
  <2>3. Carried(k) => ~ OnlyLoaded(evs)
    BY <1>4, <1>6 DEF OnlyLoaded
  <2>4. ~ OnlyLoaded(events[c][k]) => ~ OnlyLoaded(evs)
    BY <1>4 DEF OnlyLoaded
  <2> QED
    BY <2>1, <2>2, <2>3, <2>4
<1>9. Reads(c)'
  <2>1. SUFFICES ASSUME job[c].op \in {"get", "getAll"}
                 PROVE  /\ job[c].at \in Unread => \A j \in Keys : job[c].values[j] = Absent
                        /\ \A j \in job[c].locked : list[j] = c
                        /\ job[c].at \in Filling => \A j \in job[c].locked :
                              Right(job[c].values[j], j)' \/ ~ OnlyLoaded(events'[c][j])
    BY <1>1 DEF Reads, OnlyLoaded
  <2>2. /\ job[c].at \in Unread => \A j \in Keys : job[c].values[j] = Absent
        /\ \A j \in job[c].locked : list[j] = c
        /\ job[c].at \in Filling => \A j \in job[c].locked :
              Right(job[c].values[j], j) \/ ~ OnlyLoaded(events[c][j])
    BY <1>1, <2>1 DEF Faithful, Own, Reads
  <2>3. ASSUME NEW j \in job[c].locked, Right(job[c].values[j], j) \/ ~ OnlyLoaded(events[c][j])
        PROVE  Right(job[c].values[j], j)' \/ ~ OnlyLoaded(events'[c][j])
    <3>1. j \in Keys
      BY ReadersOwn
    <3>2. CASE j # k
      <4>1. Right(job[c].values[j], j)' = Right(job[c].values[j], j)
        BY <1>7, <3>2
      <4> QED
        BY <1>5, <2>3, <3>1, <3>2, <4>1
    <3>3. CASE j = k
      <4>1. Right(job[c].values[j], j) => Right(job[c].values[j], j)' \/ Carried(k)
        BY <1>7, <3>3
      <4> QED
        BY <1>5, <1>8, <2>3, <3>3, <4>1
    <3> QED
      BY <3>2, <3>3
  <2> QED
    BY <2>2, <2>3
<1>10. Writes(c)'
  <2>1. SUFFICES ASSUME job[c].op \in {"put", "putAll"}, job[c].at = "asked",
                        NEW j \in listening, list[j] = c
                 PROVE  Wrote(c, j)'
    BY <1>1 DEF Writes, Faithful, Own
  <2>2. Wrote(c, j) /\ j \in Keys
    BY <2>1, TypesGiven DEF Faithful, Own, Writes, Steady, Typed
  <2>3. CASE j = k
    <3>1. \A r \in Answers : inbox[r] = Reply(c, "ok") => Agrees(job[c].values[k], k)' \/ After(r, k)'
      <4>1. Agrees(job[c].values[k], k)' = Agrees(job[c].values[k], k)
        BY <1>7
      <4> QED
        BY <1>7, <2>2, <2>3, <4>1 DEF Wrote
    <3>2. job[c].reply = "ok" => Len(evs) >= 2
      BY <1>8, <2>2, <2>3 DEF Wrote
    <3> QED
      BY <1>5, <1>7, <1>8, <2>3, <3>1, <3>2 DEF Wrote
  <2>4. CASE j # k
    <3>1. /\ Agrees(job[c].values[j], j)' = Agrees(job[c].values[j], j)
          /\ Right(job[c].values[j], j)' = Right(job[c].values[j], j)
      BY <1>7, <2>4
    <3>2. events'[c][j] = events[c][j] /\ ~ Carried(j)
      BY <1>5, <1>6, <2>2, <2>4
    <3> QED
      BY <1>7, <2>2, <3>1, <3>2 DEF Wrote
  <2> QED
    BY <2>3, <2>4
<1>11. job[c].op = "get" /\ IsPriming(svc.event) =>
          /\ job[c].at = "registering" /\ k \in listening
          /\ Agrees(svc.event.value, k) \/ After(0, k)
  <2>1. SUFFICES ASSUME job[c].op = "get", IsPriming(svc.event)
                 PROVE  job[c].at = "registering" /\ k \in listening /\ (Agrees(svc.event.value, k) \/ After(0, k))
    OBVIOUS
  <2>2. Expected(0, k) /\ (Agrees(svc.event.value, k) \/ After(0, k))
    BY <2>1 DEF Faithful, PrimesCarried, Prime
  <2>3. PICK d \in Clients : Expects(d, k)
    BY <2>2 DEF Expected
  <2>4. d = c
    BY <1>1, <2>3 DEF Expects, Steady, Locking
  <2> QED
    BY <2>2, <2>3, <2>4 DEF Expects
<1>12. PrimesHeard(c)'
  <2>1. ASSUME job[c].op = "get", job[c].at \in {"lock", "assign", "ensure", "register"},
               NEW j \in Keys, NEW i \in DOMAIN events'[c][j]
        PROVE  ~ IsPriming(events'[c][j][i])
    <3>1. \A n \in DOMAIN events[c][j] : ~ IsPriming(events[c][j][n])
      BY <2>1 DEF Faithful, Own, PrimesHeard
    <3>2. CASE j # k
      BY <1>5, <2>1, <3>1, <3>2
    <3>3. CASE j = k
      <4>1. i \in 1..Len(evs) /\ events'[c][j][i] = evs[i]
        BY <1>4, <1>5, <2>1, <3>3
      <4>2. i \in 1..Len(events[c][k]) \/ i = Len(evs)
        BY <1>4, <4>1
      <4>3. ~ IsPriming(svc.event)
        BY <1>11, <2>1
      <4> QED
        BY <1>4, <3>1, <3>3, <4>1, <4>2, <4>3
    <3> QED
      BY <3>2, <3>3
  <2>2. ASSUME job[c].op = "get", job[c].at = "registering",
               NEW j \in job[c].locked, NEW i \in DOMAIN events'[c][j], IsPriming(events'[c][j][i])
        PROVE  j \in listening /\ (Right(events[c][j][i].value, j)' \/ i < Len(events'[c][j]))
    <3>1. \A n \in DOMAIN events[c][j] : IsPriming(events[c][j][n]) =>
             j \in listening /\ (Right(events[c][j][n].value, j) \/ n < Len(events[c][j]))
      BY <2>2 DEF Faithful, Own, PrimesHeard
    <3>2. CASE j # k
      <4>1. j \in Keys
        BY ReadersOwn
      <4>2. events'[c][j] = events[c][j] /\ i \in DOMAIN events[c][j] /\ IsPriming(events[c][j][i])
        BY <1>5, <2>2, <3>2, <4>1
      <4>3. Right(events[c][j][i].value, j)' = Right(events[c][j][i].value, j)
        BY <4>2, <1>6, <3>2 DEF Right, Agrees, Coming, After
      <4> QED
        BY <3>1, <4>2, <4>3
    <3>3. CASE j = k
      <4>1. i \in 1..Len(evs) /\ events'[c][j][i] = evs[i] /\ events'[c][j] = evs
        BY <1>4, <1>5, <2>2, <3>3
      <4>2. CASE i \in 1..Len(events[c][k])
        <5>1. i < Len(evs)
          BY <1>4, <4>2
        <5>2. IsPriming(events[c][k][i]) /\ i \in DOMAIN events[c][k]
          BY <1>4, <2>2, <4>1, <4>2
        <5> QED
          BY <3>1, <3>3, <4>1, <5>1, <5>2
      <4>3. CASE i = Len(evs)
        <5>1. events'[c][j][i] = svc.event
          BY <1>4, <4>1, <4>3
        <5>2. k \in listening /\ (Agrees(svc.event.value, k) \/ After(0, k))
          BY <1>11, <2>2, <5>1
        <5>3. events'[c][j][i].value \in {Absent, back'[k]} \/ After(0, k)'
          BY <5>1, <5>2, <1>7 DEF Agrees
        <5> QED
          BY <3>3, <5>2, <5>3 DEF Right, Agrees, Coming
      <4> QED
        BY <1>4, <4>1, <4>2, <4>3
    <3> QED
      BY <3>2, <3>3
  <2> QED
    BY <2>1, <2>2 DEF PrimesHeard, IsPriming
<1> QED
  BY <1>9, <1>10, <1>12 DEF Own

LEMMA AddFaithful ==
    ASSUME Sound, Keen, Steady, Faithful, Found, Add
    PROVE  Faithful'
<1>1. Typed
  BY DEF Steady
<1>2. PICK k \in Keys : k = svc.event.key
  BY <1>1, AddEffect
<1>3. /\ svc.at # "idle" /\ svc.found # None
      /\ UNCHANGED <<mode, front, listening, lock, list, global, inbox, back, version, job>>
  BY <1>1, AddEffect DEF Found
<1>4. CASE svc.found # Current(k)
  <2>1. UNCHANGED events /\ svc'.at = "lock" /\ svc'.event = svc.event
    BY <1>1, <1>2, <1>4, AddEffect
  <2> QED
    BY <1>3, <2>1, ServiceGoesOn
<1>5. CASE svc.found = Current(k) /\ svc.found \notin Clients
  <2>1. svc.found = Ignore /\ UNCHANGED events /\ svc' = IdleSvc
    BY <1>1, <1>2, <1>3, <1>5, AddEffect
  <2>2. Ignore \in {list[k], global} /\ list[k] \notin Clients
    BY <1>5, <2>1, Parties DEF Current
  <2>3. ASSUME NEW d \in Clients PROVE Own(d)'
    <3>1. list[svc.event.key] # d /\ events'[d] = events[d] /\ Own(d)
      BY <1>2, <2>1, <2>2 DEF Faithful
    <3> QED
      BY <1>3, <2>1, <3>1, OwnAway
  <2>4. Entry(k)'
    BY <1>3, <2>2 DEF Faithful, Entry, Right, Agrees
  <2> QED
    BY <1>2, <1>3, <2>1, <2>3, <2>4, ServiceIsDone
<1>6. CASE svc.found = Current(k) /\ svc.found \in Clients
  <2>1. PICK c \in Clients : c = svc.found
    BY <1>6
  <2>2. /\ svc' = IdleSvc /\ job[c].at # "front"
        /\ events' = [events EXCEPT ![c] = [events[c] EXCEPT ![k] = Append(events[c][k], svc.event)]]
    BY <1>1, <1>2, <1>6, <2>1, AddEffect, Parties
  <2>3. list[k] = c
    <3>1. global \in {Ignore, None} /\ Current(k) = c
      BY <1>1, <1>6, <2>1 DEF Typed, TypeOK
    <3> QED
      BY <3>1, Parties DEF Current
  <2>4. Own(c)'
    BY <1>2, <1>3, <2>2, <2>3, HearsOwn
  <2>5. ASSUME NEW d \in Clients, d # c PROVE Own(d)'
    <3>1. list[svc.event.key] # d /\ events'[d] = events[d] /\ Own(d)
      BY <1>1, <1>2, <2>2, <2>3, <2>5 DEF Faithful, Typed, Heard
    <3> QED
      BY <1>3, <2>2, <3>1, OwnAway
  <2>6. Entry(k)'
    BY <1>3, <2>3 DEF Faithful, Entry
  <2>7. \A d \in Clients : Own(d)'
    BY <2>4, <2>5
  <2> QED
    BY <1>2, <1>3, <2>2, <2>6, <2>7, ServiceIsDone
<1> QED
  BY <1>4, <1>5, <1>6

LEMMA FoundKept ==
    ASSUME Steady, Found, [Next]_vars
    PROVE  Found'
<1>1. CASE Peer
  BY <1>1 DEF Peer, OthersWrite, Refresh, Truncate, Found
<1>2. CASE Receive
  <2>1. svc'.at # "add"
    BY <1>2 DEF Receive, IdleSvc
  <2> QED
    BY <2>1 DEF Found
<1>3. CASE ServiceLock \/ Validate \/ Add
  <2>1. CASE ServiceLock
    <3>1. svc'.at \in {"validate", "find"}
      BY <2>1, ServiceHas DEF ServiceLock
    <3> QED
      BY <3>1 DEF Found
  <2>2. CASE Validate
    BY <2>2 DEF Validate, IdleSvc, Found
  <2>3. CASE Add
    <3>1. svc'.at \in {"idle", "lock"}
      BY <2>3, AddEffect DEF Steady, IdleSvc
    <3> QED
      BY <3>1 DEF Found
  <2> QED
    BY <1>3, <2>1, <2>2, <2>3
<1>4. CASE Find
  BY <1>4, ServiceHas DEF Find, Found
<1>5. ASSUME NEW c \in Clients, Starts(c) PROVE Found'
  BY <1>5 DEF Starts, Get, ContainsKey, Put, Remove, Expire, GetAll, PutAll, Clear, Start, Found
<1>6. ASSUME NEW c \in Clients, Works(c) PROVE Found'
  <2>1. UNCHANGED svc
    BY <1>6 DEF Works, Lock, Ensure, Ensured, LocksDone, Register, Registered, AskRead, AskWrite, AskFails,
              Judge, Release, Finish, Fail, Close, CloseFails, Open, Assign, LockNext, FinishGet,
              FrontKey, FinalizePut
  <2> QED
    BY <2>1 DEF Found
<1>7. CASE UNCHANGED vars
  BY <1>7 DEF vars, Found
<1> QED
  BY <1>1, <1>2, <1>3, <1>4, <1>5, <1>6, <1>7 DEF Next, Serves

LEMMA NextFaithful ==
    ASSUME Sound, Keen, Steady, Steady', Found, Faithful, [Next]_vars
    PROVE  Faithful'
<1>1. CASE Peer
  BY <1>1, PeerFaithful
<1>2. CASE Serves
  BY <1>2, ReceiveFaithful, ServiceLockFaithful, ValidateFaithful, FindFaithful, AddFaithful DEF Serves
<1>3. ASSUME NEW c \in Clients, Starts(c) \/ Works(c) PROVE Faithful'
  BY <1>3, StartsFaithful, WorksFaithful
<1>4. CASE UNCHANGED vars
  <2>1. UNCHANGED <<mode, front, listening, list, global, events, inbox, back, version, job>> /\ svc' = svc
    BY <1>4 DEF vars, mapVars, ctrlVars, peerVars
  <2> QED
    BY <2>1, ServiceGoesOn
<1> QED
  BY <1>1, <1>2, <1>3, <1>4 DEF Next

LEMMA InitFaithful == Init => Found /\ Faithful
<1>1. SUFFICES ASSUME Init PROVE Found /\ Faithful
  OBVIOUS
<1>2. svc.at = "idle" /\ inbox = <<>> /\ \A c \in Clients : job[c] = IdleJob
  BY <1>1 DEF Init, IdleSvc
<1>3. DOMAIN inbox = {} /\ Answers = {}
  BY <1>2 DEF Answers
<1>4. \A k \in Keys : Entry(k)
  BY <1>1, Parties DEF Init, Entry, Right, Agrees, Absent
<1>5. \A c \in Clients : Own(c)
  BY <1>2 DEF Own, Reads, Writes, PrimesHeard, IdleJob
<1>6. Certain
  BY <1>2, <1>3 DEF Certain, IdleJob
<1> QED
  BY <1>2, <1>3, <1>4, <1>5, <1>6 DEF Found, Faithful, PrimesSent, PrimesCarried

LEMMA AlwaysTruthful == Spec => [](Steady /\ Attentive /\ Found /\ Truthful)
<1>1. Init => Steady /\ Attentive /\ Found /\ Truthful
  BY InitSteady, InitKeen, InitFaithful DEF Attentive, Truthful
<1>2. Steady /\ Attentive /\ Found /\ Truthful /\ [Next]_vars => Steady' /\ Attentive' /\ Found' /\ Truthful'
  <2>1. SUFFICES ASSUME Steady, Attentive, Found, Truthful, [Next]_vars
                 PROVE  Steady' /\ Attentive' /\ Found' /\ Truthful'
    OBVIOUS
  <2>2. Steady' /\ Found'
    BY <2>1, NextSteady, FoundKept
  <2>3. Sound' => Sound
    BY <2>1, ModeStays DEF Sound, target, usage
  <2>4. Sound => Keen' /\ Faithful'
    BY <2>1, <2>2, NextKeen, NextFaithful DEF Attentive, Truthful
  <2> QED
    BY <2>2, <2>3, <2>4 DEF Attentive, Truthful
<1> QED
  BY <1>1, <1>2, PTL DEF Spec

(***************************************************************************)
(* In the uses the code is made for, the front map does not drift away     *)
(* from the back map: a value of a key that the back map has no more is    *)
(* there only while the event that removes it is on its way to             *)
(* CachingMap::validate, or while a client still has to look at the events *)
(* of its list for the key, in get, getAll or finalizePut.                 *)
(***************************************************************************)
THEOREM CoherentHolds == Spec => []Coherent
<1>1. Steady /\ Attentive /\ Found /\ Truthful => Coherent
  <2>1. SUFFICES ASSUME Faithful, NEW k \in Keys, front[k] \notin {Absent, back[k]}, list[k] \notin Clients
                 PROVE  Pending(k)
    BY DEF Coherent, Fresh, Truthful
  <2>2. Entry(k)
    BY <2>1 DEF Faithful
  <2>3. Coming(k)
    BY <2>1, <2>2 DEF Entry, Right, Agrees
  <2> QED
    BY <2>3 DEF Coming, After, Carried, Changes, Pending
<1> QED
  BY <1>1, AlwaysTruthful, PTL
================================================================================
