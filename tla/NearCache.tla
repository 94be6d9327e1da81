------------------------------ MODULE NearCache ------------------------------
(***************************************************************************)
(* A NearCache (class CachingMap): a front map in the client's memory over *)
(* a back cache at the peer.  Client threads read through and write        *)
(* through; the service thread handles the events of the back cache and    *)
(* removes from the front what others have changed.                        *)
(*                                                                         *)
(* A thread that moves the value of a key between the maps locks the key   *)
(* in the control map and puts a list of events there.  An event about a   *)
(* locked key goes to the list, and the thread looks at its list before it *)
(* touches the front map; an event about another key removes the key from  *)
(* the front map.  IGNORE is the list of a thread that will not fill the   *)
(* front map.  Operations of one key wait for its lock; those of several   *)
(* take the locks they can get.                                            *)
(*                                                                         *)
(* The peer is external: it handles a request in one step, and everything  *)
(* it sends goes through one inbox in order (events of a request before    *)
(* its response).  The back map's value of a key is a version number that  *)
(* is never used again, Absent for none.  Values put are not NULL.         *)
(* Monitors: a section of a client synchronized on its list is one step,   *)
(* or the steps of "front", into which no event is added.  The front map's *)
(* changes and their FrontMapListener are one step (OldCache does both     *)
(* under its monitor); the removal of a listener is sent without waiting   *)
(* for an answer and takes effect at once.  A lookup the front map answers *)
(* changes nothing.                                                        *)
(***************************************************************************)
EXTENDS Naturals, Sequences, FiniteSets

CONSTANTS Clients, Keys, Service, None, Ignore,
          Modes,       \* what a run looks at, see below
          MaxUnits,    \* entries the front map holds before it prunes
          MaxVersion   \* bound on the writes of the back map

(***************************************************************************)
(* A mode is the keys that are used, the target strategy of the map, the   *)
(* operations clients call, and what may happen besides:                   *)
(* "expire"  entries of the front map expire                               *)
(* "load"    the back map loads missing entries when they are read         *)
(* "refresh" the back map updates entries on its own (synthetic updates)   *)
(* "fail"    requests fail, before or after the peer has handled them      *)
(* "reset"   the back map is truncated, which resets the front map         *)
(***************************************************************************)
Operations == {"get", "containsKey", "put", "remove", "getAll", "putAll", "clear"}

ASSUME NearCacheConstants ==
    /\ IsFiniteSet(Clients) /\ IsFiniteSet(Keys)
    /\ Service \notin Clients
    /\ {None, Ignore} \cap (Clients \cup {Service}) = {} /\ None # Ignore
    /\ MaxUnits \in Nat \ {0} /\ MaxVersion \in Nat
    /\ Modes \subseteq [keys   : SUBSET Keys,
                         target : {"present", "auto", "all"},
                         ops    : SUBSET Operations,
                         usage  : SUBSET {"expire", "load", "refresh", "fail", "reset"}]

VARIABLES mode,       \* m_strategyTarget, and what clients and peer do
          strategy,   \* m_strategyCurrent
          front,      \* the front map
          listening,  \* the keys whose events reach the map's listener
          lock,       \* the control map's Lock of each key
          gate,       \* the thread that holds all keys, by the control map's gate
          list,       \* the control map's event list of each key: the client
                      \* whose list it is, Ignore or None
          global,     \* its event list for all keys: Ignore or None
          events,     \* the events in each client's list, by key: no client
                      \* looks at the order of events of different keys
          job,        \* the operation of each client
          svc,        \* the event the service thread handles
          back,       \* the back map
          version,    \* the last version written to it
          inbox       \* what the peer has sent

mapVars   == <<front, listening, strategy>>
ctrlVars  == <<lock, gate, list, global, events>>
peerVars  == <<back, version, inbox>>
vars      == <<mode, mapVars, ctrlVars, peerVars, job, svc>>

target    == mode.target
usage     == mode.usage

Absent    == 0
Versions  == 0..MaxVersion
Unlocked  == [owner |-> None, count |-> 0]

IdleJob   == [op |-> "none", at |-> "idle", keys |-> {}, locked |-> {},
              values |-> [k \in Keys |-> Absent], unlockable |-> {}, invalid |-> {},
              evicted |-> {}, holder |-> FALSE, all |-> FALSE, reply |-> "no"]
NoEvents  == [k \in Keys |-> <<>>]
IdleSvc   == [at |-> "idle", event |-> None, found |-> None]

Init == /\ mode \in Modes
        /\ strategy = "none"
        /\ front = [k \in Keys |-> Absent]
        /\ listening = {}
        /\ lock = [k \in Keys |-> Unlocked]
        /\ gate = None
        /\ list = [k \in Keys |-> None]
        /\ global = None
        /\ events = [c \in Clients |-> NoEvents]
        /\ job = [c \in Clients |-> IdleJob]
        /\ svc = IdleSvc
        /\ back = [k \in Keys |-> Absent]
        /\ version = 0
        /\ inbox = <<>>

-----------------------------------------------------------------------------
(* The peer. *)

Orders(S)      == {q \in [1..Cardinality(S) -> S] :
                     \A k \in S : \E i \in DOMAIN q : q[i] = k}
Event(k, t, v) == [type |-> t, key |-> k, value |-> v]
Reply(c, o)    == [type |-> "reply", client |-> c, outcome |-> o]

Natural(k, v)  == IF v = Absent THEN "delete"
                  ELSE IF back[k] = Absent THEN "insert" ELSE "update"

(* The back map's value of the keys S becomes v: it tells the listeners, *)
(* then answers with the given messages.                                 *)
Write(S, v, answer) ==
    /\ back' = [k \in Keys |-> IF k \in S THEN v ELSE back[k]]
    /\ \E q \in Orders({k \in S \cap listening : back[k] # v}) :
          inbox' = inbox \o [i \in DOMAIN q |-> Event(q[i], Natural(q[i], v), Absent)]
                         \o answer

NewVersion == /\ version < MaxVersion
              /\ version' = version + 1

(* Other clients write and remove. *)
OthersWrite(k) ==
    /\ \/ NewVersion /\ Write({k}, version', <<>>)
       \/ back[k] # Absent /\ Write({k}, Absent, <<>>) /\ UNCHANGED version
    /\ UNCHANGED <<mode, mapVars, ctrlVars, job, svc>>

Refresh(k) ==
    /\ "refresh" \in usage /\ back[k] # Absent /\ NewVersion
    /\ back' = [back EXCEPT ![k] = version']
    /\ inbox' = IF k \in listening THEN Append(inbox, Event(k, "refresh", version'))
                                   ELSE inbox
    /\ UNCHANGED <<mode, mapVars, ctrlVars, job, svc>>

(* A truncation is one event, for the map's DeactivationListener. *)
Truncate ==
    /\ "reset" \in usage
    /\ \E k \in Keys : back[k] # Absent
    /\ back' = [k \in Keys |-> Absent]
    /\ inbox' = Append(inbox, [type |-> "truncate"])
    /\ UNCHANGED <<mode, mapVars, ctrlVars, version, job, svc>>

Outcomes == {"ok"} \cup IF "fail" \in usage THEN {"error"} ELSE {}

-----------------------------------------------------------------------------
(* The control map and the listeners. *)

Free(k, t)    == gate \in {None, t} /\ lock[k].owner \in {None, t}
Locked(lk, S, t) == [k \in Keys |-> IF k \in S
                        THEN [owner |-> t, count |-> lk[k].count + 1] ELSE lk[k]]
Released(lk, S)  == [k \in Keys |-> IF k \notin S THEN lk[k]
                        ELSE IF lk[k].count = 1 THEN Unlocked
                        ELSE [lk[k] EXCEPT !.count = @ - 1]]

(* unregisterListener is for the strategy "present" only, and only for a *)
(* key that can be locked at once.                                       *)
Unregistered(S, t) == IF strategy = "present" THEN {k \in S : Free(k, t)} ELSE {}

Cached(f)   == {k \in Keys : f[k] # Absent}
Without(f, S) == [k \in Keys |-> IF k \in S THEN Absent ELSE f[k]]
Cleared(S)  == [k \in Keys |-> IF k \in S THEN None ELSE list[k]]

(* What may expire before an access of the front map, and what it prunes *)
(* after a put has made it f.                                            *)
Expiring    == IF "expire" \in usage THEN SUBSET Cached(front) ELSE {{}}
Pruning(f)  == IF Cardinality(Cached(f)) <= MaxUnits THEN {{}}
               ELSE {P \in SUBSET Cached(f) : Cardinality(Cached(f) \ P) <= MaxUnits}

IsPriming(e) == e.type \in {"prime", "refresh"}

ensured == IF target = "all" THEN "all" ELSE "present"

-----------------------------------------------------------------------------
(* The operations of the clients. *)

Start(c, op, at, K) ==
    /\ op \in mode.ops /\ job[c].at = "idle"
    /\ job' = [job EXCEPT ![c] = [IdleJob EXCEPT !.op = op, !.at = at, !.keys = K,
                                  !.all = op \in {"put", "putAll"} /\ strategy = "all"]]
    /\ events' = [events EXCEPT ![c] = NoEvents]
    /\ UNCHANGED <<mode, mapVars, lock, gate, list, global, peerVars, svc>>

Get(c, k)         == front[k] = Absent /\ Start(c, "get", "lock", {k})
ContainsKey(c, k) == front[k] = Absent /\ Start(c, "containsKey", "lock", {k})
Put(c, k)         == Start(c, "put", "lock", {k})
Remove(c, k)      == Start(c, "remove", "lock", {k})
GetAll(c, K)      == /\ K \ Cached(front) # {}
                     /\ Start(c, "getAll", "ensure", K \ Cached(front))
PutAll(c, K)      == /\ Cardinality(K) > 1
                     /\ Start(c, "putAll", "locks", K)
Clear(c)          == Start(c, "clear", "close", {})

(* A lookup finds expired entries, which leave the front map. *)
Expire(c, k) ==
    /\ job[c].at = "idle" /\ "expire" \in usage /\ front[k] # Absent
    /\ front' = Without(front, {k})
    /\ listening' = listening \ Unregistered({k}, c)
    /\ UNCHANGED <<mode, strategy, ctrlVars, peerVars, job, svc>>

Lock(c) ==
    /\ job[c].at = "lock"
    /\ \A k \in job[c].keys : Free(k, c)
    /\ lock' = Locked(lock, job[c].keys, c)
    /\ job' = [job EXCEPT ![c].at = "assign", ![c].locked = job[c].keys]
    /\ UNCHANGED <<mode, mapVars, gate, list, global, events, peerVars, svc>>

(* The list of a key c has locked: its own if it may fill the front map. *)
Fills(c, k)     == \/ job[c].op \in {"get", "getAll"}
                   \/ /\ job[c].op \in {"put", "putAll"}
                      /\ front[k] # Absent \/ job[c].all
ListForNone(c, k) == IF Fills(c, k) THEN c ELSE None  \* Fault: no list for the others
ListFor(c, k)   == IF Fills(c, k) THEN c ELSE Ignore

(* The locks c gives back in the end, and after a bulk unregistration. *)
UnlockTwice(lk, c)   == Released(Released(lk, job[c].locked), job[c].locked) \* Fault
Unlock(lk, c)        == Released(lk, job[c].locked)
UnevictNothing(lk, c) == lk                                                  \* Fault
Unevict(lk, c)       == Released(lk, job[c].evicted)

(* With the key locked: look into the front map again and choose the list. *)
Assign(c, k) ==
    /\ job[c].at = "assign" /\ job[c].keys = {k}
    /\ IF job[c].op \in {"get", "containsKey"} /\ front[k] # Absent
       THEN /\ job' = [job EXCEPT ![c] = IdleJob]
            /\ lock' = Released(lock, {k})
            /\ UNCHANGED <<list, front, listening>>
       ELSE /\ list' = [list EXCEPT ![k] = ListFor(c, k)]
            /\ job' = [job EXCEPT ![c].at = IF job[c].op = "get" THEN "ensure" ELSE "ask"]
            /\ IF job[c].op = "remove"
               THEN /\ front' = Without(front, {k})
                    /\ listening' = listening \ Unregistered({k} \cap Cached(front), c)
               ELSE UNCHANGED <<front, listening>>
            /\ UNCHANGED lock
    /\ UNCHANGED <<mode, strategy, gate, global, events, peerVars, svc>>

(* ensureInvalidationStrategy: for "all" the global listener is registered *)
(* by a request, by one thread at a time.                                  *)
AfterEnsure(c) == IF job[c].op = "getAll" THEN "locks"
                  ELSE IF target = "all" THEN "ask" ELSE "register"

Ensure(c) ==
    /\ job[c].at = "ensure"
    /\ IF target = "all" /\ strategy # "all"
       THEN /\ \A d \in Clients : job[d].at # "ensuring"
            /\ \E o \in Outcomes : inbox' = Append(inbox, Reply(c, o))
            /\ listening' = Keys
            /\ job' = [job EXCEPT ![c].at = "ensuring"]
            /\ UNCHANGED strategy
       ELSE /\ strategy' = ensured
            /\ job' = [job EXCEPT ![c].at = AfterEnsure(c)]
            /\ UNCHANGED <<inbox, listening>>
    /\ UNCHANGED <<mode, front, ctrlVars, back, version, svc>>

Ensured(c) ==
    /\ job[c].at = "ensuring" /\ job[c].reply = "ok"
    /\ strategy' = "all"
    /\ job' = [job EXCEPT ![c].at = AfterEnsure(c), ![c].reply = "no"]
    /\ UNCHANGED <<mode, front, listening, ctrlVars, peerVars, svc>>

(* getAll and putAll: lock one more key without waiting, or leave it. *)
LockNext(c, k) ==
    /\ job[c].at = "locks" /\ k \in job[c].keys \ (job[c].locked \cup job[c].unlockable)
    /\ IF Free(k, c)
       THEN /\ lock' = Locked(lock, {k}, c)
            /\ list' = [list EXCEPT ![k] = ListFor(c, k)]
            /\ job' = [job EXCEPT ![c].locked = @ \cup {k}]
       ELSE /\ job' = [job EXCEPT ![c].unlockable = @ \cup {k}]
            /\ UNCHANGED <<lock, list>>
    /\ UNCHANGED <<mode, mapVars, gate, global, events, peerVars, svc>>

LocksDone(c) ==
    /\ job[c].at = "locks" /\ job[c].keys = job[c].locked \cup job[c].unlockable
    /\ IF job[c].op = "getAll" /\ target # "all"
       THEN /\ job' = [job EXCEPT ![c].at = "register"]
            /\ strategy' = "present"
       ELSE /\ job' = [job EXCEPT ![c].at = "ask"]
            /\ UNCHANGED strategy
    /\ UNCHANGED <<mode, front, listening, ctrlVars, peerVars, svc>>

(* registerListener(s): the peer answers with a priming event for each key. *)
Register(c) ==
    /\ job[c].at = "register"
    /\ listening' = listening \cup job[c].locked
    /\ \E q \in Orders(job[c].locked), o \in Outcomes :
          inbox' = inbox \o [i \in DOMAIN q |-> Event(q[i], "prime", back[q[i]])]
                         \o <<Reply(c, o)>>
    /\ job' = [job EXCEPT ![c].at = "registering"]
    /\ UNCHANGED <<mode, strategy, front, ctrlVars, back, version, svc>>

(* A get is primed by the last event of its list, if that is a priming one; *)
(* getAll takes all priming events, and keeps the earliest for a key.       *)
Primes(c, k) == {i \in DOMAIN events[c][k] : /\ IsPriming(events[c][k][i])
                                             /\ job[c].op = "get" => i = Len(events[c][k])}
Primed(c)    == {k \in Keys : Primes(c, k) # {}}
Priming(c, k) == events[c][k][CHOOSE i \in Primes(c, k) : \A j \in Primes(c, k) : i <= j]

Unprimed(c, k) ==
    LET evs == events[c][k]
    IN  IF Primes(c, k) = {} THEN evs
        ELSE IF job[c].op = "get" THEN SubSeq(evs, 1, Len(evs) - 1)
        ELSE SelectSeq(evs, LAMBDA e : ~IsPriming(e))

Registered(c) ==
    /\ job[c].at = "registering" /\ job[c].reply = "ok"
    /\ job' = [job EXCEPT ![c].reply = "no", ![c].keys = @ \ Primed(c),
                 ![c].values = [k \in Keys |-> IF k \in Primed(c) THEN Priming(c, k).value ELSE Absent],
                 ![c].at = IF job[c].keys \subseteq Primed(c) THEN "finish" ELSE "ask"]
    /\ events' = [events EXCEPT ![c] = [k \in Keys |-> Unprimed(c, k)]]
    /\ UNCHANGED <<mode, mapVars, lock, gate, list, global, peerVars, svc>>

(* The requests to the back map. *)
AskRead(c) ==
    /\ job[c].at = "ask" /\ job[c].op \in {"get", "getAll", "containsKey"}
    /\ \E L \in IF "load" \in usage /\ job[c].op # "containsKey"
                THEN SUBSET {k \in job[c].keys : back[k] = Absent} ELSE {{}} :
          /\ IF L = {} THEN UNCHANGED version ELSE NewVersion
          /\ back' = [k \in Keys |-> IF k \in L THEN version' ELSE back[k]]
          /\ \E q \in Orders(L \cap listening), o \in Outcomes :
                inbox' = inbox \o [i \in DOMAIN q |-> Event(q[i], "load", Absent)]
                               \o <<Reply(c, o)>>
    /\ job' = [job EXCEPT ![c].at = "asked",
                 ![c].values = [k \in Keys |-> IF k \in job[c].keys THEN back'[k] ELSE @[k]]]
    /\ UNCHANGED <<mode, mapVars, ctrlVars, svc>>

AskWrite(c) ==
    /\ job[c].at = "ask" /\ job[c].op \notin {"get", "getAll", "containsKey"}
    /\ \E o \in Outcomes :
          CASE job[c].op \in {"put", "putAll"} ->
                  NewVersion /\ Write(job[c].keys, version', <<Reply(c, o)>>)
            [] job[c].op = "remove" ->
                  UNCHANGED version /\ Write(job[c].keys, Absent, <<Reply(c, o)>>)
            [] job[c].op = "clear" ->
                  UNCHANGED version /\ Write(Keys, Absent, <<Reply(c, o)>>)
    /\ job' = [job EXCEPT ![c].at = "asked", ![c].values =
                 [k \in Keys |-> IF k \in job[c].keys THEN back'[k] ELSE Absent]]
    /\ UNCHANGED <<mode, mapVars, ctrlVars, svc>>

AskFails(c) ==
    /\ job[c].at \in {"register", "ask"} /\ "fail" \in usage
    /\ inbox' = Append(inbox, Reply(c, "error"))
    /\ job' = [job EXCEPT ![c].at = IF @ = "ask" THEN "asked" ELSE "registering"]
    /\ UNCHANGED <<mode, mapVars, ctrlVars, back, version, svc>>

Ready(c, ops) == /\ job[c].op \in ops
                 /\ \/ job[c].at = "finish"
                    \/ job[c].at = "asked" /\ job[c].reply = "ok"

(* get and getAll take a value into the front map if the only event was *)
(* that of its own loading.                                             *)
OnlyLoaded(evs) == Len(evs) = 0 \/ (Len(evs) = 1 /\ evs[1].type = "load")

(* Entries the front map prunes are locked, and unregistered together *)
(* afterwards (setKeyHolder); a thread that holds a pruned key keeps  *)
(* its listener.                                                      *)
FinishGet(c, k) ==
    /\ Ready(c, {"get"}) /\ k \in job[c].locked
    /\ LET v == job[c].values[k]
       IN  IF v # Absent /\ OnlyLoaded(events[c][k])
           THEN \E X \in Expiring :
                LET put == [Without(front, X) EXCEPT ![k] = v]
                IN  \E P \in Pruning(put) :
                       LET gone == {e \in X \cup P : strategy = "present" /\ Free(e, c)}
                       IN  /\ front' = Without(put, P)
                           /\ lock' = Locked(Locked(lock, gone \cap X, c), gone \cap P, c)
                           /\ job' = [job EXCEPT ![c].at = "release", ![c].evicted = gone,
                                                 ![c].holder = strategy = "present"]
                           /\ UNCHANGED listening
           ELSE /\ listening' = listening \ Unregistered({k}, c)
                /\ job' = [job EXCEPT ![c].at = "release"]
                /\ UNCHANGED <<front, lock>>
    /\ list' = [list EXCEPT ![k] = None]
    /\ events' = [events EXCEPT ![c] = NoEvents]
    /\ UNCHANGED <<mode, strategy, gate, global, peerVars, svc>>

Judge(c) ==
    /\ Ready(c, {"getAll"})
    /\ job' = [job EXCEPT ![c].at = IF job[c].locked = {} THEN "release" ELSE "front",
                          ![c].keys = job[c].locked,
                          ![c].invalid = {k \in Keys : ~OnlyLoaded(events[c][k])},
                          ![c].holder = strategy = "present"]
    /\ events' = [events EXCEPT ![c] = NoEvents]
    /\ UNCHANGED <<mode, mapVars, lock, gate, list, global, peerVars, svc>>

(* The key holder is a set, but every unregistration locks its key again. *)
FrontKey(c, k) ==
    /\ job[c].at = "front" /\ k \in job[c].keys
    /\ IF job[c].values[k] # Absent /\ k \notin job[c].invalid
       THEN \E X \in Expiring :
            LET put == [Without(front, X) EXCEPT ![k] = job[c].values[k]]
            IN  \E P \in Pruning(put) :
                   LET gone == {e \in X \cup P : strategy = "present" /\ Free(e, c)}
                   IN  /\ front' = Without(put, P)
                       /\ lock' = Locked(Locked(lock, gone \cap X, c), gone \cap P, c)
                       /\ job' = [job EXCEPT ![c].evicted = @ \cup gone,
                                    ![c].keys = @ \ {k},
                                    ![c].at = IF job[c].keys = {k} THEN "release" ELSE @]
       ELSE LET gone == Unregistered({k}, c)
            IN  /\ front' = Without(front, {k})
                /\ lock' = Locked(Locked(lock, gone \cap Cached(front), c), gone, c)
                /\ job' = [job EXCEPT ![c].evicted = @ \cup gone,
                             ![c].keys = @ \ {k},
                             ![c].at = IF job[c].keys = {k} THEN "release" ELSE @]
    /\ list' = [list EXCEPT ![k] = None]
    /\ UNCHANGED <<mode, strategy, listening, gate, global, events, peerVars, svc>>

(* unregisterListeners refuses if the strategy has been reset meanwhile, in *)
(* a destructor: the thread goes no further.                                *)
Release(c) ==
    /\ job[c].at = "release"
    /\ IF job[c].holder /\ strategy # "present"
       THEN /\ job' = [job EXCEPT ![c].at = "terminated"]
            /\ UNCHANGED <<listening, lock>>
       ELSE /\ listening' = listening \ job[c].evicted
            /\ lock' = Unlock(Unevict(lock, c), c)
            /\ job' = [job EXCEPT ![c] = IdleJob]
    /\ UNCHANGED <<mode, strategy, front, gate, list, global, events, peerVars, svc>>

(* finalizePut: the only event must be that of the put itself.  The put of *)
(* an entry that has left the front map f, or leaves it at once, is taken  *)
(* back: nobody has listened to it.                                        *)
ValidPutFirst(evs, f, k) == \* Fault: looks at the first event only
    IF Len(evs) = 0 THEN strategy # "all" /\ f[k] = Absent
                    ELSE evs[1].type # "delete"
ValidPut(evs, f, k) == IF Len(evs) = 0 THEN strategy # "all" /\ f[k] = Absent
                       ELSE Len(evs) = 1 /\ evs[1].type # "delete"

TakenBackNever(f, k, P) == {} \* Fault
TakenBack(f, k, P) == IF target = "present" /\ (f[k] = Absent \/ k \in P) THEN {k} ELSE {}

FinalizePut(c, k) ==
    /\ Ready(c, {"put", "putAll"}) /\ k \in job[c].locked
    /\ IF list[k] = Ignore
       THEN UNCHANGED <<front, listening>>
       ELSE \E X \in Expiring :
            LET evs  == events[c][k]
                kept == Without(front, X)
                put  == [kept EXCEPT ![k] = job[c].values[k]]
            IN  IF ValidPut(evs, kept, k)
                THEN \E P \in Pruning(put) :
                     LET drop == TakenBack(kept, k, P)
                     IN  /\ front' = Without(put, P \cup drop)
                         /\ listening' = listening \ Unregistered(X \cup P \cup drop, c)
                ELSE /\ front' = Without(kept, {k})
                     /\ listening' = listening \
                           Unregistered(X \cup ({k} \cap Cached(kept)), c)
    /\ list' = [list EXCEPT ![k] = None]
    /\ lock' = Released(lock, {k})
    /\ job' = [job EXCEPT ![c] = IF job[c].locked = {k} THEN IdleJob
                                 ELSE [job[c] EXCEPT !.locked = @ \ {k}]]
    /\ events' = [events EXCEPT ![c][k] = <<>>]
    /\ UNCHANGED <<mode, strategy, gate, global, peerVars, svc>>

Finish(c) ==
    /\ Ready(c, {"containsKey", "remove", "putAll"})
    /\ job[c].op = "putAll" => job[c].locked = {}
    /\ list' = Cleared(job[c].locked)
    /\ lock' = Unlock(lock, c)
    /\ job' = [job EXCEPT ![c] = IdleJob]
    /\ UNCHANGED <<mode, mapVars, gate, global, events, peerVars, svc>>

(* A request has failed.  If that was the registration, the list stays in *)
(* the control map; nobody will look at it.                               *)
Fail(c) ==
    /\ job[c].reply = "error" /\ job[c].op # "clear"
    /\ LET S == job[c].locked
       IN  /\ lock' = Unlock(lock, c)
           /\ list' = [k \in Keys |-> IF k \notin S THEN list[k]
                          ELSE IF job[c].at = "asked" THEN None ELSE Ignore]
           /\ front' = IF job[c].op \in {"put", "putAll"} THEN Without(front, S) ELSE front
           /\ listening' = CASE job[c].at = "ensuring"    -> {}
                             [] job[c].at = "registering" -> listening \ S
                             [] job[c].at = "asked" /\ job[c].op \in {"get", "getAll"}
                                                         -> listening \ Unregistered(S, c)
                             [] OTHER -> listening \ Unregistered(S \cap (Cached(front) \ Cached(front')), c)
    /\ job' = [job EXCEPT ![c] = IdleJob]
    /\ events' = [events EXCEPT ![c] = NoEvents]
    /\ UNCHANGED <<mode, strategy, gate, global, peerVars, svc>>

(* clear locks all keys if it can, and forgets the strategy; it gives up *)
(* after a second of attempts and leaves the front map to the events.    *)
Close(c) ==
    /\ job[c].at = "close" /\ gate = None /\ \A k \in Keys : lock[k] = Unlocked
    /\ gate' = c /\ global' = Ignore
    /\ front' = Without(front, Keys)
    /\ listening' = CASE strategy = "present" -> listening \ Cached(front)
                      [] strategy = "all"     -> {}
                      [] OTHER                -> listening
    /\ strategy' = "none"
    /\ job' = [job EXCEPT ![c].at = "ask"]
    /\ UNCHANGED <<mode, lock, list, events, peerVars, svc>>

CloseFails(c) ==
    /\ job[c].at = "close" /\ (gate # None \/ \E k \in Keys : lock[k] # Unlocked)
    /\ job' = [job EXCEPT ![c].at = "ask"]
    /\ UNCHANGED <<mode, mapVars, ctrlVars, peerVars, svc>>

Open(c) ==
    /\ job[c].op = "clear" /\ job[c].reply # "no"
    /\ IF gate = c THEN gate' = None /\ global' = None ELSE UNCHANGED <<gate, global>>
    /\ job' = [job EXCEPT ![c] = IdleJob]
    /\ UNCHANGED <<mode, mapVars, lock, list, events, peerVars, svc>>

-----------------------------------------------------------------------------
(* The service thread. *)

(* An event about a key without a listener is an orphan.  resetFrontMap *)
(* takes no lock.                                                       *)
Receive ==
    /\ svc.at = "idle" /\ inbox # <<>>
    /\ inbox' = Tail(inbox)
    /\ LET m == Head(inbox)
       IN  CASE m.type = "reply" ->
                  /\ job' = [job EXCEPT ![m.client].reply = m.outcome]
                  /\ UNCHANGED <<svc, front, strategy>>
             [] m.type = "truncate" ->
                  /\ front' = Without(front, Keys) /\ strategy' = "none"
                  /\ UNCHANGED <<svc, job>>
             [] OTHER ->
                  /\ svc' = IF m.key \in listening
                            THEN [IdleSvc EXCEPT !.at = "lock", !.event = m] ELSE svc
                  /\ UNCHANGED <<job, front, strategy>>
    /\ UNCHANGED <<mode, listening, ctrlVars, back, version>>

ServiceLock ==
    /\ svc.at = "lock"
    /\ LET k == svc.event.key
       IN  IF Free(k, Service)
           THEN /\ lock' = Locked(lock, {k}, Service)
                /\ svc' = [svc EXCEPT !.at = "validate"]
           ELSE /\ svc' = [svc EXCEPT !.at = "find"]
                /\ UNCHANGED lock
    /\ UNCHANGED <<mode, mapVars, gate, list, global, events, peerVars, job>>

(* With the key locked nobody uses it, unless a list was left behind. *)
Validate ==
    /\ svc.at = "validate"
    /\ LET k == svc.event.key
       IN  /\ IF list[k] = None /\ ~IsPriming(svc.event)
              THEN /\ front' = Without(front, {k})
                   /\ listening' = listening \ Unregistered({k} \cap Cached(front), Service)
              ELSE UNCHANGED <<front, listening>>
           /\ lock' = Released(lock, {k})
    /\ svc' = IdleSvc
    /\ UNCHANGED <<mode, strategy, gate, list, global, events, peerVars, job>>

Current(k) == IF list[k] # None THEN list[k] ELSE global

Find ==
    /\ svc.at = "find"
    /\ svc' = IF Current(svc.event.key) = None
              THEN [svc EXCEPT !.at = "lock"]
              ELSE [svc EXCEPT !.at = "add", !.found = Current(svc.event.key)]
    /\ UNCHANGED <<mode, mapVars, ctrlVars, peerVars, job>>

(* Under the monitor of the list it found: is it still the current one? *)
Add ==
    /\ svc.at = "add"
    /\ svc.found \in Clients => job[svc.found].at # "front"
    /\ IF svc.found = Current(svc.event.key)
       THEN /\ events' = IF svc.found = Ignore THEN events
                         ELSE [events EXCEPT ![svc.found][svc.event.key] = Append(@, svc.event)]
            /\ svc' = IdleSvc
       ELSE /\ svc' = [svc EXCEPT !.at = "lock", !.found = None]
            /\ UNCHANGED events
    /\ UNCHANGED <<mode, mapVars, lock, gate, list, global, peerVars, job>>

-----------------------------------------------------------------------------
Peer == \/ \E k \in mode.keys : OthersWrite(k) \/ Refresh(k)
        \/ Truncate

Starts(c) == \/ \E k \in mode.keys : \/ Get(c, k) \/ ContainsKey(c, k) \/ Put(c, k)
                                     \/ Remove(c, k) \/ Expire(c, k)
             \/ \E K \in SUBSET mode.keys : GetAll(c, K) \/ PutAll(c, K)
             \/ Clear(c)

Works(c) == \/ Lock(c) \/ Ensure(c) \/ Ensured(c) \/ LocksDone(c)
            \/ Register(c) \/ Registered(c)
            \/ AskRead(c) \/ AskWrite(c) \/ AskFails(c)
            \/ Judge(c) \/ Release(c) \/ Finish(c) \/ Fail(c)
            \/ Close(c) \/ CloseFails(c) \/ Open(c)
            \/ \E k \in Keys : \/ Assign(c, k) \/ LockNext(c, k) \/ FinishGet(c, k)
                               \/ FrontKey(c, k) \/ FinalizePut(c, k)

Serves == Receive \/ ServiceLock \/ Validate \/ Find \/ Add

Next == Peer \/ Serves \/ \E c \in Clients : Starts(c) \/ Works(c)

Spec == Init /\ [][Next]_vars

-----------------------------------------------------------------------------
(* The types of the variables: a lock belongs to a thread, an event list to *)
(* a client or to nobody (IGNORE), and the list of clear is IGNORE.         *)
TypeOK ==
    /\ mode \in Modes /\ strategy \in {"none", "present", "all"}
    /\ front \in [Keys -> Versions] /\ back \in [Keys -> Versions]
    /\ version \in Versions
    /\ listening \subseteq Keys
    /\ lock \in [Keys -> [owner : Clients \cup {Service, None}, count : Nat]]
    /\ gate \in Clients \cup {None}
    /\ list \in [Keys -> Clients \cup {Ignore, None}]
    /\ global \in {Ignore, None}
    /\ \A c \in Clients : /\ job[c].op \in Operations \cup {"none"}
                          /\ job[c].reply \in {"no", "ok", "error"}
    /\ svc.at \in {"idle", "lock", "validate", "find", "add"}
    /\ svc.found \in Clients \cup {Ignore, None}

(***************************************************************************)
(* What the code keeps coherent.  Outside of it                            *)
(*  - isPriming takes every synthetic update for a priming event;          *)
(*  - resetFrontMap takes no lock;                                         *)
(*  - with the strategy "auto", finalizePut keeps an entry it finds gone,  *)
(*    one that has expired or one the same putAll has pruned;              *)
(*  - with "all", put looks at the strategy before it has the lock, and    *)
(*    clear may remove the listener in between;                            *)
(*  - with "present" and "auto", getAll does not look into the front map   *)
(*    again once it has the locks, and locks a key twice that it unlocks   *)
(*    once; when it fails, it drops the events of entries that another     *)
(*    thread has put into the front map meanwhile.                         *)
(***************************************************************************)
Sound == /\ usage \cap {"refresh", "reset"} = {}
         /\ target = "auto" => "expire" \notin usage /\ "putAll" \notin mode.ops
         /\ target = "all" => "clear" \notin mode.ops
         /\ "getAll" \in mode.ops => target = "all" /\ "fail" \notin usage

(* An invalidation of k is on its way. *)
Pending(k) == \/ \E i \in DOMAIN inbox :
                    /\ inbox[i].type \in {"insert", "update", "delete", "load"}
                    /\ inbox[i].key = k
              \/ svc.at # "idle" /\ svc.event.key = k /\ svc.event.type # "prime"

(* The front map does not drift away from the back map: if it has another  *)
(* value of a key, the event that tells so is on its way (validate will    *)
(* remove the value), or a client that has a list for the key will look at *)
(* its events before it is done (get, getAll, finalizePut).                *)
Fresh == \A k \in Keys : front[k] \notin {Absent, back[k]} =>
            Pending(k) \/ list[k] \in Clients

(* The same, for the uses the code is made for. *)
Coherent == Sound => Fresh

(* An entry of the front map whose key nobody has locked is listened to:   *)
(* register and unregister, which several threads do for the same key, and *)
(* the evictions of the front map never leave it without a listener.       *)
Listened == Sound => \A k \in Keys :
               front[k] # Absent /\ lock[k].owner = None => k \in listening

(* A client that is done holds no lock: each lock that an operation, the   *)
(* front map's listener and the bulk unregistration have taken is given    *)
(* back as often as it was taken.                                          *)
AllReturned == \A c \in Clients : job[c].at = "idle" =>
                  \A k \in Keys : lock[k].owner # c

(* The same, for the uses the code is made for. *)
LocksReturned == Sound => AllReturned

(* validate spins on the service thread while a key is locked and has no   *)
(* list; so a client that waits for an answer, which only the service      *)
(* thread can bring, has a list for every key it holds.                    *)
Waits(c) == job[c].at \in {"ensuring", "registering", "asked"} /\ job[c].reply = "no"

NeverWaitsUnlisted == \A c \in Clients : Waits(c) =>
    \A k \in IF gate = c THEN Keys ELSE job[c].locked : Current(k) # None
=============================================================================
