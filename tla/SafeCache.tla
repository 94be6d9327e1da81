------------------------------ MODULE SafeCache ------------------------------
(***************************************************************************)
(* The wrappers that restart what they wrap: SafeService, SafeCacheService *)
(* and SafeNamedCache over RemoteCacheService and RemoteNamedCache, for    *)
(* one cache name and one filter (or key) to listen to.                    *)
(*                                                                         *)
(* A remote service is gone for good once it has stopped, a remote cache   *)
(* once its channel is closed; the next use of a wrapper makes a new one,  *)
(* under the monitor of the SafeService ("safe") and registers again what  *)
(* the SafeNamedCache listens to.  ensureCache holds the monitor of the    *)
(* store of caches.  Services and remote caches are numbered in the order  *)
(* in which they are made; 0 is NULL.                                      *)
(*                                                                         *)
(* Abstractions: what a thread does under the safe monitor and nobody sees *)
(* before it is released is one step, and the monitor of a SafeNamedCache  *)
(* and that of a RemoteCacheService's store are held only within such a    *)
(* step or under the safe monitor.  Left out: the cache's data, member     *)
(* and service listeners, subjects.                                        *)
(***************************************************************************)
EXTENDS Naturals, FiniteSets

CONSTANTS Clients,
          SafeCaches,   \* the SafeNamedCache objects that can be made
          First,        \* the one that exists at the beginning
          NoOne,
          MaxServices,  \* bound: remote services made
          MaxCaches,    \* bound: remote caches made
          MaxCalls      \* bound: calls of all clients together

ASSUME SafeCacheConstants ==
    /\ NoOne \notin Clients \cup SafeCaches /\ First \in SafeCaches
    /\ MaxServices \in Nat \ {0} /\ MaxCaches \in Nat \ {0} /\ MaxCalls \in Nat

Services  == 1 .. MaxServices
Caches    == 1 .. MaxCaches
Listeners == {"lite", "full"}      \* one that can do without the values, one that cannot
Modes     == Listeners \cup {"none"}

VARIABLES state,     \* m_safeServiceState
          service,   \* m_hService
          alive,     \* the remote services that run
          notices,   \* those whose connectionClosed is still to be handled
          made,      \* how many services have been made
          store,     \* f_hStoreNamedCache of the safe service
          born,      \* the safe caches made so far
          wrapped,   \* m_hNamedCache of every safe cache
          released,  \* those with m_fIsReleased
          support,   \* f_hListenerSupport: the listeners of every safe cache
          owner,     \* the service of every remote cache
          open,      \* the remote caches whose channel is open
          stored,    \* f_hStoreRemoteNamedCache of every remote service
          attached,  \* the listener support of every remote cache
          server,    \* what the proxy has registered for it
          safe,      \* who holds the monitor of the safe service
          storing,   \* who holds the monitor of its store
          job,       \* what each client does
          broken,    \* history: safe caches whose release threw half-way
          marred,    \* history: listener calls have overlapped, or one failed on an open channel
          calls      \* the calls begun

top    == <<state, service, alive, made>>
names  == <<store, stored, born>>
ears   == <<support, attached, server>>
locks  == <<safe, storing>>
remote == <<owner, open>>
vars   == <<top, notices, names, wrapped, released, remote, ears, locks, job, broken, marred, calls>>

Idle == [at |-> "idle", for |-> "none", n |-> NoOne, k |-> 0, s |-> 0, mode |-> "none"]

\* The cache factory has started the service and asked it for a cache, to which the
\* application may already listen.
Init == /\ state = "started" /\ service = 1 /\ alive = {1} /\ notices = {} /\ made = 1
        /\ store = First /\ born = {First}
        /\ wrapped = [n \in SafeCaches |-> IF n = First THEN 1 ELSE 0]
        /\ released = {} /\ \E heard \in {"none", "lite"} :
              /\ support = [n \in SafeCaches |-> IF n = First THEN {heard} \ {"none"} ELSE {}]
              /\ attached = [k \in Caches |-> [n \in SafeCaches |->
                                IF k = 1 /\ n = First THEN heard ELSE "none"]]
              /\ server = [k \in Caches |-> IF k = 1 THEN heard ELSE "none"]
        /\ owner = [k \in Caches |-> IF k = 1 THEN 1 ELSE 0] /\ open = {1}
        /\ stored = [s \in Services |-> IF s = 1 THEN 1 ELSE 0]
        /\ safe = NoOne /\ storing = NoOne
        /\ job = [c \in Clients |-> Idle]
        /\ broken = {} /\ marred = FALSE /\ calls = 0

Running  == service \in alive
Active(n) == wrapped[n] \in open
Closing(s) == {k \in open : owner[k] = s}

(***************************************************************************)
(* The steps of a call.  A call ends by giving back what it holds.         *)
(***************************************************************************)
At(c, p) == job[c].at = p
Job(c)   == job[c]
Does(c, j) == job' = [job EXCEPT ![c] = j]
Goes(c, p) == job' = [job EXCEPT ![c].at = p]

Releases(c) == /\ safe' = IF safe = c THEN NoOne ELSE safe
               /\ storing' = IF storing = c THEN NoOne ELSE storing
Ends(c) == Does(c, Idle) /\ Releases(c)

Calls(c) == At(c, "idle") /\ calls < MaxCalls /\ calls' = calls + 1
Call(for, n, p, mode) == [at |-> p, for |-> for, n |-> n, k |-> 0, s |-> 0, mode |-> mode]

\* Adding and removing listeners, restarting with them and releasing them.
Listens(c) == \/ job[c].at \in {"attach", "detach", "send"}
              \/ job[c].for = "get" /\ job[c].at \in {"running", "renew", "fetch"}
Overlaps(c) == marred' = (marred \/ \E d \in Clients \ {c} : Listens(d))

(***************************************************************************)
(* SafeService: start, shutdown (stop does the same), and                  *)
(* ensureRunningService.  A start may fail.                                *)
(***************************************************************************)
Renew == \/ /\ made < MaxServices
            /\ made' = made + 1 /\ service' = made + 1 /\ alive' = alive \cup {made + 1}
         \/ /\ service' = 0
            /\ UNCHANGED <<made, alive>>

Start(c) ==
    /\ Calls(c) /\ safe = NoOne
    /\ state' = "started"
    /\ IF Running THEN UNCHANGED <<service, alive, made>> ELSE Renew
    /\ UNCHANGED <<notices, names, wrapped, released, remote, ears, locks, job, broken, marred>>

Shutdown(c) ==
    /\ Calls(c) /\ safe = NoOne /\ state # "stopped"
    /\ state' = "stopped" /\ service' = 0 /\ alive' = alive \ {service}
    /\ open' = open \ Closing(service)
    /\ store' = NoOne
    /\ UNCHANGED <<notices, made, stored, born, wrapped, released, owner, ears, locks, job, broken, marred>>

\* ensureCache is here twice, the second time with a remote cache: the store asks the
\* service for its type.
Proceeds(c, s) == Does(c, [Job(c) EXCEPT !.at = IF Job(c).k = 0 THEN "fetch" ELSE "put", !.s = s])

EnsureRunning(c) ==
    /\ At(c, "running")
    /\ IF Running THEN Proceeds(c, service) ELSE Goes(c, "renew")
    /\ UNCHANGED <<top, notices, names, wrapped, released, remote, ears, locks, broken, marred, calls>>

\* The monitor is re-entrant.  Fault: it is not.
EntersNew(c) == safe = NoOne
Enters(c) == safe \in {NoOne, c}

\* Fault: the test before the monitor is not repeated under it.
RenewsAlways == state = "started"
Renews == state = "started" /\ ~ Running

RestartService(c) ==
    /\ At(c, "renew") /\ Enters(c)
    /\ IF Renews THEN Renew ELSE UNCHANGED <<service, alive, made>>
    /\ IF state = "started" /\ service' # 0
          THEN Proceeds(c, service') /\ UNCHANGED locks
          ELSE Ends(c)
    /\ UNCHANGED <<state, notices, names, wrapped, released, remote, ears, broken, marred, calls>>

(***************************************************************************)
(* ensureCache, of the safe service and of the remote one: the same remote *)
(* cache as long as it is active.                                          *)
(***************************************************************************)
EnsureCache(c) ==
    /\ Calls(c) /\ store = NoOne      \* or it returns what is there
    /\ Cardinality({d \in Clients : Job(d).for = "ensure"}) < Cardinality(SafeCaches \ born)
    /\ Does(c, Call("ensure", NoOne, "list", "none"))
    /\ UNCHANGED <<top, notices, names, wrapped, released, remote, ears, locks, broken, marred>>

\* The code does not look into the store again.
LockStore(c) ==
    /\ At(c, "list") /\ storing = NoOne
    /\ storing' = c /\ Goes(c, "running")
    /\ UNCHANGED <<top, notices, names, wrapped, released, remote, ears, safe, broken, marred, calls>>

\* The remote cache k: the one in the service's store, or a new one.
RemoteEnsure(s, k) ==
    /\ s \in alive
    /\ IF stored[s] \in open
          THEN k = stored[s] /\ UNCHANGED <<owner, open, stored>>
          ELSE /\ owner[k] = 0 /\ \A i \in Caches : i < k => owner[i] # 0
               /\ owner' = [owner EXCEPT ![k] = s] /\ open' = open \cup {k}
               /\ stored' = [stored EXCEPT ![s] = k]

RemoteEnsureFails(s) == s \notin alive \/ stored[s] \notin open

\* What ensureCache (on to putCache) and restartNamedCache do with it.
Wrap(c, k) ==
    IF Job(c).for = "ensure"
       THEN Does(c, [Job(c) EXCEPT !.at = "running", !.k = k]) /\ UNCHANGED <<wrapped, locks>>
       ELSE IF support[Job(c).n] = {}
          THEN Ends(c) /\ wrapped' = [wrapped EXCEPT ![Job(c).n] = k]
          ELSE Does(c, [Job(c) EXCEPT !.at = "attach", !.k = k]) /\ UNCHANGED <<wrapped, locks>>

Fetch(c) ==
    /\ At(c, "fetch")
    /\ \/ \E k \in Caches : RemoteEnsure(Job(c).s, k) /\ Wrap(c, k)
       \/ RemoteEnsureFails(Job(c).s) /\ Ends(c) /\ UNCHANGED <<stored, remote, wrapped>>
    /\ UNCHANGED <<top, notices, store, born, released, ears, broken, marred, calls>>

\* The new safe cache is in the store, though its remote cache may be closed by now.
PutCache(c) ==
    /\ At(c, "put")
    /\ \E n \in SafeCaches \ born :
          /\ born' = born \cup {n} /\ store' = n
          /\ wrapped' = [wrapped EXCEPT ![n] = Job(c).k]
    /\ Ends(c)
    /\ UNCHANGED <<top, notices, stored, released, remote, ears, broken, marred, calls>>

(***************************************************************************)
(* getRunningNamedCache.  Nothing happens to a cache that is active; else  *)
(* the test is repeated under the monitors, and the cache is restarted.    *)
(***************************************************************************)
Get(c, n) ==
    /\ Calls(c) /\ n \in born /\ ~ Active(n)
    /\ Does(c, Call("get", n, "monitor", "none"))
    /\ UNCHANGED <<top, notices, names, wrapped, released, remote, ears, locks, broken, marred>>

\* Fault: a released cache is restarted.
RestartableAnyhow(n) == ~ Active(n)
Restartable(n) == ~ Active(n) /\ n \notin released

GetRunning(c) ==
    LET n == Job(c).n
    IN /\ At(c, "monitor") /\ safe = NoOne
       /\ IF Restartable(n)
             THEN /\ safe' = c /\ wrapped' = [wrapped EXCEPT ![n] = 0]
                  /\ Goes(c, "running") /\ Overlaps(c) /\ UNCHANGED storing
             ELSE Ends(c) /\ UNCHANGED <<wrapped, marred>>
       /\ UNCHANGED <<top, notices, names, released, remote, ears, broken, calls>>

(***************************************************************************)
(* Listeners, first those of the safe cache ...                            *)
(***************************************************************************)
\* Fault: a listener that wants the values does not upgrade one that does not.
TellsFirst(n, l) == support[n] = {}
Tells(n, l) == support[n] = {} \/ ("full" \notin support[n] /\ l = "full")

AddListener(c, n, l) ==
    /\ Calls(c) /\ n \in born
    /\ support' = [support EXCEPT ![n] = @ \cup {l}]
    /\ IF Tells(n, l) THEN Does(c, Call("add", n, "attach", l)) ELSE UNCHANGED job
    /\ Overlaps(c)
    /\ UNCHANGED <<top, notices, names, wrapped, released, remote, attached, server, locks, broken>>

RemoveListener(c, n, l) ==
    /\ Calls(c) /\ n \in born
    /\ support' = [support EXCEPT ![n] = @ \ {l}]
    /\ IF support'[n] = {} THEN Does(c, Call("remove", n, "detach", "none")) ELSE UNCHANGED job
    /\ Overlaps(c)
    /\ UNCHANGED <<top, notices, names, wrapped, released, remote, attached, server, locks, broken>>

(***************************************************************************)
(* ... then those of the remote cache, among them the safe cache itself.   *)
(* Only the first one, or the first one that wants values, and the last    *)
(* one to go are told to the proxy, outside of the monitor.                *)
(***************************************************************************)
Mode(c) == IF Job(c).for = "add" THEN Job(c).mode
           ELSE IF "full" \in support[Job(c).n] THEN "full" ELSE "lite"
Target(c) == IF Job(c).for = "get" THEN Job(c).k ELSE wrapped[Job(c).n]

Has(k, mode) == \E n \in SafeCaches : attached[k][n] = mode
Deaf(k)      == \A n \in SafeCaches : attached[k][n] = "none"

\* The end of a listener's step on the remote cache.
Done(c) ==
    CASE Job(c).for = "get" -> /\ wrapped' = [wrapped EXCEPT ![Job(c).n] = Job(c).k]
                               /\ Ends(c)
      [] Job(c).for = "release" -> Goes(c, "unlist") /\ UNCHANGED <<wrapped, locks>>
      [] OTHER -> Ends(c) /\ UNCHANGED wrapped

Attach(c) ==
    LET k == Target(c)
        n == Job(c).n
    IN /\ At(c, "attach")
       /\ IF k = 0
             THEN Done(c) /\ UNCHANGED attached      \* the restart will do it
             ELSE /\ attached' = [attached EXCEPT ![k][n] = Mode(c)]
                  /\ IF Deaf(k) \/ (~ Has(k, "full") /\ Mode(c) = "full")
                        THEN /\ Does(c, [Job(c) EXCEPT !.at = "send", !.k = k, !.mode = Mode(c)])
                             /\ UNCHANGED <<wrapped, locks>>
                        ELSE Done(c)
       /\ UNCHANGED <<top, notices, names, released, remote, support, server, broken, marred, calls>>

Detach(c) ==
    LET k == Target(c)
        n == Job(c).n
    IN /\ At(c, "detach")
       /\ IF k = 0
             THEN Done(c) /\ UNCHANGED attached
             ELSE /\ attached' = [attached EXCEPT ![k][n] = "none"]
                  /\ IF \A m \in SafeCaches \ {n} : attached[k][m] = "none"
                        THEN /\ Does(c, [Job(c) EXCEPT !.at = "send", !.k = k, !.mode = "none"])
                             /\ UNCHANGED <<wrapped, locks>>
                        ELSE Done(c)
       /\ UNCHANGED <<top, notices, names, released, remote, support, server, broken, marred, calls>>

Request(c) ==
    /\ At(c, "send") /\ Job(c).k \in open
    /\ server' = [server EXCEPT ![Job(c).k] = Job(c).mode]
    /\ Done(c)
    /\ UNCHANGED <<top, notices, names, released, remote, support, attached, broken, marred, calls>>

\* The request fails.  If the channel is closed, the wrapper ignores it; if not, it
\* throws, and the proxy may have received the request or not.  A restart always throws.
RequestFails(c) ==
    LET k == Job(c).k
        n == Job(c).n
        adds == Job(c).mode # "none"
        ignored == k \notin open /\ Job(c).for # "get"
    IN /\ At(c, "send")
       /\ attached' = IF adds THEN [attached EXCEPT ![k][n] = "none"] ELSE attached
       /\ support' = IF ignored \/ Job(c).for # "add" THEN support
                     ELSE [support EXCEPT ![n] = @ \ {Job(c).mode}]
       /\ server' \in IF k \in open THEN {server, [server EXCEPT ![k] = Job(c).mode]} ELSE {server}
       /\ marred' = (marred \/ k \in open)
       /\ IF ignored THEN Done(c) /\ UNCHANGED broken
          ELSE /\ Ends(c) /\ UNCHANGED wrapped
               /\ broken' = IF Job(c).for = "release" THEN broken \cup {n} ELSE broken
       /\ UNCHANGED <<top, notices, names, released, remote, calls>>

(***************************************************************************)
(* release of a SafeNamedCache holds the safe monitor; releaseCache of the *)
(* SafeCacheService does not.  The store forgets whatever it has under     *)
(* the name.                                                               *)
(***************************************************************************)
\* Fault: release does not set m_fIsReleased.
ReleasedNot(n) == released
Released(n) == released \cup {n}

Release(c, n) ==
    /\ Calls(c) /\ n \in born /\ safe = NoOne
    /\ safe' = c
    /\ released' = Released(n) /\ broken' = broken \ {n}
    /\ support' = [support EXCEPT ![n] = {}]
    /\ Does(c, Call("release", n, IF support[n] = {} THEN "unlist" ELSE "detach", "none"))
    /\ Overlaps(c)
    /\ UNCHANGED <<top, notices, names, wrapped, remote, attached, server, storing>>

\* setReleased needs the monitor of the cache: nobody is restarting or releasing it.
ReleaseCache(c, n) ==
    /\ Calls(c) /\ n \in born
    /\ ~ \E d \in Clients : safe = d /\ Job(d).n = n
    /\ released' = Released(n)
    /\ Does(c, Call("drop", n, "unlist", "none"))
    /\ UNCHANGED <<top, notices, names, wrapped, remote, ears, locks, broken, marred>>

Unlist(c) ==
    /\ At(c, "unlist") /\ storing = NoOne
    /\ store' = NoOne /\ Goes(c, "close")
    /\ UNCHANGED <<top, notices, stored, born, wrapped, released, remote, ears, locks, broken, marred, calls>>

\* Fault: the wrapped cache is only forgotten.
ClosedNot(n) == {}
Closed(n) == {wrapped[n]}

Close(c) ==
    LET n == Job(c).n
    IN /\ At(c, "close")
       /\ IF wrapped[n] = 0 \/ service = 0
             THEN UNCHANGED <<open, stored>>
             ELSE /\ open' = open \ Closed(n)
                  /\ stored' = [stored EXCEPT ![service] = 0]
       /\ wrapped' = IF Job(c).for = "release" THEN [wrapped EXCEPT ![n] = 0] ELSE wrapped
       /\ Ends(c)
       /\ UNCHANGED <<top, notices, store, born, released, owner, ears, broken, marred, calls>>

(***************************************************************************)
(* The connection is lost, the event dispatcher hears of it later, and     *)
(* releases what the service's store has by then; or the service stops.    *)
(***************************************************************************)
Lose(s) ==
    /\ s \in alive /\ Closing(s) # {} /\ open' = open \ Closing(s)
    /\ notices' = notices \cup {s}
    /\ UNCHANGED <<top, names, wrapped, released, owner, ears, locks, job, broken, marred, calls>>

ConnectionClosed(s) ==
    /\ s \in notices /\ notices' = notices \ {s}
    /\ open' = open \ {stored[s]} /\ stored' = [stored EXCEPT ![s] = 0]
    /\ UNCHANGED <<top, store, born, wrapped, released, owner, ears, locks, job, broken, marred, calls>>

Die(s) ==
    /\ s \in alive /\ alive' = alive \ {s}
    /\ open' = open \ Closing(s)
    /\ UNCHANGED <<state, service, made, notices, names, wrapped, released, owner, ears, locks, job,
                   broken, marred, calls>>

(***************************************************************************)
(* The specification.  Calls under way go on when the monitors they need   *)
(* are free, and requests are answered; nothing else must happen.          *)
(***************************************************************************)
Step(c) ==
    \/ EnsureRunning(c) \/ RestartService(c) \/ LockStore(c) \/ Fetch(c) \/ PutCache(c)
    \/ GetRunning(c) \/ Attach(c) \/ Detach(c) \/ Request(c) \/ RequestFails(c)
    \/ Unlist(c) \/ Close(c)

Begin(c) ==
    \/ Start(c) \/ Shutdown(c) \/ EnsureCache(c)
    \/ \E n \in SafeCaches :
          \/ Get(c, n) \/ Release(c, n) \/ ReleaseCache(c, n)
          \/ \E l \in Listeners : AddListener(c, n, l) \/ RemoveListener(c, n, l)

Next == \/ \E c \in Clients : Begin(c) \/ Step(c)
        \/ \E s \in Services : Lose(s) \/ ConnectionClosed(s) \/ Die(s)

Spec == Init /\ [][Next]_vars /\ \A c \in Clients : WF_vars(Step(c))

(***************************************************************************)
(* Properties.                                                             *)
(***************************************************************************)
Places   == {"idle", "running", "renew", "list", "fetch", "put", "monitor", "attach", "detach", "send",
             "unlist", "close"}
Purposes == {"none", "ensure", "get", "add", "remove", "release", "drop"}
Jobs     == [at : Places, for : Purposes, n : SafeCaches \cup {NoOne}, k : {0} \cup Caches,
             s : {0} \cup Services, mode : Modes]

\* The types, and a cache is released before its release can fail.
TypeOK ==
    /\ state \in {"started", "stopped"} /\ service \in {0} \cup Services
    /\ alive \subseteq Services /\ notices \subseteq Services /\ made \in Services
    /\ store \in SafeCaches \cup {NoOne} /\ born \subseteq SafeCaches /\ released \subseteq born
    /\ wrapped \in [SafeCaches -> {0} \cup Caches] /\ support \in [SafeCaches -> SUBSET Listeners]
    /\ owner \in [Caches -> {0} \cup Services] /\ open \subseteq Caches
    /\ stored \in [Services -> {0} \cup Caches]
    /\ attached \in [Caches -> [SafeCaches -> Modes]] /\ server \in [Caches -> Modes]
    /\ safe \in Clients \cup {NoOne} /\ storing \in Clients \cup {NoOne}
    /\ job \in [Clients -> Jobs]
    /\ broken \subseteq released /\ marred \in BOOLEAN /\ calls \in 0 .. MaxCalls

\* However many threads find the service down at once, and however they meet with a
\* shutdown: only one remote service runs, the one the wrapper knows, and none when it
\* was stopped explicitly.
OneService == alive \subseteq {service} /\ (state = "stopped" => alive = {})

\* CacheService::releaseCache: "The reference that is released using this method can no
\* longer be used": when nobody is at it any longer, its remote cache is closed and
\* stays so, even if it was being restarted meanwhile.
Unusable == \A n \in released \ broken :
               (\A c \in Clients : Job(c).n # n) => ~ Active(n)

\* The listeners of an active safe cache hear its events, with values if they want
\* them: through restarts, and also when two safe caches share a remote cache, but only
\* as long as the calls that add and remove do not overlap with each other or a restart.
Heard ==
    ~ marred /\ (\A c \in Clients : ~ Listens(c)) =>
        \A n \in SafeCaches : Active(n) /\ support[n] # {} =>
            /\ attached[wrapped[n]][n] # "none" /\ server[wrapped[n]] # "none"
            /\ "full" \in support[n] => server[wrapped[n]] = "full"

\* ensureCache holds the store and wants the safe monitor, release the other way round.
Embrace == \E c, d \in Clients : /\ storing = c /\ At(c, "renew")
                                 /\ safe = d /\ At(d, "unlist")

\* Every call returns, unless two of them embrace.
Returns == \A c \in Clients : ~ At(c, "idle") ~> At(c, "idle") \/ Embrace
=============================================================================
