--------------------------- MODULE SafeCacheProofs ---------------------------
(***************************************************************************)
(* Theorems about SafeCache, for any number of clients, services, caches   *)
(* and calls.                                                              *)
(***************************************************************************)
EXTENDS SafeCache, TLAPS

\* A new remote service is started only when the one the wrapper knows does not run
\* (SafeService::restartService), so that a start, whether it fails or not, leaves at
\* most one running.
LEMMA RenewKeepsOne ==
    ASSUME alive \subseteq {service}, ~ Running, Renew
    PROVE  alive' \subseteq {service'}
BY DEF Running, Renew

\* Each step of the system keeps OneService; only those that touch state, service or
\* alive can disturb it.
LEMMA StepKeepsOneService ==
    ASSUME OneService, [Next]_vars
    PROVE  OneService'
<1> USE DEF OneService
<1>0. CASE UNCHANGED top
  BY <1>0 DEF top
<1>1. ASSUME NEW c \in Clients, Start(c) PROVE OneService'
  BY <1>1, RenewKeepsOne DEF Start
<1>2. ASSUME NEW c \in Clients, Shutdown(c) PROVE OneService'
  BY <1>2 DEF Shutdown
<1>3. ASSUME NEW c \in Clients, RestartService(c) PROVE OneService'
  BY <1>3, RenewKeepsOne DEF RestartService, Renews
<1>4. ASSUME NEW s \in Services, Die(s) PROVE OneService'
  BY <1>4 DEF Die
<1>5. ASSUME NEW s \in Services, Lose(s) \/ ConnectionClosed(s) PROVE UNCHANGED top
  BY <1>5 DEF Lose, ConnectionClosed, top
<1>6. ASSUME NEW c \in Clients, Step(c), ~ RestartService(c) PROVE UNCHANGED top
  <2>1. CASE EnsureRunning(c) \/ LockStore(c) \/ Fetch(c) \/ PutCache(c) \/ GetRunning(c)
    BY <2>1 DEF EnsureRunning, LockStore, Fetch, PutCache, GetRunning
  <2>2. CASE Attach(c) \/ Detach(c) \/ Request(c) \/ RequestFails(c)
    BY <2>2 DEF Attach, Detach, Request, RequestFails
  <2>3. CASE Unlist(c) \/ Close(c)
    BY <2>3 DEF Unlist, Close
  <2> QED
    BY <1>6, <2>1, <2>2, <2>3 DEF Step
<1>7. ASSUME NEW c \in Clients, Begin(c), ~ Start(c), ~ Shutdown(c) PROVE UNCHANGED top
  <2>1. CASE EnsureCache(c)
    BY <2>1 DEF EnsureCache
  <2>2. ASSUME NEW n \in SafeCaches, Get(c, n) \/ Release(c, n) \/ ReleaseCache(c, n) PROVE UNCHANGED top
    BY <2>2 DEF Get, Release, ReleaseCache
  <2>3. ASSUME NEW n \in SafeCaches, NEW l \in Listeners, AddListener(c, n, l) \/ RemoveListener(c, n, l)
        PROVE  UNCHANGED top
    BY <2>3 DEF AddListener, RemoveListener
  <2> QED
    BY <1>7, <2>1, <2>2, <2>3 DEF Begin
<1>8. CASE UNCHANGED vars
  BY <1>0, <1>8 DEF vars
<1> QED
  BY <1>0, <1>1, <1>2, <1>3, <1>4, <1>5, <1>6, <1>7, <1>8 DEF Next

\* Only one remote service runs, the one the SafeService knows, and none once it has
\* been stopped explicitly (the second test in ensureRunningServiceInternal).
THEOREM OneServiceRuns == Spec => []OneService
<1>1. Init => OneService
  BY DEF Init, OneService
<1> QED
  BY <1>1, StepKeepsOneService, PTL DEF Spec

-----------------------------------------------------------------------------
(***************************************************************************)
(* The inductive invariant for TypeOK and Unusable.                        *)
(***************************************************************************)
\* What a call is for says which steps it takes and, once it is past the monitor of the
\* SafeService, that it holds it.  Nobody releases the cache that is being restarted.
Purposeful(c) ==
    LET j == job[c]
    IN /\ j.for = "none" <=> j.at = "idle"
       /\ j.for \notin {"none", "ensure"} => j.n \in SafeCaches
       /\ j.at \in {"running", "renew", "fetch"} => j.for \in {"get", "ensure"}
       /\ j.at = "list" => j.for = "ensure"
       /\ j.at = "put" => j.for = "ensure" /\ j.k # 0
       /\ j.for = "get" /\ j.at \in {"monitor", "running", "renew", "fetch"} => j.k = 0
       /\ j.at = "monitor" => j.for = "get"
       /\ j.at = "attach" => j.for \in {"get", "add"}
       /\ j.at = "detach" => j.for \in {"remove", "release"}
       /\ j.at \in {"unlist", "close"} <=> j.for = "drop" \/ (j.for = "release" /\ j.at \notin {"detach", "send"})
       /\ j.for = "get" /\ j.at # "monitor" => safe = c /\ j.n \notin released
       /\ j.for = "release" => safe = c
       /\ j.for \in {"release", "drop"} => j.n \in released

\* A remote cache that is open belongs to a service that runs, and only caches that
\* have been made are wrapped or in the hands of a call.
Known ==
    /\ \A k \in open : owner[k] \in alive
    /\ \A n \in SafeCaches : wrapped[n] = 0 \/ owner[wrapped[n]] # 0
    /\ \A c \in Clients : job[c].k = 0 \/ owner[job[c].k] # 0

\* A released cache is active only as long as the call that releases it is under way.
Settled == \A n \in released \ broken :
    Active(n) => \E c \in Clients : job[c].n = n /\ job[c].for \in {"release", "drop"}

Inv == TypeOK /\ OneService /\ (\A c \in Clients : Purposeful(c)) /\ Known /\ Settled

\* The parts of a job: what the steps of a call put together is a job again.
LEMMA JobParts ==
    ASSUME NEW j \in Jobs
    PROVE  /\ j.at \in Places /\ j.for \in Purposes /\ j.n \in SafeCaches \cup {NoOne}
           /\ j.k \in {0} \cup Caches /\ j.s \in {0} \cup Services /\ j.mode \in Modes
           /\ \A p \in Places : [j EXCEPT !.at = p] \in Jobs
           /\ \A p \in Places, s \in {0} \cup Services : [j EXCEPT !.at = p, !.s = s] \in Jobs
           /\ \A p \in Places, k \in {0} \cup Caches : [j EXCEPT !.at = p, !.k = k] \in Jobs
           /\ \A p \in Places, k \in {0} \cup Caches, m \in Modes :
                 [j EXCEPT !.at = p, !.k = k, !.mode = m] \in Jobs
BY DEF Jobs

LEMMA CallParts ==
    /\ Idle \in Jobs
    /\ \A f \in Purposes, n \in SafeCaches \cup {NoOne}, p \in Places, m \in Modes :
          Call(f, n, p, m) \in Jobs
BY DEF Idle, Jobs, Places, Purposes, Modes, Call

LEMMA InitInv == Init => Inv
<1> SUFFICES ASSUME Init PROVE Inv
  OBVIOUS
<1> USE SafeCacheConstants
<1>1. Idle \in Jobs
  BY DEF Idle, Jobs, Places, Purposes, Modes
<1>2. TypeOK
  <2>1. 1 \in Services /\ 1 \in Caches /\ 0 \in 0 .. MaxCalls
    BY DEF Services, Caches
  <2>2. PICK heard \in {"none", "lite"} :
          /\ support = [n \in SafeCaches |-> IF n = First THEN {heard} \ {"none"} ELSE {}]
          /\ attached = [k \in Caches |-> [n \in SafeCaches |->
                            IF k = 1 /\ n = First THEN heard ELSE "none"]]
          /\ server = [k \in Caches |-> IF k = 1 THEN heard ELSE "none"]
    BY DEF Init
  <2>3. heard \in Modes /\ "none" \in Modes /\ {heard} \ {"none"} \subseteq Listeners
    BY DEF Modes, Listeners
  <2>4. support \in [SafeCaches -> SUBSET Listeners]
    BY <2>2, <2>3
  <2>5. server \in [Caches -> Modes] /\ attached \in [Caches -> [SafeCaches -> Modes]]
    BY <2>2, <2>3
  <2> QED
    BY <1>1, <2>1, <2>4, <2>5 DEF Init, TypeOK
<1>3. OneService
  BY DEF Init, OneService
<1>4. \A c \in Clients : Purposeful(c)
  BY DEF Init, Purposeful, Idle
<1>5. Known
  BY DEF Init, Known, Idle, Caches
<1>6. Settled
  BY DEF Init, Settled
<1> QED
  BY <1>2, <1>3, <1>4, <1>5, <1>6 DEF Inv

-----------------------------------------------------------------------------
(***************************************************************************)
(* Types.                                                                  *)
(***************************************************************************)
LEMMA DoesTyped ==
    ASSUME TypeOK, NEW c \in Clients, NEW j \in Jobs, Does(c, j)
    PROVE  job' \in [Clients -> Jobs]
BY DEF TypeOK, Does

LEMMA GoesTyped ==
    ASSUME TypeOK, NEW c \in Clients, NEW p \in Places, Goes(c, p)
    PROVE  job' \in [Clients -> Jobs]
BY JobParts DEF TypeOK, Goes

LEMMA EndsTyped ==
    ASSUME TypeOK, NEW c \in Clients, Ends(c)
    PROVE  /\ job' \in [Clients -> Jobs]
           /\ safe' \in Clients \cup {NoOne} /\ storing' \in Clients \cup {NoOne}
BY DoesTyped, CallParts DEF TypeOK, Ends, Releases

LEMMA DoneTyped ==
    ASSUME TypeOK, NEW c \in Clients, Done(c)
    PROVE  /\ job' \in [Clients -> Jobs] /\ wrapped' \in [SafeCaches -> {0} \cup Caches]
           /\ safe' \in Clients \cup {NoOne} /\ storing' \in Clients \cup {NoOne}
<1>1. Job(c) \in Jobs /\ Job(c).k \in {0} \cup Caches
  BY JobParts DEF TypeOK, Job
<1>2. CASE Job(c).for = "get"
  BY <1>1, <1>2, EndsTyped DEF TypeOK, Done
<1>3. CASE Job(c).for = "release"
  BY <1>3, GoesTyped DEF TypeOK, Done, Places, locks
<1>4. CASE Job(c).for \notin {"get", "release"}
  BY <1>4, EndsTyped DEF TypeOK, Done
<1> QED
  BY <1>2, <1>3, <1>4

LEMMA RenewTyped ==
    ASSUME TypeOK, Renew
    PROVE  service' \in {0} \cup Services /\ alive' \subseteq Services /\ made' \in Services
<1> USE SafeCacheConstants DEF TypeOK
<1>1. CASE service' = 0 /\ UNCHANGED <<made, alive>>
  BY <1>1
<1>2. CASE made < MaxServices /\ made' = made + 1 /\ service' = made + 1 /\ alive' = alive \cup {made + 1}
  <2>1. made + 1 \in Services
    BY <1>2 DEF Services
  <2> QED
    BY <1>2, <2>1
<1> QED
  BY <1>1, <1>2 DEF Renew

\* Past ensureRunning a call fetches its remote cache or, if it has one, stores its safe
\* cache; the rest of the call stays.
LEMMA ProceedsParts ==
    ASSUME TypeOK, NEW c \in Clients, NEW s \in {0} \cup Services, Proceeds(c, s)
    PROVE  /\ job' \in [Clients -> Jobs] /\ \A d \in Clients \ {c} : job'[d] = job[d]
           /\ job'[c].at = (IF job[c].k = 0 THEN "fetch" ELSE "put")
           /\ job'[c].for = job[c].for /\ job'[c].n = job[c].n /\ job'[c].k = job[c].k
<1> DEFINE p == IF job[c].k = 0 THEN "fetch" ELSE "put"
<1>1. job[c] \in Jobs /\ p \in Places
  BY DEF TypeOK, Places
<1> DEFINE j == [job[c] EXCEPT !.at = p, !.s = s]
<1>2. j \in Jobs
  BY <1>1, JobParts
<1>3. Does(c, j)
  BY DEF Proceeds, Job
<1>4. job' \in [Clients -> Jobs] /\ job'[c] = j /\ \A d \in Clients \ {c} : job'[d] = job[d]
  BY <1>2, <1>3 DEF Does, TypeOK
<1>5. j.at = p /\ j.for = job[c].for /\ j.n = job[c].n /\ j.k = job[c].k
  BY <1>1 DEF Jobs
<1> QED
  BY <1>4, <1>5

LEMMA AttachedTyped ==
    ASSUME TypeOK, NEW k, NEW n, NEW m \in Modes
    PROVE  [attached EXCEPT ![k][n] = m] \in [Caches -> [SafeCaches -> Modes]]
<1>1. \A i \in Caches : attached[i] \in [SafeCaches -> Modes]
  BY DEF TypeOK
<1>2. \A i \in Caches : [attached[i] EXCEPT ![n] = m] \in [SafeCaches -> Modes]
  BY <1>1
<1> QED
  BY <1>1, <1>2 DEF TypeOK

LEMMA BeginTyped ==
    ASSUME TypeOK, NEW c \in Clients, Begin(c)
    PROVE  TypeOK'
<1> USE SafeCacheConstants DEF TypeOK
<1>0. ASSUME Calls(c) PROVE calls' \in 0 .. MaxCalls
  BY <1>0 DEF Calls
<1>1. CASE Start(c)
  BY <1>0, <1>1, RenewTyped DEF Start, names, remote, ears, locks
<1>2. CASE Shutdown(c)
  BY <1>0, <1>2 DEF Shutdown, ears, locks
<1>3. CASE EnsureCache(c)
  <2>1. Call("ensure", NoOne, "list", "none") \in Jobs
    BY CallParts DEF Places, Purposes, Modes
  <2>2. job' \in [Clients -> Jobs]
    BY <1>3, <2>1, DoesTyped DEF EnsureCache
  <2> QED
    BY <1>0, <1>3, <2>2 DEF EnsureCache, top, names, remote, ears, locks
<1>4. ASSUME NEW n \in SafeCaches, Get(c, n) PROVE TypeOK'
  <2>1. Call("get", n, "monitor", "none") \in Jobs
    BY CallParts DEF Places, Purposes, Modes
  <2>2. job' \in [Clients -> Jobs]
    BY <1>4, <2>1, DoesTyped DEF Get
  <2> QED
    BY <1>0, <1>4, <2>2 DEF Get, top, names, remote, ears, locks
<1>5. ASSUME NEW n \in SafeCaches, Release(c, n) PROVE TypeOK'
  <2>1. Call("release", n, "unlist", "none") \in Jobs /\ Call("release", n, "detach", "none") \in Jobs
    BY CallParts DEF Places, Purposes, Modes
  <2>2. job' \in [Clients -> Jobs]
    BY <1>5, <2>1, DoesTyped DEF Release
  <2>3. support' \in [SafeCaches -> SUBSET Listeners] /\ marred' \in BOOLEAN
    BY <1>5 DEF Release, Overlaps
  <2> QED
    BY <1>0, <1>5, <2>2, <2>3 DEF Release, Released, top, names, remote
<1>6. ASSUME NEW n \in SafeCaches, ReleaseCache(c, n) PROVE TypeOK'
  <2>1. Call("drop", n, "unlist", "none") \in Jobs
    BY CallParts DEF Places, Purposes, Modes
  <2>2. job' \in [Clients -> Jobs]
    BY <1>6, <2>1, DoesTyped DEF ReleaseCache
  <2> QED
    BY <1>0, <1>6, <2>2 DEF ReleaseCache, Released, top, names, remote, ears, locks
<1>7. ASSUME NEW n \in SafeCaches, NEW l \in Listeners, AddListener(c, n, l) PROVE TypeOK'
  <2>1. Call("add", n, "attach", l) \in Jobs
    BY CallParts DEF Places, Purposes, Modes
  <2>2. job' \in [Clients -> Jobs]
    BY <1>7, <2>1, DoesTyped DEF AddListener
  <2>3. support' \in [SafeCaches -> SUBSET Listeners] /\ marred' \in BOOLEAN
    BY <1>7 DEF AddListener, Overlaps
  <2> QED
    BY <1>0, <1>7, <2>2, <2>3 DEF AddListener, top, names, remote, locks
<1>8. ASSUME NEW n \in SafeCaches, NEW l \in Listeners, RemoveListener(c, n, l) PROVE TypeOK'
  <2>1. Call("remove", n, "detach", "none") \in Jobs
    BY CallParts DEF Places, Purposes, Modes
  <2>2. job' \in [Clients -> Jobs]
    BY <1>8, <2>1, DoesTyped DEF RemoveListener
  <2>3. support' \in [SafeCaches -> SUBSET Listeners] /\ marred' \in BOOLEAN
    BY <1>8 DEF RemoveListener, Overlaps
  <2> QED
    BY <1>0, <1>8, <2>2, <2>3 DEF RemoveListener, top, names, remote, locks
<1> QED
  BY <1>1, <1>2, <1>3, <1>4, <1>5, <1>6, <1>7, <1>8 DEF Begin

LEMMA StepTyped ==
    ASSUME TypeOK, NEW c \in Clients, Purposeful(c), Step(c)
    PROVE  TypeOK'
<1> USE SafeCacheConstants DEF TypeOK
<1>0. Job(c) \in Jobs /\ Job(c) = job[c]
  BY DEF Job
<1>1. CASE EnsureRunning(c)
  <2>1. job' \in [Clients -> Jobs]
    BY <1>1, ProceedsParts, GoesTyped DEF EnsureRunning, Places
  <2> QED
    BY <1>1, <2>1 DEF EnsureRunning, top, names, remote, ears, locks
<1>2. CASE RestartService(c)
  <2>1. service' \in {0} \cup Services /\ alive' \subseteq Services /\ made' \in Services
    BY <1>2, RenewTyped DEF RestartService
  <2>2. /\ job' \in [Clients -> Jobs]
        /\ safe' \in Clients \cup {NoOne} /\ storing' \in Clients \cup {NoOne}
    BY <1>2, <2>1, ProceedsParts, EndsTyped DEF RestartService, locks
  <2> QED
    BY <1>2, <2>1, <2>2 DEF RestartService, names, remote, ears
<1>3. CASE LockStore(c)
  BY <1>3, GoesTyped DEF LockStore, Places, top, names, remote, ears
<1>4. CASE Fetch(c)
  <2>1. CASE RemoteEnsureFails(Job(c).s) /\ Ends(c) /\ UNCHANGED <<stored, remote, wrapped>>
    BY <1>4, <2>1, EndsTyped DEF Fetch, top, remote, ears
  <2>2. ASSUME NEW k \in Caches, RemoteEnsure(Job(c).s, k), Wrap(c, k) PROVE TypeOK'
    <3>1. /\ owner' \in [Caches -> {0} \cup Services] /\ open' \subseteq Caches
          /\ stored' \in [Services -> {0} \cup Caches]
      BY <2>2 DEF RemoteEnsure
    <3>2. [Job(c) EXCEPT !.at = "attach", !.k = k] \in Jobs /\ [Job(c) EXCEPT !.at = "running", !.k = k] \in Jobs
      BY <1>0, JobParts DEF Places
    <3>3. /\ job' \in [Clients -> Jobs]
          /\ safe' \in Clients \cup {NoOne} /\ storing' \in Clients \cup {NoOne}
      BY <2>2, <3>2, DoesTyped, EndsTyped DEF Wrap, locks
    <3>4. wrapped' \in [SafeCaches -> {0} \cup Caches]
      BY <2>2 DEF Wrap
    <3> QED
      BY <1>4, <3>1, <3>3, <3>4 DEF Fetch, top, ears
  <2> QED
    BY <1>4, <2>1, <2>2 DEF Fetch
<1>5. CASE GetRunning(c)
  <2>1. job' \in [Clients -> Jobs] /\ safe' \in Clients \cup {NoOne} /\ storing' \in Clients \cup {NoOne}
    BY <1>5, GoesTyped, EndsTyped DEF GetRunning, Places
  <2>2. wrapped' \in [SafeCaches -> {0} \cup Caches] /\ marred' \in BOOLEAN
    BY <1>5 DEF GetRunning, Overlaps
  <2> QED
    BY <1>5, <2>1, <2>2 DEF GetRunning, top, names, remote, ears
<1>6. CASE Attach(c)
  <2>1. Mode(c) \in Modes /\ Target(c) \in {0} \cup Caches
    <3>1. Job(c).n \in SafeCaches
      BY <1>0, <1>6 DEF Purposeful, Attach, At
    <3>2. Mode(c) \in Modes
      BY <1>0, JobParts DEF Mode, Modes, Listeners
    <3>3. Target(c) \in {0} \cup Caches
      BY <1>0, <3>1, JobParts DEF Target
    <3> QED
      BY <3>2, <3>3
  <2>2. [Job(c) EXCEPT !.at = "send", !.k = Target(c), !.mode = Mode(c)] \in Jobs
    BY <1>0, <2>1, JobParts DEF Places
  <2>3. /\ job' \in [Clients -> Jobs] /\ wrapped' \in [SafeCaches -> {0} \cup Caches]
        /\ safe' \in Clients \cup {NoOne} /\ storing' \in Clients \cup {NoOne}
    BY <1>6, <2>2, DoesTyped, DoneTyped DEF Attach, locks
  <2>4. attached' \in [Caches -> [SafeCaches -> Modes]]
    <3>1. attached' = attached \/ attached' = [attached EXCEPT ![Target(c)][Job(c).n] = Mode(c)]
      BY <1>6 DEF Attach
    <3> QED
      BY <2>1, <3>1, AttachedTyped
  <2> QED
    BY <1>6, <2>3, <2>4 DEF Attach, top, names, remote
<1>7. CASE Detach(c)
  <2>1. Target(c) \in {0} \cup Caches /\ "none" \in Modes
    <3>1. Job(c).n \in SafeCaches
      BY <1>0, <1>7 DEF Purposeful, Detach, At
    <3> QED
      BY <1>0, <3>1, JobParts DEF Target, Modes
  <2>2. [Job(c) EXCEPT !.at = "send", !.k = Target(c), !.mode = "none"] \in Jobs
    BY <1>0, <2>1, JobParts DEF Places
  <2>3. /\ job' \in [Clients -> Jobs] /\ wrapped' \in [SafeCaches -> {0} \cup Caches]
        /\ safe' \in Clients \cup {NoOne} /\ storing' \in Clients \cup {NoOne}
    BY <1>7, <2>2, DoesTyped, DoneTyped DEF Detach, locks
  <2>4. attached' \in [Caches -> [SafeCaches -> Modes]]
    <3>1. attached' = attached \/ attached' = [attached EXCEPT ![Target(c)][Job(c).n] = "none"]
      BY <1>7 DEF Detach
    <3> QED
      BY <2>1, <3>1, AttachedTyped
  <2> QED
    BY <1>7, <2>3, <2>4 DEF Detach, top, names, remote
<1>8. CASE Request(c)
  <2>1. server' \in [Caches -> Modes]
    BY <1>0, <1>8, JobParts DEF Request
  <2> QED
    BY <1>8, <2>1, DoneTyped DEF Request, top, names, remote
<1>9. CASE RequestFails(c)
  <2>1. /\ attached' \in [Caches -> [SafeCaches -> Modes]] /\ server' \in [Caches -> Modes]
        /\ support' \in [SafeCaches -> SUBSET Listeners] /\ marred' \in BOOLEAN
    <3>1. attached' \in [Caches -> [SafeCaches -> Modes]]
      BY <1>9 DEF RequestFails, Modes
    <3>2. server' \in [Caches -> Modes]
      BY <1>0, <1>9, JobParts DEF RequestFails
    <3>3. support' \in [SafeCaches -> SUBSET Listeners]
      BY <1>9 DEF RequestFails
    <3> QED
      BY <1>9, <3>1, <3>2, <3>3 DEF RequestFails
  <2>2. CASE Done(c) /\ UNCHANGED broken
    BY <1>9, <2>1, <2>2, DoneTyped DEF RequestFails, top, names, remote
  <2>3. CASE /\ Ends(c) /\ UNCHANGED wrapped
             /\ broken' = IF Job(c).for = "release" THEN broken \cup {Job(c).n} ELSE broken
    <3>1. broken' \subseteq released
      BY <1>0, <2>3 DEF Purposeful
    <3> QED
      BY <1>9, <2>1, <2>3, <3>1, EndsTyped DEF RequestFails, top, names, remote
  <2> QED
    BY <1>9, <2>2, <2>3 DEF RequestFails
<1>10. CASE Unlist(c)
  BY <1>10, GoesTyped DEF Unlist, Places, top, remote, ears, locks
<1>11. CASE Close(c)
  <2>1. open' \subseteq Caches /\ stored' \in [Services -> {0} \cup Caches]
    BY <1>11 DEF Close
  <2>2. wrapped' \in [SafeCaches -> {0} \cup Caches]
    BY <1>11 DEF Close
  <2> QED
    BY <1>11, <2>1, <2>2, EndsTyped DEF Close, top, ears
<1>12. CASE PutCache(c)
  <2>1. Job(c).k \in {0} \cup Caches
    BY <1>0, JobParts
  <2>2. PICK n \in SafeCaches \ born : born' = born \cup {n} /\ store' = n /\ wrapped' = [wrapped EXCEPT ![n] = Job(c).k]
    BY <1>12 DEF PutCache
  <2> QED
    BY <1>12, <2>1, <2>2, EndsTyped DEF PutCache, top, remote, ears
<1> QED
  BY <1>1, <1>2, <1>3, <1>4, <1>5, <1>6, <1>7, <1>8, <1>9, <1>10, <1>11, <1>12 DEF Step

LEMMA ServiceTyped ==
    ASSUME TypeOK, NEW s \in Services, Lose(s) \/ ConnectionClosed(s) \/ Die(s)
    PROVE  TypeOK'
<1> USE DEF TypeOK
<1>1. CASE Lose(s)
  BY <1>1 DEF Lose, top, names, ears, locks
<1>2. CASE ConnectionClosed(s)
  BY <1>2 DEF ConnectionClosed, top, ears, locks
<1>3. CASE Die(s)
  BY <1>3 DEF Die, names, ears, locks
<1> QED
  BY <1>1, <1>2, <1>3

-----------------------------------------------------------------------------
(***************************************************************************)
(* What the calls are for, and who holds the monitor.                      *)
(***************************************************************************)
\* A step of c leaves the others as they are: none of them loses the monitor.
Aside(c) == \A d \in Clients \ {c} : job'[d] = job[d] /\ (safe = d => safe' = d)

LEMMA OthersPurposeful ==
    ASSUME TypeOK, NEW c \in Clients, NEW d \in Clients, d # c, Purposeful(d), Aside(c),
           released \subseteq released',
           job[d].for = "get" /\ job[d].at # "monitor" => job[d].n \notin released'
    PROVE  Purposeful(d)'
BY DEF Aside, Purposeful

LEMMA DoesAside ==
    ASSUME TypeOK, NEW c \in Clients, NEW j \in Jobs, Does(c, j), UNCHANGED safe
    PROVE  Aside(c) /\ job'[c] = j
BY DEF TypeOK, Does, Aside

LEMMA GoesAside ==
    ASSUME TypeOK, NEW c \in Clients, NEW p \in Places, Goes(c, p), safe' = safe \/ safe = NoOne
    PROVE  Aside(c) /\ job'[c] = [job[c] EXCEPT !.at = p]
BY SafeCacheConstants DEF TypeOK, Goes, Aside

LEMMA EndsPurposeful ==
    ASSUME TypeOK, NEW c \in Clients, Ends(c)
    PROVE  Aside(c) /\ Purposeful(c)' /\ job'[c] = Idle
<1>1. job'[c] = Idle /\ \A d \in Clients \ {c} : job'[d] = job[d]
  BY CallParts DEF TypeOK, Ends, Does
<1>2. Purposeful(c)'
  BY <1>1 DEF Purposeful, Idle
<1> QED
  BY <1>1, <1>2, SafeCacheConstants DEF Ends, Releases, Aside

LEMMA DonePurposeful ==
    ASSUME TypeOK, NEW c \in Clients, Purposeful(c), Done(c), job[c].at \in {"attach", "detach", "send"},
           UNCHANGED released
    PROVE  Aside(c) /\ Purposeful(c)'
<1>1. CASE Job(c).for = "release"
  <2>1. Goes(c, "unlist") /\ UNCHANGED safe
    BY <1>1 DEF Done, locks
  <2>2. job[c] \in Jobs
    BY DEF TypeOK
  <2>3. Aside(c) /\ job'[c] = [job[c] EXCEPT !.at = "unlist"]
    BY <2>1, GoesAside DEF Places
  <2>4. job'[c].at = "unlist" /\ job'[c].for = "release" /\ job'[c].n = job[c].n
    BY <1>1, <2>2, <2>3 DEF Jobs, Job
  <2> QED
    BY <1>1, <2>1, <2>3, <2>4 DEF Purposeful, Job
<1>2. CASE Job(c).for # "release"
  <2>1. Ends(c)
    BY <1>2 DEF Done
  <2> QED
    BY <2>1, EndsPurposeful
<1> QED
  BY <1>1, <1>2

\* A call that goes on keeps what it is for; all others stay as they are.
LEMMA GoesOnPurposeful ==
    ASSUME TypeOK, \A d \in Clients : Purposeful(d), NEW c \in Clients, Aside(c), Purposeful(c)',
           UNCHANGED released
    PROVE  \A d \in Clients : Purposeful(d)'
<1> SUFFICES ASSUME NEW d \in Clients, d # c PROVE Purposeful(d)'
  OBVIOUS
<1>1. job[d].for = "get" /\ job[d].at # "monitor" => job[d].n \notin released'
  BY DEF Purposeful
<1> QED
  BY <1>1, OthersPurposeful

LEMMA StepPurposeful ==
    ASSUME TypeOK, \A d \in Clients : Purposeful(d), NEW c \in Clients, Step(c)
    PROVE  \A d \in Clients : Purposeful(d)'
<1>0. job[c] \in Jobs /\ Job(c) = job[c] /\ Purposeful(c) /\ service \in {0} \cup Services
  BY DEF TypeOK, Job
<1> SUFFICES Aside(c) /\ Purposeful(c)' /\ UNCHANGED released
  BY GoesOnPurposeful
<1>1. CASE EnsureRunning(c)
  <2>1. job[c].at = "running" /\ UNCHANGED <<safe, released>>
    BY <1>1 DEF EnsureRunning, At, locks
  <2>2. CASE Proceeds(c, service)
    <3>1. Aside(c)
      BY <1>0, <2>1, <2>2, ProceedsParts DEF Aside
    <3> QED
      BY <1>0, <2>1, <2>2, <3>1, ProceedsParts DEF Purposeful
  <2>3. CASE Goes(c, "renew")
    <3>1. Aside(c) /\ job'[c] = [job[c] EXCEPT !.at = "renew"]
      BY <2>1, <2>3, GoesAside DEF Places
    <3>2. job'[c].at = "renew" /\ job'[c].for = job[c].for /\ job'[c].n = job[c].n /\ job'[c].k = job[c].k
      BY <1>0, <3>1 DEF Jobs
    <3> QED
      BY <1>0, <2>1, <3>1, <3>2 DEF Purposeful
  <2> QED
    BY <1>1, <2>2, <2>3 DEF EnsureRunning
<1>2. CASE RestartService(c)
  <2>1. job[c].at = "renew" /\ UNCHANGED released
    BY <1>2 DEF RestartService, At
  <2>2. CASE Ends(c)
    BY <2>1, <2>2, EndsPurposeful
  <2>3. CASE Proceeds(c, service') /\ UNCHANGED locks
    <3>1. service' \in {0} \cup Services
      BY <1>2, RenewTyped DEF RestartService, TypeOK
    <3>2. Aside(c)
      BY <2>3, <3>1, ProceedsParts DEF Aside, locks
    <3> QED
      BY <1>0, <2>1, <2>3, <3>1, <3>2, ProceedsParts DEF Purposeful, locks
  <2> QED
    BY <1>2, <2>2, <2>3 DEF RestartService
<1>3. CASE LockStore(c)
  <2>1. job[c].at = "list" /\ UNCHANGED <<safe, released>>
    BY <1>3 DEF LockStore, At
  <2>2. Aside(c) /\ job'[c] = [job[c] EXCEPT !.at = "running"]
    BY <1>3, <2>1, GoesAside DEF LockStore, Places
  <2>3. job'[c].at = "running" /\ job'[c].for = job[c].for /\ job'[c].n = job[c].n
    BY <1>0, <2>2 DEF Jobs
  <2> QED
    BY <1>0, <2>1, <2>2, <2>3 DEF Purposeful
<1>4. CASE Fetch(c)
  <2>1. job[c].at = "fetch" /\ UNCHANGED released
    BY <1>4 DEF Fetch, At
  <2>2. CASE Ends(c)
    BY <2>1, <2>2, EndsPurposeful
  <2>3. ASSUME NEW k \in Caches, NEW p \in {"attach", "running"}, job[c].for = "ensure" <=> p = "running",
               Does(c, [job[c] EXCEPT !.at = p, !.k = k]), UNCHANGED locks
        PROVE  Aside(c) /\ Purposeful(c)'
    <3>1. [job[c] EXCEPT !.at = p, !.k = k] \in Jobs
      BY <1>0, JobParts DEF Places
    <3>2. Aside(c) /\ job'[c] = [job[c] EXCEPT !.at = p, !.k = k]
      BY <2>3, <3>1, DoesAside DEF locks
    <3>3. job'[c].at = p /\ job'[c].for = job[c].for /\ job'[c].n = job[c].n
      BY <1>0, <3>2 DEF Jobs
    <3> QED
      BY <1>0, <2>1, <2>3, <3>2, <3>3 DEF Purposeful, locks
  <2> QED
    BY <1>0, <1>4, <2>1, <2>2, <2>3 DEF Fetch, Wrap
<1>5. CASE GetRunning(c)
  <2>1. job[c].at = "monitor" /\ safe = NoOne /\ UNCHANGED released
    BY <1>5 DEF GetRunning, At
  <2>2. CASE Ends(c)
    BY <2>1, <2>2, EndsPurposeful
  <2>3. CASE job[c].n \notin released /\ safe' = c /\ Goes(c, "running")
    <3>1. Aside(c) /\ job'[c] = [job[c] EXCEPT !.at = "running"]
      BY <2>1, <2>3, GoesAside DEF Places
    <3>2. job'[c].at = "running" /\ job'[c].for = job[c].for /\ job'[c].n = job[c].n /\ job'[c].k = job[c].k
      BY <1>0, <3>1 DEF Jobs
    <3> QED
      BY <1>0, <2>1, <2>3, <3>1, <3>2 DEF Purposeful
  <2> QED
    BY <1>0, <1>5, <2>1, <2>2, <2>3 DEF GetRunning, Restartable
<1>6. CASE Attach(c) \/ Detach(c)
  <2>1. job[c].at \in {"attach", "detach"} /\ UNCHANGED released
    BY <1>6 DEF Attach, Detach, At
  <2>2. CASE Done(c)
    BY <1>0, <2>1, <2>2, DonePurposeful
  <2>3. ASSUME NEW k \in {0} \cup Caches, NEW m \in Modes,
               Does(c, [job[c] EXCEPT !.at = "send", !.k = k, !.mode = m]), UNCHANGED locks
        PROVE  Aside(c) /\ Purposeful(c)'
    <3>1. [job[c] EXCEPT !.at = "send", !.k = k, !.mode = m] \in Jobs
      BY <1>0, JobParts DEF Places
    <3>2. Aside(c) /\ job'[c] = [job[c] EXCEPT !.at = "send", !.k = k, !.mode = m]
      BY <2>3, <3>1, DoesAside DEF locks
    <3>3. job'[c].at = "send" /\ job'[c].for = job[c].for /\ job'[c].n = job[c].n
      BY <1>0, <3>2 DEF Jobs
    <3> QED
      BY <1>0, <2>1, <2>3, <3>2, <3>3 DEF Purposeful, locks
  <2>4. Target(c) \in {0} \cup Caches /\ Mode(c) \in Modes /\ "none" \in Modes
    <3>1. job[c].for # "get" => job[c].n \in SafeCaches
      BY <1>0, <2>1 DEF Purposeful
    <3> QED
      BY <1>0, <3>1 DEF Target, Mode, Modes, Listeners, Jobs, TypeOK
  <2>5. CASE Attach(c)
    BY <1>0, <2>1, <2>2, <2>3, <2>4, <2>5 DEF Attach
  <2>6. CASE Detach(c)
    BY <1>0, <2>1, <2>2, <2>3, <2>4, <2>6 DEF Detach
  <2> QED
    BY <1>6, <2>5, <2>6
<1>7. CASE Request(c) \/ RequestFails(c)
  <2>1. job[c].at = "send" /\ UNCHANGED released
    BY <1>7 DEF Request, RequestFails, At
  <2>2. CASE Done(c)
    BY <1>0, <2>1, <2>2, DonePurposeful
  <2>3. CASE Ends(c)
    BY <2>1, <2>3, EndsPurposeful
  <2> QED
    BY <1>7, <2>1, <2>2, <2>3 DEF Request, RequestFails
<1>8. CASE Unlist(c)
  <2>1. job[c].at = "unlist" /\ UNCHANGED <<safe, released>>
    BY <1>8 DEF Unlist, At, locks, remote
  <2>2. Aside(c) /\ job'[c] = [job[c] EXCEPT !.at = "close"]
    BY <1>8, <2>1, GoesAside DEF Unlist, Places
  <2>3. job'[c].at = "close" /\ job'[c].for = job[c].for /\ job'[c].n = job[c].n
    BY <1>0, <2>2 DEF Jobs
  <2> QED
    BY <1>0, <2>1, <2>2, <2>3 DEF Purposeful
<1>9. CASE Close(c) \/ PutCache(c)
  BY <1>9, EndsPurposeful DEF Close, PutCache
<1> QED
  BY <1>1, <1>2, <1>3, <1>4, <1>5, <1>6, <1>7, <1>8, <1>9 DEF Step

\* A call starts with nothing held, except a release; a cache that is being restarted is
\* not released (setReleased waits for the monitor of the cache).
LEMMA BeginPurposeful ==
    ASSUME TypeOK, \A d \in Clients : Purposeful(d), NEW c \in Clients, Begin(c)
    PROVE  \A d \in Clients : Purposeful(d)'
<1>0. Purposeful(c)
  OBVIOUS
<1>1. CASE Start(c) \/ Shutdown(c)
  <2>1. UNCHANGED <<job, safe, released>>
    BY <1>1 DEF Start, Shutdown, locks
  <2> QED
    BY <2>1 DEF Purposeful
<1>2. ASSUME NEW f \in Purposes, NEW n \in SafeCaches \cup {NoOne}, NEW p \in Places, NEW m \in Modes,
             Does(c, Call(f, n, p, m)), UNCHANGED <<safe, released>>,
             <<f, p>> \in {<<"ensure", "list">>, <<"get", "monitor">>, <<"add", "attach">>, <<"remove", "detach">>},
             f # "ensure" => n \in SafeCaches
      PROVE  \A d \in Clients : Purposeful(d)'
  <2>1. Call(f, n, p, m) \in Jobs
    BY CallParts
  <2>2. Aside(c) /\ job'[c] = Call(f, n, p, m)
    BY <1>2, <2>1, DoesAside
  <2>3. job'[c].for = f /\ job'[c].at = p /\ job'[c].n = n /\ job'[c].k = 0
    BY <2>2 DEF Call
  <2>4. Purposeful(c)'
    BY <1>2, <2>3 DEF Purposeful
  <2> QED
    BY <1>2, <2>2, <2>4, GoesOnPurposeful
<1>3. CASE EnsureCache(c)
  BY <1>2, <1>3 DEF EnsureCache, Purposes, Places, Modes, locks
<1>4. ASSUME NEW n \in SafeCaches, Get(c, n) PROVE \A d \in Clients : Purposeful(d)'
  BY <1>2, <1>4 DEF Get, Purposes, Places, Modes, locks
<1>5. ASSUME NEW n \in SafeCaches, NEW l \in Listeners, AddListener(c, n, l)
      PROVE  \A d \in Clients : Purposeful(d)'
  <2>1. UNCHANGED <<safe, released>>
    BY <1>5 DEF AddListener, locks
  <2>2. CASE UNCHANGED job
    BY <2>1, <2>2 DEF Purposeful
  <2> QED
    BY <1>2, <1>5, <2>1, <2>2 DEF AddListener, Purposes, Places, Modes
<1>6. ASSUME NEW n \in SafeCaches, NEW l \in Listeners, RemoveListener(c, n, l)
      PROVE  \A d \in Clients : Purposeful(d)'
  <2>1. UNCHANGED <<safe, released>>
    BY <1>6 DEF RemoveListener, locks
  <2>2. CASE UNCHANGED job
    BY <2>1, <2>2 DEF Purposeful
  <2> QED
    BY <1>2, <1>6, <2>1, <2>2 DEF RemoveListener, Purposes, Places, Modes
<1>7. ASSUME NEW n \in SafeCaches, NEW f \in {"release", "drop"}, NEW p \in {"unlist", "detach"},
             Does(c, Call(f, n, p, "none")), released' = released \cup {n},
             p = "detach" => f = "release",
             f = "release" => safe = NoOne /\ safe' = c, f = "drop" => UNCHANGED safe,
             \A d \in Clients : safe = d => job[d].n # n
      PROVE  \A d \in Clients : Purposeful(d)'
  <2>1. Call(f, n, p, "none") \in Jobs
    BY CallParts DEF Purposes, Places, Modes
  <2>2. job'[c] = Call(f, n, p, "none") /\ \A d \in Clients \ {c} : job'[d] = job[d]
    BY <1>7, <2>1 DEF TypeOK, Does
  <2>3. Aside(c)
    BY <1>7, <2>2, SafeCacheConstants DEF Aside
  <2>4. job'[c].for = f /\ job'[c].at = p /\ job'[c].n = n
    BY <2>2 DEF Call
  <2>5. Purposeful(c)'
    <3>1. CASE f = "release"
      BY <1>7, <2>4, <3>1 DEF Purposeful
    <3>2. CASE f = "drop"
      BY <1>7, <2>4, <3>2 DEF Purposeful
    <3> QED
      BY <3>1, <3>2
  <2>6. ASSUME NEW d \in Clients, d # c PROVE Purposeful(d)'
    <3>1. job[d].for = "get" /\ job[d].at # "monitor" => job[d].n \notin released'
      BY <1>7 DEF Purposeful
    <3> QED
      BY <1>7, <2>3, <2>6, <3>1, OthersPurposeful
  <2> QED
    BY <2>5, <2>6
<1>8. ASSUME NEW n \in SafeCaches, Release(c, n) PROVE \A d \in Clients : Purposeful(d)'
  <2>1. \A d \in Clients : safe # d
    BY <1>8, SafeCacheConstants DEF Release
  <2> QED
    BY <1>7, <1>8, <2>1 DEF Release, Released
<1>9. ASSUME NEW n \in SafeCaches, ReleaseCache(c, n) PROVE \A d \in Clients : Purposeful(d)'
  BY <1>7, <1>9 DEF ReleaseCache, Released, Job, locks
<1> QED
  BY <1>1, <1>3, <1>4, <1>5, <1>6, <1>8, <1>9 DEF Begin

\* Losing the connection and stopping are not steps of any call.
LEMMA ServicePurposeful ==
    ASSUME \A d \in Clients : Purposeful(d), NEW s \in Services, Lose(s) \/ ConnectionClosed(s) \/ Die(s)
    PROVE  \A d \in Clients : Purposeful(d)'
<1>1. UNCHANGED <<job, safe, released>>
  BY DEF Lose, ConnectionClosed, Die, locks
<1> QED
  BY <1>1 DEF Purposeful

-----------------------------------------------------------------------------
(***************************************************************************)
(* Remote caches come from services that run.                              *)
(***************************************************************************)
\* It is enough that nothing gets a remote cache from anywhere but a wrapper or a call.
LEMMA KnownKept ==
    ASSUME TypeOK, Known, UNCHANGED owner, \A k \in open' : k \in open /\ owner[k] \in alive',
           \A n \in SafeCaches : \/ wrapped'[n] \in {0, wrapped[n]}
                                 \/ \E c \in Clients : wrapped'[n] = job[c].k,
           \A c \in Clients : \/ job'[c].k \in {0, job[c].k}
                              \/ \E n \in SafeCaches : job'[c].k = wrapped[n]
    PROVE  Known'
BY DEF Known

LEMMA BeginKnown ==
    ASSUME TypeOK, Known, NEW c \in Clients, Begin(c)
    PROVE  Known'
<1>1. UNCHANGED <<owner, wrapped>>
  BY DEF Begin, Start, Shutdown, EnsureCache, Get, Release, ReleaseCache, AddListener, RemoveListener, remote
<1>2. \A d \in Clients : job'[d].k \in {0, job[d].k}
  <2>1. ASSUME NEW f, NEW n, NEW p, NEW m, Does(c, Call(f, n, p, m))
        PROVE  \A d \in Clients : job'[d].k \in {0, job[d].k}
    BY <2>1 DEF TypeOK, Does, Call
  <2>2. CASE UNCHANGED job
    BY <2>2
  <2> QED
    BY <2>1, <2>2 DEF Begin, Start, Shutdown, EnsureCache, Get, Release, ReleaseCache, AddListener,
                      RemoveListener
<1>3. \A k \in open' : k \in open /\ owner[k] \in alive'
  <2>1. CASE Start(c)
    BY <2>1 DEF Start, Renew, remote, Known
  <2>2. CASE Shutdown(c)
    BY <2>2 DEF Shutdown, Closing, Known
  <2>3. CASE UNCHANGED <<open, alive>>
    BY <2>3 DEF Known
  <2> QED
    BY <2>1, <2>2, <2>3 DEF Begin, EnsureCache, Get, Release, ReleaseCache, AddListener, RemoveListener,
                            remote, top
<1> QED
  BY <1>1, <1>2, <1>3, KnownKept

\* A remote cache that a running service gives has an owner, old or new.
LEMMA RemoteEnsureKnown ==
    ASSUME TypeOK, Known, NEW s \in {0} \cup Services, NEW k \in Caches, RemoteEnsure(s, k), UNCHANGED alive
    PROVE  /\ \A i \in open' : owner'[i] \in alive'
           /\ \A i \in Caches : owner[i] # 0 => owner'[i] # 0
           /\ owner'[k] # 0
           /\ open' \in {open, open \cup {k}} /\ (k \in open \/ owner[k] = 0)
<1> USE DEF TypeOK, RemoteEnsure, Known
<1>1. 0 \notin alive
  BY DEF Services
<1>2. CASE stored[s] \in open
  BY <1>1, <1>2
<1>3. CASE stored[s] \notin open
  <2>1. owner' = [owner EXCEPT ![k] = s] /\ open' = open \cup {k} /\ s \in alive /\ owner[k] = 0
    BY <1>3
  <2>2. owner'[k] = s /\ \A i \in Caches \ {k} : owner'[i] = owner[i]
    BY <2>1
  <2> QED
    BY <1>1, <2>1, <2>2
<1> QED
  BY <1>2, <1>3

LEMMA DoneKnown ==
    ASSUME TypeOK, NEW c \in Clients, Done(c), Purposeful(c)
    PROVE  /\ \A n \in SafeCaches : wrapped'[n] \in {wrapped[n], job[c].k}
           /\ \A d \in Clients : job'[d].k \in {0, job[d].k}
<1>1. job[c] \in Jobs /\ Job(c) = job[c]
  BY DEF TypeOK, Job
<1>2. CASE Job(c).for = "get"
  BY <1>1, <1>2 DEF Done, Ends, Does, Idle, TypeOK
<1>3. CASE Job(c).for = "release"
  BY <1>1, <1>3 DEF Done, Goes, TypeOK, Jobs
<1>4. CASE Job(c).for \notin {"get", "release"}
  BY <1>1, <1>4 DEF Done, Ends, Does, Idle, TypeOK
<1> QED
  BY <1>2, <1>3, <1>4

LEMMA StepKnown ==
    ASSUME TypeOK, Known, NEW c \in Clients, Purposeful(c), Step(c)
    PROVE  Known'
<1>0. job[c] \in Jobs /\ Job(c) = job[c]
  BY DEF TypeOK, Job
<1>1. CASE EnsureRunning(c) \/ LockStore(c) \/ GetRunning(c) \/ RestartService(c)
  <2>1. UNCHANGED <<owner, open>> /\ alive \subseteq alive'
    BY <1>1 DEF EnsureRunning, LockStore, GetRunning, RestartService, Renew, top, remote
  <2>2. \A n \in SafeCaches : wrapped'[n] \in {0, wrapped[n]}
    BY <1>1 DEF EnsureRunning, LockStore, GetRunning, RestartService, TypeOK
  <2>3. \A d \in Clients : job'[d].k \in {0, job[d].k}
    <3>1. ASSUME NEW p, Goes(c, p) PROVE \A d \in Clients : job'[d].k \in {0, job[d].k}
      BY <1>0, <3>1 DEF Goes, TypeOK, Jobs
    <3>2. ASSUME NEW s \in {0} \cup Services, Proceeds(c, s) PROVE \A d \in Clients : job'[d].k \in {0, job[d].k}
      BY <3>2, ProceedsParts
    <3>3. CASE Ends(c)
      BY <3>3 DEF Ends, Does, Idle, TypeOK
    <3>4. service \in {0} \cup Services /\ (RestartService(c) => service' \in {0} \cup Services)
      BY RenewTyped DEF RestartService, TypeOK
    <3> QED
      BY <1>0, <1>1, <3>1, <3>2, <3>3, <3>4 DEF EnsureRunning, LockStore, GetRunning, RestartService
  <2> QED
    BY <2>1, <2>2, <2>3, KnownKept DEF Known
<1>2. CASE Fetch(c)
  <2>1. UNCHANGED alive
    BY <1>2 DEF Fetch, top
  <2>2. CASE RemoteEnsureFails(Job(c).s) /\ Ends(c) /\ UNCHANGED <<stored, remote, wrapped>>
    <3>1. \A d \in Clients : job'[d].k \in {0, job[d].k}
      BY <2>2 DEF Ends, Does, Idle, TypeOK
    <3> QED
      BY <2>1, <2>2, <3>1, KnownKept DEF Known, remote
  <2>3. ASSUME NEW k \in Caches, RemoteEnsure(Job(c).s, k), Wrap(c, k) PROVE Known'
    <3>1. job[c].s \in {0} \cup Services
      BY <1>0 DEF Jobs
    <3>2. /\ \A i \in open' : owner'[i] \in alive'
          /\ \A i \in Caches : owner[i] # 0 => owner'[i] # 0
          /\ owner'[k] # 0
      BY <1>0, <2>1, <2>3, <3>1, RemoteEnsureKnown
    <3>3. \A n \in SafeCaches : wrapped'[n] \in {k, wrapped[n]}
      BY <2>3 DEF Wrap, TypeOK
    <3>4. \A d \in Clients : job'[d].k \in {0, k, job[d].k}
      <4>1. CASE Ends(c)
        BY <4>1 DEF Ends, Does, Idle, TypeOK
      <4>2. ASSUME NEW p, Does(c, [Job(c) EXCEPT !.at = p, !.k = k]) PROVE \A d \in Clients : job'[d].k \in {0, k, job[d].k}
        BY <1>0, <4>2 DEF Does, TypeOK, Jobs
      <4> QED
        BY <2>3, <4>1, <4>2 DEF Wrap
    <3>5. wrapped \in [SafeCaches -> {0} \cup Caches] /\ \A d \in Clients : job[d].k \in {0} \cup Caches
      BY DEF TypeOK, Jobs
    <3> QED
      BY <3>2, <3>3, <3>4, <3>5 DEF Known
  <2> QED
    BY <1>2, <2>2, <2>3 DEF Fetch
<1>3. CASE Attach(c) \/ Detach(c) \/ Request(c) \/ RequestFails(c)
  <2>1. UNCHANGED <<owner, open, alive>>
    BY <1>3 DEF Attach, Detach, Request, RequestFails, remote, top
  <2>2. CASE Done(c)
    BY <2>1, <2>2, DoneKnown, KnownKept DEF Known
  <2>3. CASE Ends(c) /\ UNCHANGED wrapped
    <3>1. \A d \in Clients : job'[d].k \in {0, job[d].k}
      BY <2>3 DEF Ends, Does, Idle, TypeOK
    <3> QED
      BY <2>1, <2>3, <3>1, KnownKept DEF Known
  <2>4. ASSUME NEW m, Does(c, [job[c] EXCEPT !.at = "send", !.k = Target(c), !.mode = m]),
               UNCHANGED wrapped, job[c].at \in {"attach", "detach"}
        PROVE  Known'
    <3>1. job[c].for # "get" => job[c].n \in SafeCaches
      BY <2>4 DEF Purposeful
    <3>2. job'[c].k = Target(c) /\ \A d \in Clients \ {c} : job'[d] = job[d]
      BY <1>0, <2>4 DEF Does, TypeOK, Jobs
    <3>3. job'[c].k = job[c].k \/ \E n \in SafeCaches : job'[c].k = wrapped[n]
      BY <1>0, <3>1, <3>2 DEF Target
    <3> QED
      BY <2>1, <2>4, <3>2, <3>3, KnownKept DEF Known
  <2> QED
    BY <1>0, <1>3, <2>2, <2>3, <2>4 DEF Attach, Detach, Request, RequestFails, At
<1>4. CASE Unlist(c) \/ Close(c)
  <2>1. UNCHANGED <<owner, alive>> /\ open' \subseteq open
    BY <1>4 DEF Unlist, Close, remote, top
  <2>2. \A n \in SafeCaches : wrapped'[n] \in {0, wrapped[n]}
    BY <1>4 DEF Unlist, Close, TypeOK
  <2>3. \A d \in Clients : job'[d].k \in {0, job[d].k}
    <3>1. CASE Unlist(c)
      BY <1>0, <3>1 DEF Unlist, Goes, TypeOK, Jobs
    <3>2. CASE Close(c)
      BY <3>2 DEF Close, Ends, Does, Idle, TypeOK
    <3> QED
      BY <1>4, <3>1, <3>2
  <2> QED
    BY <2>1, <2>2, <2>3, KnownKept DEF Known
<1>5. CASE PutCache(c)
  <2>1. UNCHANGED <<owner, open, alive>>
    BY <1>5 DEF PutCache, remote, top
  <2>2. \A n \in SafeCaches : wrapped'[n] \in {wrapped[n], job[c].k}
    BY <1>0, <1>5 DEF PutCache, TypeOK
  <2>3. \A d \in Clients : job'[d].k \in {0, job[d].k}
    BY <1>5 DEF PutCache, Ends, Does, Idle, TypeOK
  <2> QED
    BY <2>1, <2>2, <2>3, KnownKept DEF Known
<1> QED
  BY <1>1, <1>2, <1>3, <1>4, <1>5 DEF Step

LEMMA ServiceKnown ==
    ASSUME TypeOK, Known, NEW s \in Services, Lose(s) \/ ConnectionClosed(s) \/ Die(s)
    PROVE  Known'
<1>1. UNCHANGED <<owner, wrapped, job>>
  BY DEF Lose, ConnectionClosed, Die
<1>2. \A k \in open' : k \in open /\ owner[k] \in alive'
  BY DEF Lose, ConnectionClosed, Die, Closing, Known, top
<1> QED
  BY <1>1, <1>2, KnownKept

-----------------------------------------------------------------------------
(***************************************************************************)
(* A released cache stays inactive once its release is over.               *)
(***************************************************************************)
\* It is enough that no step makes a released cache active, and that the calls that
\* release one that is active go on.
LEMMA SettledKept ==
    ASSUME Settled,
           \A m \in released' \ broken' : Active(m)' =>
              /\ m \in released \ broken /\ Active(m)
              /\ \A d \in Clients : job[d].n = m /\ job[d].for \in {"release", "drop"} =>
                    job'[d].n = m /\ job'[d].for = job[d].for
    PROVE  Settled'
BY DEF Settled

LEMMA DoneSettled ==
    ASSUME TypeOK, NEW c \in Clients, Purposeful(c), Done(c), job[c].at \in {"attach", "detach", "send"}
    PROVE  /\ \A m \in released : wrapped'[m] = wrapped[m]
           /\ \A d \in Clients : job[d].for \in {"release", "drop"} =>
                 job'[d].n = job[d].n /\ job'[d].for = job[d].for
<1>0. job[c] \in Jobs /\ Job(c) = job[c] /\ job[c].for # "drop"
  BY DEF TypeOK, Job, Purposeful
<1>1. CASE Job(c).for = "get"
  <2>1. job[c].n \notin released
    BY <1>0, <1>1 DEF Purposeful
  <2>2. wrapped' = [wrapped EXCEPT ![job[c].n] = job[c].k]
    BY <1>0, <1>1 DEF Done
  <2>3. \A d \in Clients \ {c} : job'[d] = job[d]
    BY <1>1 DEF Done, Ends, Does, TypeOK
  <2>4. \A m \in released : m \in SafeCaches /\ m # job[c].n
    BY <2>1 DEF TypeOK
  <2>5. \A m \in released : wrapped'[m] = wrapped[m]
    BY <2>2, <2>4 DEF TypeOK
  <2> QED
    BY <1>0, <1>1, <2>3, <2>5
<1>2. CASE Job(c).for = "release"
  <2>1. UNCHANGED wrapped /\ Goes(c, "unlist")
    BY <1>2 DEF Done
  <2>2. job'[c] = [job[c] EXCEPT !.at = "unlist"] /\ \A d \in Clients \ {c} : job'[d] = job[d]
    BY <2>1 DEF Goes, TypeOK
  <2>3. job'[c].n = job[c].n /\ job'[c].for = job[c].for
    BY <1>0, <2>2 DEF Jobs
  <2> QED
    BY <2>1, <2>2, <2>3
<1>3. CASE Job(c).for \notin {"get", "release"}
  <2>1. UNCHANGED wrapped /\ Does(c, Idle)
    BY <1>3 DEF Done, Ends
  <2>2. \A d \in Clients \ {c} : job'[d] = job[d]
    BY <2>1 DEF Does, TypeOK
  <2> QED
    BY <1>0, <1>3, <2>1, <2>2
<1> QED
  BY <1>1, <1>2, <1>3

LEMMA BeginSettled ==
    ASSUME TypeOK, Settled, \A d \in Clients : Purposeful(d), NEW c \in Clients, Begin(c)
    PROVE  Settled'
<1>1. CASE Start(c) \/ Shutdown(c)
  <2>1. UNCHANGED <<wrapped, released, broken, job>> /\ open' \subseteq open
    BY <1>1 DEF Start, Shutdown, remote
  <2> QED
    BY <2>1, SettledKept DEF Active
<1>2. At(c, "idle") => job[c].for = "none"
  BY DEF At, Purposeful
<1>3. CASE \/ EnsureCache(c)
           \/ \E n \in SafeCaches : \/ Get(c, n)
                                    \/ \E l \in Listeners : AddListener(c, n, l) \/ RemoveListener(c, n, l)
  <2>1. UNCHANGED <<wrapped, released, broken, open>>
    BY <1>3 DEF EnsureCache, Get, AddListener, RemoveListener, remote
  <2>2. \A d \in Clients \ {c} : job'[d] = job[d]
    BY <1>3 DEF EnsureCache, Get, AddListener, RemoveListener, Does, TypeOK
  <2>3. job[c].for = "none"
    BY <1>2, <1>3 DEF EnsureCache, Get, AddListener, RemoveListener, Calls
  <2> QED
    BY <2>1, <2>2, <2>3, SettledKept DEF Active
<1>4. ASSUME NEW n \in SafeCaches, Release(c, n) \/ ReleaseCache(c, n) PROVE Settled'
  <2>1. /\ UNCHANGED <<wrapped, open>> /\ released' = released \cup {n}
        /\ \A m \in SafeCaches \ {n} : m \in broken' <=> m \in broken
    BY <1>4 DEF Release, ReleaseCache, Released, remote
  <2>2. PICK f \in {"release", "drop"}, q \in Places : Does(c, Call(f, n, q, "none"))
    BY <1>4 DEF Release, ReleaseCache, Places
  <2>3. job'[c] = Call(f, n, q, "none") /\ \A d \in Clients \ {c} : job'[d] = job[d]
    BY <2>2 DEF Does, TypeOK
  <2>4. job'[c].n = n /\ job'[c].for \in {"release", "drop"}
    BY <2>3 DEF Call
  <2>5. job[c].for = "none"
    BY <1>2, <1>4 DEF Release, ReleaseCache, Calls
  <2>6. ASSUME NEW m \in released' \ broken', Active(m)', m # n
        PROVE  \E d \in Clients : job'[d].n = m /\ job'[d].for \in {"release", "drop"}
    <3>1. m \in released \ broken /\ Active(m)
      BY <2>1, <2>6 DEF Active, TypeOK
    <3>2. PICK d \in Clients : job[d].n = m /\ job[d].for \in {"release", "drop"}
      BY <3>1 DEF Settled
    <3> QED
      BY <2>3, <2>5, <3>2
  <2> QED
    BY <2>4, <2>6 DEF Settled
<1> QED
  BY <1>1, <1>3, <1>4 DEF Begin

LEMMA ServiceSettled ==
    ASSUME Settled, NEW s \in Services, Lose(s) \/ ConnectionClosed(s) \/ Die(s)
    PROVE  Settled'
<1>1. UNCHANGED <<wrapped, released, broken, job>> /\ open' \subseteq open
  BY DEF Lose, ConnectionClosed, Die
<1> QED
  BY <1>1, SettledKept DEF Active

LEMMA StepSettled ==
    ASSUME TypeOK, OneService, Known, Settled, \A d \in Clients : Purposeful(d), NEW c \in Clients, Step(c)
    PROVE  Settled'
<1>0. job[c] \in Jobs /\ Job(c) = job[c] /\ Purposeful(c) /\ 0 \notin open
  BY DEF TypeOK, Job, Caches
<1> USE DEF Active
<1>1. CASE EnsureRunning(c) \/ LockStore(c) \/ GetRunning(c) \/ RestartService(c)
  <2>1. UNCHANGED <<released, broken, open>>
    BY <1>1 DEF EnsureRunning, LockStore, GetRunning, RestartService, remote
  <2>2. \A m \in SafeCaches : wrapped'[m] \in {0, wrapped[m]}
    BY <1>1 DEF EnsureRunning, LockStore, GetRunning, RestartService, TypeOK
  <2>3. job[c].for \notin {"release", "drop"}
    BY <1>0, <1>1 DEF EnsureRunning, LockStore, GetRunning, RestartService, At, Purposeful
  <2>4. \A d \in Clients \ {c} : job'[d] = job[d]
    BY <1>1 DEF EnsureRunning, LockStore, GetRunning, RestartService, Proceeds, Does, Goes, Ends, TypeOK
  <2>5. released \subseteq SafeCaches
    BY DEF TypeOK
  <2> QED
    BY <1>0, <2>1, <2>2, <2>3, <2>4, <2>5, SettledKept
<1>2. CASE Fetch(c)
  <2>1. UNCHANGED <<released, broken>> /\ job[c].for \in {"get", "ensure"}
    BY <1>0, <1>2 DEF Fetch, At, Purposeful
  <2>2. \A d \in Clients \ {c} : job'[d] = job[d]
    BY <1>2 DEF Fetch, Wrap, Does, Ends, TypeOK
  <2>3. ASSUME NEW m \in released PROVE wrapped'[m] = wrapped[m]
    <3>1. job[c].for = "get" => job[c].n # m
      BY <1>0, <1>2 DEF Fetch, At, Purposeful
    <3>2. m \in born /\ m \in SafeCaches
      BY DEF TypeOK
    <3>3. ASSUME NEW k \in Caches, Wrap(c, k) PROVE wrapped'[m] = wrapped[m]
      <4>1. CASE job[c].for = "ensure"
        BY <1>0, <3>3, <4>1 DEF Wrap
      <4>2. CASE job[c].for = "get"
        BY <1>0, <3>1, <3>2, <3>3, <4>2 DEF Wrap, TypeOK
      <4> QED
        BY <2>1, <4>1, <4>2
    <3> QED
      BY <1>2, <3>3 DEF Fetch
  <2>4. ASSUME NEW m \in released, wrapped[m] \in open' PROVE Active(m)
    <3>1. CASE UNCHANGED open
      BY <2>4, <3>1
    <3>2. ASSUME NEW k \in Caches, RemoteEnsure(Job(c).s, k) PROVE Active(m)
      <4>1. UNCHANGED alive /\ Job(c).s \in {0} \cup Services
        BY <1>0, <1>2 DEF Fetch, top, Jobs
      <4>2. open' \in {open, open \cup {k}} /\ (k \in open \/ owner[k] = 0)
        BY ONLY TypeOK, Known, <3>2, <4>1, RemoteEnsureKnown
      <4>3. m \in SafeCaches
        BY DEF TypeOK
      <4>4. wrapped[m] = 0 \/ owner[wrapped[m]] # 0
        BY <4>3 DEF Known
      <4>5. k # 0
        BY DEF Caches
      <4> QED
        BY <2>4, <4>2, <4>4, <4>5
    <3> QED
      BY <1>2, <3>1, <3>2 DEF Fetch, remote
  <2>5. released \subseteq SafeCaches
    BY DEF TypeOK
  <2> QED
    BY <2>1, <2>2, <2>3, <2>4, <2>5, SettledKept
<1>3. CASE Attach(c) \/ Detach(c) \/ Request(c) \/ RequestFails(c)
  <2>1. UNCHANGED <<released, open>> /\ broken \subseteq broken' /\ job[c].at \in {"attach", "detach", "send"}
    BY <1>3 DEF Attach, Detach, Request, RequestFails, remote, At
  <2>2. CASE Done(c)
    BY <1>0, <2>1, <2>2, DoneSettled, SettledKept
  <2>3. ASSUME NEW k, NEW p, Does(c, [job[c] EXCEPT !.at = "send", !.k = k, !.mode = p]), UNCHANGED wrapped
        PROVE  Settled'
    <3>1. \A d \in Clients : job'[d].n = job[d].n /\ job'[d].for = job[d].for
      BY <1>0, <2>3 DEF Does, TypeOK, Jobs
    <3> QED
      BY <2>1, <2>3, <3>1, SettledKept
  <2>4. CASE Ends(c) /\ UNCHANGED wrapped /\ (job[c].for = "release" => job[c].n \in broken')
    <3>1. job[c].for # "drop"
      BY <1>0, <2>1 DEF Purposeful
    <3>2. \A d \in Clients \ {c} : job'[d] = job[d]
      BY <2>4 DEF Ends, Does, TypeOK
    <3> QED
      BY <2>1, <2>4, <3>1, <3>2, SettledKept
  <2>5. CASE Attach(c) \/ Detach(c)
    BY <1>0, <2>2, <2>3, <2>5 DEF Attach, Detach
  <2>6. CASE Request(c) \/ RequestFails(c)
    BY <1>0, <2>2, <2>4, <2>6 DEF Request, RequestFails
  <2> QED
    BY <1>3, <2>5, <2>6
<1>4. CASE Unlist(c)
  <2>1. UNCHANGED <<released, broken, wrapped, open>>
    BY <1>4 DEF Unlist, remote
  <2>2. \A d \in Clients : job'[d].n = job[d].n /\ job'[d].for = job[d].for
    BY <1>0, <1>4 DEF Unlist, Goes, TypeOK, Jobs
  <2> QED
    BY <2>1, <2>2, SettledKept
<1>5. CASE Close(c)
  <2>1. UNCHANGED <<released, broken>> /\ job[c].at = "close" /\ open' \subseteq open
    BY <1>5 DEF Close, At
  <2>2. job[c].for \in {"release", "drop"} /\ job[c].n \in SafeCaches
    BY <1>0, <2>1 DEF Purposeful
  <2>3. \A d \in Clients \ {c} : job'[d] = job[d]
    BY <1>5 DEF Close, Ends, Does, TypeOK
  <2>4. \A m \in SafeCaches : wrapped'[m] \in {0, wrapped[m]}
    BY <1>5 DEF Close, TypeOK
  <2>5. wrapped'[job[c].n] \notin open'
    <3>1. CASE service = 0
      <4>1. alive = {} /\ open = {}
        BY <3>1 DEF OneService, Known, TypeOK, Services
      <4> QED
        BY <2>1, <4>1
    <3>2. CASE wrapped[job[c].n] = 0
      BY <1>0, <2>1, <2>2, <2>4, <3>2
    <3>3. CASE service # 0 /\ wrapped[job[c].n] # 0
      <4>1. wrapped[job[c].n] \notin open'
        BY <1>0, <1>5, <3>3 DEF Close, Closed
      <4> QED
        BY <1>0, <2>1, <2>2, <2>4, <4>1
    <3> QED
      BY <3>1, <3>2, <3>3
  <2>6. released \subseteq SafeCaches
    BY DEF TypeOK
  <2> QED
    BY <1>0, <2>1, <2>3, <2>4, <2>5, <2>6, SettledKept
<1>6. CASE PutCache(c)
  <2>1. UNCHANGED <<released, broken, open>> /\ job[c].for = "ensure"
    BY <1>0, <1>6 DEF PutCache, remote, At, Purposeful
  <2>2. \A d \in Clients \ {c} : job'[d] = job[d]
    BY <1>6 DEF PutCache, Ends, Does, TypeOK
  <2>3. PICK n \in SafeCaches \ born : wrapped' = [wrapped EXCEPT ![n] = Job(c).k]
    BY <1>6 DEF PutCache
  <2>4. \A m \in released : wrapped'[m] = wrapped[m]
    BY <2>3 DEF TypeOK
  <2> QED
    BY <2>1, <2>2, <2>4, SettledKept
<1> QED
  BY <1>1, <1>2, <1>3, <1>4, <1>5, <1>6 DEF Step

-----------------------------------------------------------------------------
(***************************************************************************)
(* The theorems.                                                           *)
(***************************************************************************)
LEMMA NextInv == Inv /\ [Next]_vars => Inv'
<1> SUFFICES ASSUME Inv, [Next]_vars PROVE Inv'
  OBVIOUS
<1> USE DEF Inv
<1>1. OneService'
  BY StepKeepsOneService
<1>2. ASSUME NEW c \in Clients, Begin(c) PROVE Inv'
  BY <1>1, <1>2, BeginTyped, BeginPurposeful, BeginKnown, BeginSettled
<1>3. ASSUME NEW c \in Clients, Step(c) PROVE Inv'
  BY <1>1, <1>3, StepTyped, StepPurposeful, StepKnown, StepSettled
<1>4. ASSUME NEW s \in Services, Lose(s) \/ ConnectionClosed(s) \/ Die(s) PROVE Inv'
  BY <1>1, <1>4, ServiceTyped, ServicePurposeful, ServiceKnown, ServiceSettled
<1>5. CASE UNCHANGED vars
  BY <1>5 DEF vars, top, names, remote, ears, locks, TypeOK, OneService, Purposeful, Known, Settled, Active
<1> QED
  BY <1>2, <1>3, <1>4, <1>5 DEF Next

THEOREM InvHolds == Spec => []Inv
BY InitInv, NextInv, PTL DEF Spec

\* The types, whatever the order of the calls and however connections and services end.
THEOREM Types == Spec => []TypeOK
<1>1. Inv => TypeOK
  BY DEF Inv
<1> QED
  BY <1>1, InvHolds, PTL

\* A safe cache that was released (SafeNamedCache::release or releaseCache of the
\* SafeCacheService, unless the release itself failed) stays inactive once nobody is at
\* it: a restart under way cannot bring it back, since it looks at m_fIsReleased under
\* the monitor that setReleased needs.
THEOREM ReleasedIsUnusable == Spec => []Unusable
<1>1. Inv => Unusable
  BY DEF Inv, Settled, Unusable, Job
<1> QED
  BY <1>1, InvHolds, PTL

-----------------------------------------------------------------------------
(***************************************************************************)
(* The inductive invariant for Heard, on top of Inv.                       *)
(***************************************************************************)
\* Calls are about safe caches that have been made.  Before a safe cache is made nobody
\* listens to it, and before a remote cache is made nobody is attached to it.
Named ==
    /\ \A c \in Clients : job[c].for \notin {"none", "ensure"} => job[c].n \in born
    /\ \A n \in SafeCaches \ born : support[n] = {}
    /\ \A k \in Caches : owner[k] = 0 => Deaf(k)

\* At most one call about listeners is under way.
Alone == \A c, d \in Clients : Listens(c) /\ Listens(d) => c = d

\* What the proxy has been told is enough for all that are attached.
Enough(m, S) == (S # {} => m # "none") /\ ("full" \in S => m = "full")
Covers(k)    == (~ Deaf(k) => server[k] # "none") /\ (Has(k, "full") => server[k] = "full")
Told         == \A k \in open : (\A c \in Clients : At(c, "send") => job[c].k # k) => Covers(k)

\* How far the call about listeners is: what it has attached, and will tell the proxy,
\* is enough for the safe cache and for all that are attached to the remote one.
Careful(c) ==
    LET n == job[c].n
        k == job[c].k
        m == job[c].mode
    IN /\ job[c].for = "get" => wrapped[n] = 0
       /\ job[c].at = "attach" /\ job[c].for = "add" => m \in Listeners /\ Enough(m, support[n])
       /\ job[c].at = "detach" => support[n] = {}
       /\ job[c].at = "send" =>
             /\ job[c].for # "ensure" /\ k # 0 /\ attached[k][n] = m /\ Enough(m, support[n])
             /\ m = "none" => Deaf(k)
             /\ m = "lite" => ~ Has(k, "full")
             /\ job[c].for # "get" => wrapped[n] \in {0, k}

\* The listeners of an active safe cache are attached to its remote cache.
Eared(n) == Active(n) /\ (\A c \in Clients : Listens(c) => job[c].n # n) =>
                Enough(attached[wrapped[n]][n], support[n])

Keeping == ~ marred => /\ Alone /\ Told
                       /\ \A c \in Clients : Listens(c) => Careful(c)
                       /\ \A n \in SafeCaches : Eared(n)

LEMMA InitHeeding == Init => Named /\ Keeping
<1> SUFFICES ASSUME Init PROVE Named /\ Keeping
  OBVIOUS
<1>1. PICK heard \in {"none", "lite"} :
          /\ support = [n \in SafeCaches |-> IF n = First THEN {heard} \ {"none"} ELSE {}]
          /\ attached = [k \in Caches |-> [n \in SafeCaches |-> IF k = 1 /\ n = First THEN heard ELSE "none"]]
          /\ server = [k \in Caches |-> IF k = 1 THEN heard ELSE "none"]
  BY DEF Init
<1>2. /\ \A c \in Clients : job[c] = Idle
      /\ wrapped = [n \in SafeCaches |-> IF n = First THEN 1 ELSE 0] /\ open = {1} /\ born = {First}
      /\ owner = [k \in Caches |-> IF k = 1 THEN 1 ELSE 0] /\ 1 \in Caches /\ First \in SafeCaches
  BY SafeCacheConstants DEF Init, Caches
<1>3. \A c \in Clients : ~ Listens(c) /\ ~ At(c, "send")
  BY <1>2 DEF Listens, At, Idle
<1>4. Named
  BY <1>1, <1>2 DEF Named, Idle, Deaf
<1>5. Told
  BY <1>1, <1>2 DEF Told, Covers, Deaf, Has
<1>6. ASSUME NEW n \in SafeCaches PROVE Eared(n)
  BY <1>1, <1>2 DEF Eared, Active, Enough
<1> QED
  BY <1>3, <1>4, <1>5, <1>6 DEF Keeping, Alone

\* Only calls about safe caches that have been made listen, or are attached.
LEMMA NamedKept ==
    ASSUME Named, born \subseteq born', \A k \in Caches : owner'[k] = 0 => owner[k] = 0 /\ attached'[k] = attached[k],
           \A n \in SafeCaches \ born' : support'[n] = support[n],
           \A d \in Clients : \/ job'[d].for \in {"none", "ensure"} \/ job'[d].n \in born'
                              \/ job'[d].for = job[d].for /\ job'[d].n = job[d].n
    PROVE  Named'
BY DEF Named, Deaf

LEMMA BeginNamed ==
    ASSUME TypeOK, Named, NEW c \in Clients, Begin(c)
    PROVE  Named'
<1>1. UNCHANGED <<owner, attached, born>>
  BY DEF Begin, Start, Shutdown, EnsureCache, Get, Release, ReleaseCache, AddListener, RemoveListener,
         remote, names, ears
<1>2. \A n \in SafeCaches \ born : support'[n] = support[n]
  BY DEF Begin, Start, Shutdown, EnsureCache, Get, Release, ReleaseCache, AddListener, RemoveListener, ears, TypeOK
<1>3. \A d \in Clients : \/ job'[d].for \in {"none", "ensure"} \/ job'[d].n \in born'
                         \/ job'[d].for = job[d].for /\ job'[d].n = job[d].n
  <2>1. ASSUME NEW f, NEW n, NEW p, NEW m, Does(c, Call(f, n, p, m)), f = "ensure" \/ n \in born
        PROVE  \A d \in Clients : \/ job'[d].for \in {"none", "ensure"} \/ job'[d].n \in born'
                                  \/ job'[d].for = job[d].for /\ job'[d].n = job[d].n
    <3>1. job'[c] = Call(f, n, p, m) /\ \A d \in Clients \ {c} : job'[d] = job[d]
      BY <2>1 DEF TypeOK, Does
    <3>2. job'[c].for = f /\ job'[c].n = n
      BY <3>1 DEF Call
    <3> QED
      BY <1>1, <2>1, <3>1, <3>2
  <2>2. CASE UNCHANGED job
    BY <2>2
  <2> QED
    BY <2>1, <2>2 DEF Begin, Start, Shutdown, EnsureCache, Get, Release, ReleaseCache, AddListener, RemoveListener
<1> QED
  BY <1>1, <1>2, <1>3, NamedKept

\* A step of a call ends it, or leaves what it is for.
LEMMA StepJob ==
    ASSUME TypeOK, NEW c \in Clients, Step(c)
    PROVE  /\ \A d \in Clients \ {c} : job'[d] = job[d]
           /\ job'[c] = Idle \/ (job'[c].for = job[c].for /\ job'[c].n = job[c].n)
<1>1. ASSUME NEW j, Does(c, j) PROVE job'[c] = j /\ \A d \in Clients \ {c} : job'[d] = job[d]
  BY <1>1 DEF TypeOK, Does
<1>2. Job(c) = job[c] /\ job[c] \in Jobs
  BY DEF TypeOK, Job
<1>3. CASE Ends(c)
  BY <1>1, <1>3 DEF Ends
<1>4. ASSUME NEW p, Goes(c, p)
      PROVE  /\ \A d \in Clients \ {c} : job'[d] = job[d]
             /\ job'[c].for = job[c].for /\ job'[c].n = job[c].n
  BY <1>2, <1>4 DEF Goes, TypeOK, Jobs
<1>5. ASSUME NEW p, NEW s, Does(c, [job[c] EXCEPT !.at = p, !.s = s])
      PROVE  /\ \A d \in Clients \ {c} : job'[d] = job[d]
             /\ job'[c].for = job[c].for /\ job'[c].n = job[c].n
  <2>1. job'[c] = [job[c] EXCEPT !.at = p, !.s = s] /\ \A d \in Clients \ {c} : job'[d] = job[d]
    BY <1>1, <1>5
  <2> QED
    BY <1>2, <2>1 DEF Jobs
<1>6. ASSUME NEW p, NEW k, Does(c, [job[c] EXCEPT !.at = p, !.k = k])
      PROVE  /\ \A d \in Clients \ {c} : job'[d] = job[d]
             /\ job'[c].for = job[c].for /\ job'[c].n = job[c].n
  <2>1. job'[c] = [job[c] EXCEPT !.at = p, !.k = k] /\ \A d \in Clients \ {c} : job'[d] = job[d]
    BY <1>1, <1>6
  <2> QED
    BY <1>2, <2>1 DEF Jobs
<1>7. ASSUME NEW p, NEW k, NEW m, Does(c, [job[c] EXCEPT !.at = p, !.k = k, !.mode = m])
      PROVE  /\ \A d \in Clients \ {c} : job'[d] = job[d]
             /\ job'[c].for = job[c].for /\ job'[c].n = job[c].n
  <2>1. job'[c] = [job[c] EXCEPT !.at = p, !.k = k, !.mode = m] /\ \A d \in Clients \ {c} : job'[d] = job[d]
    BY <1>1, <1>7
  <2> QED
    BY <1>2, <2>1 DEF Jobs
<1>9. CASE EnsureRunning(c) \/ RestartService(c) \/ LockStore(c) \/ GetRunning(c)
  BY <1>2, <1>3, <1>4, <1>5, <1>9 DEF EnsureRunning, RestartService, Proceeds, LockStore, GetRunning
<1>10. CASE Fetch(c)
  BY <1>2, <1>3, <1>6, <1>10 DEF Fetch, Wrap
<1>11. Done(c) => Ends(c) \/ Goes(c, "unlist")
  BY DEF Done
<1>12. CASE Attach(c) \/ Detach(c)
  BY <1>2, <1>3, <1>4, <1>7, <1>11, <1>12 DEF Attach, Detach
<1>13. CASE Request(c) \/ RequestFails(c)
  BY <1>3, <1>4, <1>11, <1>13 DEF Request, RequestFails
<1>14. CASE Unlist(c) \/ Close(c) \/ PutCache(c)
  BY <1>3, <1>4, <1>14 DEF Unlist, Close, PutCache
<1> QED
  BY <1>9, <1>10, <1>12, <1>13, <1>14 DEF Step

LEMMA StepNamed ==
    ASSUME TypeOK, Known, Named, NEW c \in Clients, Purposeful(c), Step(c)
    PROVE  Named'
<1>1. /\ \A d \in Clients \ {c} : job'[d] = job[d]
      /\ job'[c].for = "none" \/ (job'[c].for = job[c].for /\ job'[c].n = job[c].n)
  BY StepJob DEF Idle
<1>2. Job(c) = job[c] /\ job[c] \in Jobs
  BY DEF TypeOK, Job
<1>3. born \subseteq born'
  BY DEF Step, EnsureRunning, RestartService, LockStore, Fetch, PutCache, GetRunning, Attach, Detach,
         Request, RequestFails, Unlist, Close, names
<1>4. \A n \in SafeCaches \ born : support'[n] = support[n]
  <2>1. CASE UNCHANGED support
    BY <2>1
  <2>2. CASE RequestFails(c) /\ job[c].for = "add"
    <3>1. support' = support \/ support' = [support EXCEPT ![job[c].n] = @ \ {job[c].mode}]
      BY <1>2, <2>2 DEF RequestFails
    <3>2. job[c].n \in born
      BY <2>2 DEF Named
    <3> QED
      BY <3>1, <3>2 DEF TypeOK
  <2>3. RequestFails(c) /\ job[c].for # "add" => UNCHANGED support
    BY <1>2 DEF RequestFails
  <2> QED
    BY <2>1, <2>2, <2>3 DEF Step, EnsureRunning, RestartService, LockStore, Fetch, PutCache, GetRunning,
         Attach, Detach, Request, Unlist, Close, ears
<1>5. \A k \in Caches : owner'[k] = 0 => owner[k] = 0 /\ attached'[k] = attached[k]
  <2>1. CASE UNCHANGED <<owner, attached>>
    BY <2>1
  <2>2. CASE Fetch(c)
    <3>1. UNCHANGED attached
      BY <2>2 DEF Fetch, ears
    <3>2. \A k \in Caches : owner[k] # 0 => owner'[k] # 0
      <4>1. CASE UNCHANGED owner
        BY <4>1
      <4>2. ASSUME NEW k \in Caches, RemoteEnsure(Job(c).s, k) PROVE \A i \in Caches : owner[i] # 0 => owner'[i] # 0
        <5>1. UNCHANGED alive /\ Job(c).s \in {0} \cup Services
          BY <1>2, <2>2 DEF Fetch, top, Jobs
        <5> QED
          BY ONLY TypeOK, Known, <4>2, <5>1, RemoteEnsureKnown
      <4> QED
        BY <2>2, <4>1, <4>2 DEF Fetch, remote
    <3> QED
      BY <3>1, <3>2
  <2>3. CASE Attach(c) \/ Detach(c) \/ RequestFails(c)
    <3>1. UNCHANGED owner
      BY <2>3 DEF Attach, Detach, RequestFails, remote
    <3>2. ASSUME NEW q, NEW n, NEW m, q \in Caches => owner[q] # 0, attached' = [attached EXCEPT ![q][n] = m]
          PROVE  \A k \in Caches : owner[k] = 0 => attached'[k] = attached[k]
      BY <3>2 DEF TypeOK
    <3>3. /\ job[c].k \in Caches => owner[job[c].k] # 0
          /\ \A n \in SafeCaches : wrapped[n] \in Caches => owner[wrapped[n]] # 0
      BY DEF Known, Caches
    <3>4. CASE Attach(c) \/ Detach(c)
      <4>1. job[c].at \in {"attach", "detach"}
        BY <3>4 DEF Attach, Detach, At
      <4>2. job[c].n \in SafeCaches
        BY <4>1 DEF Purposeful
      <4>3. Target(c) \in Caches => owner[Target(c)] # 0
        BY <1>2, <3>3, <4>2 DEF Target
      <4>4. UNCHANGED attached \/ \E m : attached' = [attached EXCEPT ![Target(c)][job[c].n] = m]
        BY <1>2, <3>4 DEF Attach, Detach
      <4> QED
        BY <3>1, <3>2, <4>3, <4>4
    <3>5. CASE RequestFails(c)
      <4>1. UNCHANGED attached \/ attached' = [attached EXCEPT ![job[c].k][job[c].n] = "none"]
        BY <1>2, <3>5 DEF RequestFails
      <4> QED
        BY <3>1, <3>2, <3>3, <4>1
    <3> QED
      BY <2>3, <3>4, <3>5
  <2> QED
    BY <2>1, <2>2, <2>3 DEF Step, EnsureRunning, RestartService, LockStore, PutCache, GetRunning, Request,
         Unlist, Close, ears, remote
<1> QED
  BY <1>1, <1>3, <1>4, <1>5, NamedKept

\* The listeners of a safe cache, if it is active, are attached to what it wraps.
Hears(n) == Active(n) => Enough(attached[wrapped[n]][n], support[n])

(***************************************************************************)
(* A step that has nothing to do with listeners: remote caches are opened, *)
(* with nobody attached, or closed, and wrapped by a safe cache to which   *)
(* nobody listens and which no call is about.                              *)
(***************************************************************************)
LEMMA KeepingAside ==
    ASSUME Named, \A d \in Clients : Purposeful(d), Keeping, UNCHANGED <<support, attached, server, marred>>,
           \A d \in Clients : job'[d] = job[d] \/ (~ Listens(d) /\ ~ Listens(d)'),
           \A k \in open' : k \in open \/ Deaf(k),
           \A n \in SafeCaches : wrapped'[n] \in {0, wrapped[n]} \/ (support[n] = {} /\ n \notin born),
           \A n \in SafeCaches : wrapped[n] \in open' => wrapped[n] \in open,
           0 \notin open'
    PROVE  Keeping'
<1>1. SUFFICES ASSUME Alone, Told, \A d \in Clients : Listens(d) => Careful(d), \A n \in SafeCaches : Eared(n)
               PROVE  /\ Alone' /\ Told' /\ \A d \in Clients : Listens(d)' => Careful(d)'
                      /\ \A n \in SafeCaches : Eared(n)'
  BY DEF Keeping
<1>2. \A d \in Clients : /\ Listens(d)' <=> Listens(d)
                         /\ Listens(d) => job'[d] = job[d]
                         /\ At(d, "send") => Listens(d)
  BY DEF Listens, At
<1>3. Alone'
  BY <1>1, <1>2 DEF Alone
<1>4. Told'
  <2>1. SUFFICES ASSUME NEW k \in open', \A d \in Clients : At(d, "send")' => job'[d].k # k PROVE Covers(k)'
    BY DEF Told
  <2>2. \A d \in Clients : At(d, "send") => job[d].k # k
    BY <1>2, <2>1 DEF At
  <2>3. Deaf(k)' = Deaf(k) /\ \A m : Has(k, m)' = Has(k, m)
    BY DEF Deaf, Has
  <2>4. Deaf(k) => ~ Has(k, "full")
    BY DEF Deaf, Has
  <2> QED
    BY <1>1, <2>1, <2>2, <2>3, <2>4 DEF Told, Covers
<1>5. ASSUME NEW d \in Clients, Listens(d) PROVE Careful(d)'
  <2>1. job'[d] = job[d] /\ Careful(d)
    BY <1>1, <1>2, <1>5
  <2>2. job[d].for \notin {"none", "ensure"}
    BY <1>5, <2>1 DEF Purposeful, Listens, Careful
  <2>3. job[d].n \in born /\ job[d].n \in SafeCaches
    BY <2>2 DEF Named, Purposeful
  <2>4. wrapped'[job[d].n] \in {0, wrapped[job[d].n]}
    BY <2>3
  <2> QED
    BY <2>1, <2>4 DEF Careful, Enough, Deaf, Has
<1>6. ASSUME NEW n \in SafeCaches PROVE Eared(n)'
  <2>1. SUFFICES ASSUME Active(n)', \A d \in Clients : Listens(d)' => job'[d].n # n
                 PROVE  Enough(attached[wrapped'[n]][n], support[n])
    BY DEF Eared, Enough
  <2>2. \A d \in Clients : Listens(d) => job[d].n # n
    BY <1>2, <2>1
  <2>3. CASE support[n] = {}
    BY <2>3 DEF Enough
  <2>4. CASE wrapped'[n] = wrapped[n]
    BY <1>1, <2>1, <2>2, <2>4 DEF Eared, Active
  <2> QED
    BY <2>1, <2>3, <2>4 DEF Active
<1> QED
  BY <1>2, <1>3, <1>4, <1>5, <1>6

(***************************************************************************)
(* A step of the only call about listeners, or one that begins it.         *)
(***************************************************************************)
Only(c) == \A d \in Clients \ {c} : ~ Listens(d) /\ job'[d] = job[d]

LEMMA OnlyHas ==
    ASSUME NEW c \in Clients, Only(c), Keeping, ~ marred
    PROVE  /\ \A k \in open : Covers(k) \/ (job[c].at = "send" /\ job[c].k = k)
           /\ Listens(c) => Careful(c)
           /\ \A n \in SafeCaches : Hears(n) \/ (Listens(c) /\ job[c].n = n)
<1>1. \A d \in Clients : At(d, "send") => Listens(d) /\ job[d].at = "send"
  BY DEF Listens, At
<1> QED
  BY <1>1 DEF Only, Keeping, Told, Eared, Hears

LEMMA OnlyKeeps ==
    ASSUME NEW c \in Clients, Only(c),
           \A k \in open' : Covers(k)' \/ (job'[c].at = "send" /\ job'[c].k = k),
           Listens(c)' => Careful(c)',
           \A n \in SafeCaches : Hears(n)' \/ (Listens(c)' /\ job'[c].n = n)
    PROVE  Keeping'
<1>1. \A d \in Clients : Listens(d)' => d = c
  BY DEF Only, Listens
<1>2. Alone' /\ Told'
  BY <1>1 DEF Alone, Told, At
<1>3. \A d \in Clients : Listens(d)' => Careful(d)'
  BY <1>1
<1>4. \A n \in SafeCaches : Eared(n)'
  BY DEF Eared, Hears
<1> QED
  BY <1>2, <1>3, <1>4 DEF Keeping

\* Who is about listeners is the only one.
LEMMA OnlyListener ==
    ASSUME NEW c \in Clients, Keeping, ~ marred, Listens(c) \/ (\A d \in Clients \ {c} : ~ Listens(d)),
           \A d \in Clients \ {c} : job'[d] = job[d]
    PROVE  Only(c)
BY DEF Keeping, Alone, Only

LEMMA ServiceKeeping ==
    ASSUME Inv, Named, Keeping, NEW s \in Services, Lose(s) \/ ConnectionClosed(s) \/ Die(s)
    PROVE  Keeping'
<1>1. /\ UNCHANGED <<support, attached, server, marred, job, wrapped>> /\ open' \subseteq open
  BY DEF Lose, ConnectionClosed, Die, ears
<1>2. 0 \notin open
  BY DEF Inv, TypeOK, Caches
<1> QED
  BY <1>1, <1>2, KeepingAside DEF Inv

\* Beginning a call that is not about listeners.
LEMMA BeginsAside ==
    ASSUME Inv, Named, Keeping, NEW c \in Clients,
           \/ Start(c) \/ Shutdown(c) \/ EnsureCache(c)
           \/ \E n \in SafeCaches : Get(c, n) \/ ReleaseCache(c, n)
    PROVE  Keeping'
<1>1. UNCHANGED <<support, attached, server, marred, wrapped>> /\ open' \subseteq open
  BY DEF Start, Shutdown, EnsureCache, Get, ReleaseCache, ears, remote
<1>2. 0 \notin open
  BY DEF Inv, TypeOK, Caches
<1>3. \A d \in Clients : job'[d] = job[d] \/ (~ Listens(d) /\ ~ Listens(d)')
  <2>1. CASE UNCHANGED job
    BY <2>1
  <2>2. ASSUME NEW f, NEW n, NEW p, NEW m, Does(c, Call(f, n, p, m)), p \in {"list", "monitor", "unlist"}, At(c, "idle")
        PROVE  \A d \in Clients : job'[d] = job[d] \/ (~ Listens(d) /\ ~ Listens(d)')
    <3>1. job'[c] = Call(f, n, p, m) /\ \A d \in Clients \ {c} : job'[d] = job[d]
      BY <2>2 DEF Inv, TypeOK, Does
    <3>2. job'[c].at = p
      BY <3>1 DEF Call
    <3> QED
      BY <2>2, <3>1, <3>2 DEF Listens, At
  <2> QED
    BY <2>1, <2>2 DEF Start, Shutdown, EnsureCache, Get, ReleaseCache, Calls
<1> QED
  BY <1>1, <1>2, <1>3, KeepingAside DEF Inv

\* What is enough stays enough for fewer.
LEMMA EnoughParts ==
    ASSUME NEW m, NEW S, NEW T, T \subseteq S, Enough(m, S)
    PROVE  Enough(m, T)
BY DEF Enough

\* Beginning a call about listeners of n: whoever else is at it makes the step overlap.
LEMMA BeginsListening ==
    ASSUME Inv, Keeping, NEW c \in Clients, At(c, "idle"), Overlaps(c), ~ marred', NEW n \in SafeCaches,
           UNCHANGED <<wrapped, open, attached, server>>, \A i \in SafeCaches \ {n} : support'[i] = support[i],
           \A d \in Clients \ {c} : job'[d] = job[d],
           \/ ~ Listens(c)' /\ Hears(n)'
           \/ /\ job'[c].for = "add" /\ job'[c].at = "attach" /\ job'[c].n = n
              /\ job'[c].mode \in Listeners /\ Enough(job'[c].mode, support'[n])
           \/ job'[c].for \in {"remove", "release"} /\ job'[c].at = "detach" /\ job'[c].n = n /\ support'[n] = {}
    PROVE  Keeping'
<1>1. ~ marred /\ Only(c)
  BY DEF Overlaps, Only
<1>2. ~ Listens(c) /\ job[c].at # "send"
  BY DEF Listens, At, Inv, Purposeful
<1>3. /\ \A k \in open : Covers(k)
      /\ \A i \in SafeCaches : Hears(i)
  BY <1>1, <1>2, OnlyHas
<1>4. \A k \in open' : Covers(k)'
  BY <1>3 DEF Covers, Deaf, Has
<1>5. \A i \in SafeCaches \ {n} : Hears(i)'
  BY <1>3 DEF Hears, Enough, Active
<1>6. Listens(c)' => Careful(c)'
  BY DEF Careful, Enough
<1>7. Hears(n)' \/ (Listens(c)' /\ job'[c].n = n)
  BY DEF Listens
<1> QED
  BY <1>1, <1>4, <1>5, <1>6, <1>7, OnlyKeeps

LEMMA AddListenerKeeping ==
    ASSUME Inv, Keeping, NEW c \in Clients, NEW n \in SafeCaches, NEW l \in Listeners, AddListener(c, n, l)
    PROVE  Keeping'
<1>1. SUFFICES ASSUME ~ marred' PROVE Keeping'
  BY DEF Keeping
<1>2. /\ At(c, "idle") /\ Overlaps(c) /\ support' = [support EXCEPT ![n] = @ \cup {l}]
      /\ UNCHANGED <<wrapped, open, attached, server>>
  BY DEF AddListener, Calls, remote
<1>3. support'[n] = support[n] \cup {l} /\ \A i \in SafeCaches \ {n} : support'[i] = support[i]
  BY <1>2 DEF Inv, TypeOK
<1>5. CASE Tells(n, l)
  <2>1. job'[c] = Call("add", n, "attach", l) /\ \A d \in Clients \ {c} : job'[d] = job[d]
    BY <1>5 DEF AddListener, Does, Inv, TypeOK
  <2>2. job'[c].for = "add" /\ job'[c].at = "attach" /\ job'[c].n = n /\ job'[c].mode = l
    BY <2>1 DEF Call
  <2>3. Enough(l, support'[n])
    BY <1>3, <1>5 DEF Tells, Enough, Listeners
  <2> QED
    BY <1>1, <1>2, <1>3, <2>1, <2>2, <2>3, BeginsListening
<1>6. CASE ~ Tells(n, l)
  <2>1. UNCHANGED job
    BY <1>6 DEF AddListener
  <2>2. ~ Listens(c) /\ ~ Listens(c)'
    BY <1>2, <2>1 DEF Listens, At, Inv, Purposeful
  <2>3. Hears(n)
    BY <1>1, <1>2, <2>1, <2>2, OnlyHas DEF Overlaps, Only
  <2>4. \A m : Enough(m, support[n]) => Enough(m, support'[n])
    BY <1>3, <1>6 DEF Tells, Enough, Listeners
  <2>5. Hears(n)'
    BY <1>2, <2>3, <2>4 DEF Hears, Active
  <2> QED
    BY <1>1, <1>2, <1>3, <2>1, <2>2, <2>5, BeginsListening
<1> QED
  BY <1>5, <1>6

LEMMA RemoveListenerKeeping ==
    ASSUME Inv, Keeping, NEW c \in Clients, NEW n \in SafeCaches, NEW l \in Listeners, RemoveListener(c, n, l)
    PROVE  Keeping'
<1>1. SUFFICES ASSUME ~ marred' PROVE Keeping'
  BY DEF Keeping
<1>2. /\ At(c, "idle") /\ Overlaps(c) /\ support' = [support EXCEPT ![n] = @ \ {l}]
      /\ UNCHANGED <<wrapped, open, attached, server>>
  BY DEF RemoveListener, Calls, remote
<1>3. support'[n] = support[n] \ {l} /\ \A i \in SafeCaches \ {n} : support'[i] = support[i]
  BY <1>2 DEF Inv, TypeOK
<1>4. CASE support'[n] = {}
  <2>1. job'[c] = Call("remove", n, "detach", "none") /\ \A d \in Clients \ {c} : job'[d] = job[d]
    BY <1>4 DEF RemoveListener, Does, Inv, TypeOK
  <2>2. job'[c].for = "remove" /\ job'[c].at = "detach" /\ job'[c].n = n
    BY <2>1 DEF Call
  <2> QED
    BY <1>1, <1>2, <1>3, <1>4, <2>1, <2>2, BeginsListening
<1>5. CASE support'[n] # {}
  <2>1. UNCHANGED job
    BY <1>5 DEF RemoveListener
  <2>2. ~ Listens(c) /\ ~ Listens(c)'
    BY <1>2, <2>1 DEF Listens, At, Inv, Purposeful
  <2>3. Hears(n)
    BY <1>1, <1>2, <2>1, <2>2, OnlyHas DEF Overlaps, Only
  <2>4. \A m : Enough(m, support[n]) => Enough(m, support'[n])
    BY <1>3, EnoughParts
  <2>5. Hears(n)'
    BY <1>2, <2>3, <2>4 DEF Hears, Active
  <2> QED
    BY <1>1, <1>2, <1>3, <2>1, <2>2, <2>5, BeginsListening
<1> QED
  BY <1>4, <1>5

LEMMA ReleaseKeeping ==
    ASSUME Inv, Keeping, NEW c \in Clients, NEW n \in SafeCaches, Release(c, n)
    PROVE  Keeping'
<1>1. SUFFICES ASSUME ~ marred' PROVE Keeping'
  BY DEF Keeping
<1>2. /\ At(c, "idle") /\ Overlaps(c) /\ support' = [support EXCEPT ![n] = {}]
      /\ UNCHANGED <<wrapped, open, attached, server>>
  BY DEF Release, Calls, remote
<1>3. support'[n] = {} /\ \A i \in SafeCaches \ {n} : support'[i] = support[i]
  BY <1>2 DEF Inv, TypeOK
<1>4. PICK p \in {"unlist", "detach"} : Does(c, Call("release", n, p, "none"))
  BY DEF Release
<1>5. job'[c] = Call("release", n, p, "none") /\ \A d \in Clients \ {c} : job'[d] = job[d]
  BY <1>4 DEF Does, Inv, TypeOK
<1>6. job'[c].for = "release" /\ job'[c].at = p /\ job'[c].n = n
  BY <1>5 DEF Call
<1>7. Hears(n)'
  BY <1>3 DEF Hears, Enough
<1>8. p = "unlist" => ~ Listens(c)'
  BY <1>6 DEF Listens
<1> QED
  BY <1>1, <1>2, <1>3, <1>5, <1>6, <1>7, <1>8, BeginsListening

LEMMA BeginKeeping ==
    ASSUME Inv, Named, Keeping, NEW c \in Clients, Begin(c)
    PROVE  Keeping'
BY BeginsAside, AddListenerKeeping, RemoveListenerKeeping, ReleaseKeeping DEF Begin

(***************************************************************************)
(* The restart of a safe cache, until it has a remote cache again.         *)
(***************************************************************************)
LEMMA RestartKeeping ==
    ASSUME Inv, Keeping, ~ marred, NEW c \in Clients, Only(c), job[c].for = "get", job[c].at # "send",
           NEW n \in SafeCaches, job[c].n = n,
           UNCHANGED <<support, attached, server>>, \A k \in open' : k \in open \/ Deaf(k),
           \A i \in SafeCaches \ {n} : wrapped'[i] = wrapped[i] /\ (wrapped[i] \in open' => wrapped[i] \in open),
           \/ job'[c] = Idle /\ Hears(n)'
           \/ /\ job'[c].for = "get" /\ job'[c].n = n /\ job'[c].at \in {"running", "renew", "fetch", "attach"}
              /\ wrapped'[n] = 0
    PROVE  Keeping'
<1>1. /\ \A k \in open : Covers(k)
      /\ \A i \in SafeCaches \ {n} : Hears(i)
  BY OnlyHas
<1>2. \A k \in open' : Covers(k)'
  BY <1>1 DEF Covers, Deaf, Has
<1>3. \A i \in SafeCaches \ {n} : Hears(i)'
  BY <1>1 DEF Hears, Active, Enough
<1>4. Listens(c)' => Careful(c)'
  <2>1. CASE job'[c] = Idle
    BY <2>1 DEF Listens, Idle
  <2>2. CASE job'[c] # Idle
    BY <2>2 DEF Careful
  <2> QED
    BY <2>1, <2>2
<1>5. Hears(n)' \/ (Listens(c)' /\ job'[c].n = n)
  BY DEF Listens
<1> QED
  BY <1>2, <1>3, <1>4, <1>5, OnlyKeeps

\* What a call that makes a safe cache does has nothing to do with listeners.
LEMMA EnsureJob ==
    ASSUME Inv, NEW c \in Clients, job[c].for = "ensure",
           EnsureRunning(c) \/ RestartService(c) \/ LockStore(c) \/ Fetch(c) \/ PutCache(c)
    PROVE  \A d \in Clients : job'[d] = job[d] \/ (~ Listens(d) /\ ~ Listens(d)')
<1>1. /\ \A d \in Clients \ {c} : job'[d] = job[d]
      /\ job'[c] = Idle \/ job'[c].for = "ensure"
  BY StepJob DEF Inv, Step
<1>2. ~ Listens(c)
  BY DEF Listens, EnsureRunning, RestartService, LockStore, Fetch, PutCache, At
<1>3. job'[c] = Idle \/ job'[c].at \in {"running", "renew", "fetch", "put"}
  <2>1. Job(c) = job[c] /\ job[c] \in Jobs
    BY DEF Inv, TypeOK, Job
  <2>2. ASSUME NEW p, Goes(c, p) PROVE job'[c].at = p
    <3>1. job'[c] = [job[c] EXCEPT !.at = p]
      BY <2>2 DEF Goes, Inv, TypeOK
    <3> QED
      BY <2>1, <3>1 DEF Jobs
  <2>3. ASSUME NEW s \in {0} \cup Services, Proceeds(c, s) PROVE job'[c].at \in {"fetch", "put"}
    BY <2>3, ProceedsParts DEF Inv
  <2>4. CASE Ends(c)
    BY <2>4 DEF Ends, Does, Inv, TypeOK
  <2>5. ASSUME NEW k \in Caches, Does(c, [job[c] EXCEPT !.at = "running", !.k = k]) PROVE job'[c].at = "running"
    <3>1. job'[c] = [job[c] EXCEPT !.at = "running", !.k = k]
      BY <2>5 DEF Does, Inv, TypeOK
    <3> QED
      BY <2>1, <3>1 DEF Jobs
  <2>6. CASE Fetch(c)
    <3>1. ASSUME NEW k \in Caches, Wrap(c, k) PROVE job'[c].at = "running"
      <4>1. Does(c, [job[c] EXCEPT !.at = "running", !.k = k])
        BY <2>1, <3>1 DEF Wrap
      <4> QED
        BY <2>5, <4>1
    <3>2. Ends(c) \/ \E k \in Caches : Wrap(c, k)
      BY <2>6 DEF Fetch
    <3> QED
      BY <2>4, <3>1, <3>2
  <2>7. service \in {0} \cup Services /\ (RestartService(c) => service' \in {0} \cup Services)
    BY RenewTyped DEF RestartService, Inv, TypeOK
  <2> QED
    BY <2>2, <2>3, <2>4, <2>6, <2>7 DEF EnsureRunning, RestartService, LockStore, PutCache
<1>4. ~ Listens(c)'
  BY <1>1, <1>3 DEF Listens, Idle
<1> QED
  BY <1>1, <1>2, <1>4

\* What a service gives: a remote cache that was open, or one that is new.
LEMMA FetchOpens ==
    ASSUME Inv, Named, NEW c \in Clients, Fetch(c)
    PROVE  /\ \A k \in open' : k \in open \/ Deaf(k)
           /\ \A n \in SafeCaches : wrapped[n] \in open' => wrapped[n] \in open
           /\ 0 \notin open'
           /\ UNCHANGED <<support, attached, server, marred>>
<1>1. UNCHANGED <<support, attached, server, marred, alive>>
  BY DEF Fetch, ears, top
<1>2. 0 \notin open /\ 0 \notin Caches
  BY DEF Inv, TypeOK, Caches
<1>3. CASE UNCHANGED open
  BY <1>1, <1>2, <1>3
<1>4. ASSUME NEW k \in Caches, RemoteEnsure(Job(c).s, k)
      PROVE  /\ \A i \in open' : i \in open \/ Deaf(i)
             /\ \A n \in SafeCaches : wrapped[n] \in open' => wrapped[n] \in open
             /\ 0 \notin open'
  <2>1. TypeOK /\ Known /\ Job(c).s \in {0} \cup Services
    BY DEF Inv, TypeOK, Jobs, Job
  <2>2. open' \in {open, open \cup {k}} /\ (k \in open \/ owner[k] = 0)
    BY ONLY <1>1, <1>4, <2>1, RemoteEnsureKnown
  <2>3. owner[k] = 0 => Deaf(k)
    BY DEF Named
  <2>4. \A n \in SafeCaches : wrapped[n] = 0 \/ owner[wrapped[n]] # 0
    BY <2>1 DEF Known
  <2> QED
    BY <1>2, <2>2, <2>3, <2>4
<1> QED
  BY <1>1, <1>3, <1>4 DEF Fetch, remote

LEMMA EnsureKeeping ==
    ASSUME Inv, Named, Keeping, NEW c \in Clients, job[c].for = "ensure",
           EnsureRunning(c) \/ RestartService(c) \/ LockStore(c) \/ Fetch(c) \/ PutCache(c)
    PROVE  Keeping'
<1>1. \A d \in Clients : job'[d] = job[d] \/ (~ Listens(d) /\ ~ Listens(d)')
  BY EnsureJob
<1>2. CASE EnsureRunning(c) \/ RestartService(c) \/ LockStore(c)
  <2>1. UNCHANGED <<support, attached, server, marred, wrapped, open>>
    BY <1>2 DEF EnsureRunning, RestartService, LockStore, ears, remote
  <2>2. 0 \notin open
    BY DEF Inv, TypeOK, Caches
  <2> QED
    BY <1>1, <2>1, <2>2, KeepingAside DEF Inv
<1>3. CASE Fetch(c)
  <2>1. UNCHANGED wrapped
    BY <1>3 DEF Fetch, Wrap, Job
  <2> QED
    BY <1>1, <1>3, <2>1, FetchOpens, KeepingAside DEF Inv
<1>4. CASE PutCache(c)
  <2>1. UNCHANGED <<support, attached, server, marred, open>> /\ 0 \notin open
    BY <1>4 DEF PutCache, ears, remote, Inv, TypeOK, Caches
  <2>2. PICK n \in SafeCaches \ born : wrapped' = [wrapped EXCEPT ![n] = Job(c).k]
    BY <1>4 DEF PutCache
  <2>3. support[n] = {} /\ \A i \in SafeCaches \ {n} : wrapped'[i] = wrapped[i]
    BY <2>2 DEF Named, Inv, TypeOK
  <2> QED
    BY <1>1, <2>1, <2>3, KeepingAside DEF Inv
<1> QED
  BY <1>2, <1>3, <1>4

LEMMA GetKeeping ==
    ASSUME Inv, Named, Keeping, NEW c \in Clients, job[c].for = "get",
           EnsureRunning(c) \/ RestartService(c) \/ Fetch(c)
    PROVE  Keeping'
<1>1. SUFFICES ASSUME ~ marred' PROVE Keeping'
  BY DEF Keeping
<1>2. /\ ~ marred /\ job[c].at \in {"running", "renew", "fetch"} /\ Listens(c)
  BY <1>1 DEF EnsureRunning, RestartService, Fetch, At, Listens
<1>3. PICK n \in SafeCaches : n = job[c].n
  BY DEF Inv, Purposeful
<1>4. /\ \A d \in Clients \ {c} : job'[d] = job[d]
      /\ job'[c] = Idle \/ (job'[c].for = "get" /\ job'[c].n = n)
  BY <1>3, StepJob DEF Inv, Step
<1>5. Only(c) /\ wrapped[n] = 0 /\ 0 \notin open
  <2>1. Only(c)
    BY <1>2, <1>4, OnlyListener
  <2>2. Careful(c)
    BY <1>2 DEF Keeping
  <2>3. wrapped[n] = 0
    BY <1>3, <2>2 DEF Careful
  <2> QED
    BY <2>1, <2>3 DEF Inv, TypeOK, Caches
<1>6. Job(c) = job[c] /\ job[c] \in Jobs
  BY DEF Inv, TypeOK, Job
<1>7. CASE EnsureRunning(c) \/ RestartService(c)
  <2>1. UNCHANGED <<support, attached, server, wrapped, open>>
    BY <1>7 DEF EnsureRunning, RestartService, ears, remote
  <2>2. job'[c] = Idle \/ job'[c].at \in {"renew", "fetch"}
    <3>1. ASSUME Goes(c, "renew") PROVE job'[c].at = "renew"
      <4>1. job'[c] = [job[c] EXCEPT !.at = "renew"]
        BY <3>1 DEF Goes, Inv, TypeOK
      <4> QED
        BY <1>6, <4>1 DEF Jobs
    <3>2. job[c].k = 0
      BY <1>2 DEF Inv, Purposeful
    <3>3. ASSUME NEW s \in {0} \cup Services, Proceeds(c, s) PROVE job'[c].at = "fetch"
      BY <3>2, <3>3, ProceedsParts DEF Inv
    <3>4. Ends(c) => job'[c] = Idle
      BY DEF Ends, Does, Inv, TypeOK
    <3>5. service \in {0} \cup Services /\ (RestartService(c) => service' \in {0} \cup Services)
      BY RenewTyped DEF RestartService, Inv, TypeOK
    <3> QED
      BY <1>7, <3>1, <3>3, <3>4, <3>5 DEF EnsureRunning, RestartService
  <2>3. Hears(n)'
    BY <1>5, <2>1 DEF Hears, Active
  <2> QED
    BY <1>2, <1>3, <1>4, <1>5, <2>1, <2>2, <2>3, RestartKeeping
<1>8. CASE Fetch(c)
  <2>1. \/ job'[c] = Idle /\ UNCHANGED wrapped
        \/ \E k : job'[c] = Idle /\ support[n] = {} /\ wrapped' = [wrapped EXCEPT ![n] = k]
        \/ job'[c].at = "attach" /\ UNCHANGED wrapped
    <3>1. Ends(c) => job'[c] = Idle
      BY DEF Ends, Does, Inv, TypeOK
    <3>2. ASSUME NEW k, Does(c, [job[c] EXCEPT !.at = "attach", !.k = k]) PROVE job'[c].at = "attach"
      <4>1. job'[c] = [job[c] EXCEPT !.at = "attach", !.k = k]
        BY <3>2 DEF Does, Inv, TypeOK
      <4> QED
        BY <1>6, <4>1 DEF Jobs
    <3> QED
      BY <1>3, <1>6, <1>8, <3>1, <3>2 DEF Fetch, Wrap
  <2>2. \A i \in SafeCaches \ {n} : wrapped'[i] = wrapped[i]
    BY <2>1 DEF Inv, TypeOK
  <2>3. (job'[c] = Idle => Hears(n)') /\ (job'[c] # Idle => wrapped'[n] = 0)
    <3>1. UNCHANGED support /\ 0 \notin open'
      BY <1>8, FetchOpens
    <3>2. CASE UNCHANGED wrapped
      BY <1>5, <3>1, <3>2 DEF Hears, Active
    <3>3. CASE job'[c] = Idle /\ support[n] = {}
      BY <3>1, <3>3 DEF Hears, Enough
    <3> QED
      BY <2>1, <3>2, <3>3
  <2>4. job'[c] # Idle => job'[c].at = "attach"
    BY <2>1
  <2> QED
    BY <1>2, <1>3, <1>4, <1>5, <1>8, <2>2, <2>3, <2>4, FetchOpens, RestartKeeping
<1> QED
  BY <1>7, <1>8

LEMMA GetRunningKeeping ==
    ASSUME Inv, Named, Keeping, NEW c \in Clients, GetRunning(c)
    PROVE  Keeping'
<1>1. SUFFICES ASSUME ~ marred' PROVE Keeping'
  BY DEF Keeping
<1>2. /\ job[c].at = "monitor" /\ job[c].for = "get" /\ ~ Listens(c) /\ Job(c) = job[c]
      /\ UNCHANGED <<support, attached, server, open>>
  BY DEF GetRunning, At, Inv, Purposeful, Listens, Job, ears, remote
<1>3. PICK n \in SafeCaches : n = job[c].n
  BY <1>2 DEF Inv, Purposeful
<1>4. /\ \A d \in Clients \ {c} : job'[d] = job[d]
      /\ job'[c] = Idle \/ (job'[c].for = "get" /\ job'[c].n = n)
  BY <1>2, <1>3, StepJob DEF Inv, Step
<1>5. CASE Restartable(n)
  <2>1. wrapped' = [wrapped EXCEPT ![n] = 0] /\ Goes(c, "running") /\ Overlaps(c)
    BY <1>2, <1>3, <1>5 DEF GetRunning
  <2>2. ~ marred /\ Only(c)
    BY <1>1, <1>4, <2>1 DEF Overlaps, Only
  <2>3. job'[c].at = "running" /\ job'[c].for = "get"
    <3>1. job'[c] = [job[c] EXCEPT !.at = "running"]
      BY <2>1 DEF Goes, Inv, TypeOK
    <3> QED
      BY <1>2, <3>1 DEF Inv, TypeOK, Jobs
  <2>4. wrapped'[n] = 0 /\ \A i \in SafeCaches \ {n} : wrapped'[i] = wrapped[i]
    BY <2>1 DEF Inv, TypeOK
  <2>5. job'[c].n = n
    BY <1>4, <2>3 DEF Idle
  <2> QED
    BY <1>2, <1>3, <2>2, <2>3, <2>4, <2>5, RestartKeeping
<1>6. CASE ~ Restartable(n)
  <2>1. Ends(c) /\ UNCHANGED <<wrapped, marred>>
    BY <1>2, <1>3, <1>6 DEF GetRunning
  <2>2. job'[c] = Idle
    BY <2>1 DEF Ends, Does, Inv, TypeOK
  <2>3. ~ Listens(c)' /\ 0 \notin open
    BY <2>2 DEF Listens, Idle, Inv, TypeOK, Caches
  <2> QED
    BY <1>2, <1>4, <2>1, <2>3, KeepingAside DEF Inv
<1> QED
  BY <1>5, <1>6

(***************************************************************************)
(* What is attached to a remote cache, and told to the proxy.              *)
(***************************************************************************)
\* The end of a listener's step: a restarted safe cache has its remote cache again.
LEMMA DoneJob ==
    ASSUME Inv, NEW c \in Clients, Done(c), job[c].at \in {"attach", "detach", "send"}
    PROVE  /\ ~ Listens(c)' /\ \A d \in Clients \ {c} : job'[d] = job[d]
           /\ \A i \in SafeCaches : i # job[c].n => wrapped'[i] = wrapped[i]
           /\ job[c].n \in SafeCaches =>
                 wrapped'[job[c].n] = IF job[c].for = "get" THEN job[c].k ELSE wrapped[job[c].n]
<1>1. Job(c) = job[c] /\ job[c] \in Jobs
  BY DEF Inv, TypeOK, Job
<1>2. Ends(c) => job'[c] = Idle /\ \A d \in Clients \ {c} : job'[d] = job[d]
  BY DEF Ends, Does, Inv, TypeOK
<1>3. ASSUME Goes(c, "unlist") PROVE job'[c].at = "unlist" /\ \A d \in Clients \ {c} : job'[d] = job[d]
  <2>1. job'[c] = [job[c] EXCEPT !.at = "unlist"] /\ \A d \in Clients \ {c} : job'[d] = job[d]
    BY <1>3 DEF Goes, Inv, TypeOK
  <2> QED
    BY <1>1, <2>1 DEF Jobs
<1>4. job[c].for = "release" => Goes(c, "unlist") /\ UNCHANGED wrapped
  BY <1>1 DEF Done
<1>5. job[c].for = "get" => Ends(c) /\ wrapped' = [wrapped EXCEPT ![job[c].n] = job[c].k]
  BY <1>1 DEF Done
<1>6. job[c].for \notin {"get", "release"} => Ends(c) /\ UNCHANGED wrapped
  BY <1>1 DEF Done
<1>7. ~ Listens(c)' /\ \A d \in Clients \ {c} : job'[d] = job[d]
  <2>1. CASE job[c].for = "release"
    <3>1. Goes(c, "unlist")
      BY <1>4, <2>1
    <3>2. job'[c].for = "release"
      <4>1. job'[c] = [job[c] EXCEPT !.at = "unlist"]
        BY <3>1 DEF Goes, Inv, TypeOK
      <4> QED
        BY <1>1, <2>1, <4>1 DEF Jobs
    <3> QED
      BY <1>3, <3>1, <3>2 DEF Listens
  <2>2. CASE job[c].for # "release"
    BY <1>2, <1>5, <1>6, <2>2 DEF Listens, Idle
  <2> QED
    BY <2>1, <2>2
<1>8. wrapped \in [SafeCaches -> {0} \cup Caches]
  BY DEF Inv, TypeOK
<1> QED
  BY <1>4, <1>5, <1>6, <1>7, <1>8

LEMMA AttachedParts ==
    ASSUME TypeOK, NEW k \in Caches, NEW n \in SafeCaches, NEW m, attached' = [attached EXCEPT ![k][n] = m]
    PROVE  /\ attached'[k][n] = m /\ \A i \in SafeCaches \ {n} : attached'[k][i] = attached[k][i]
           /\ \A q \in Caches \ {k} : attached'[q] = attached[q]
<1>1. attached' = [attached EXCEPT ![k] = [attached[k] EXCEPT ![n] = m]] /\ attached[k] \in [SafeCaches -> Modes]
  BY DEF TypeOK
<1>2. attached'[k] = [attached[k] EXCEPT ![n] = m] /\ \A q \in Caches \ {k} : attached'[q] = attached[q]
  BY <1>1 DEF TypeOK
<1> QED
  BY <1>1, <1>2

LEMMA ModeEnough ==
    ASSUME Inv, NEW c \in Clients, job[c].at = "attach", Careful(c)
    PROVE  Mode(c) \in Listeners /\ Enough(Mode(c), support[job[c].n])
<1>1. Job(c) = job[c] /\ job[c].for \in {"get", "add"}
  BY DEF Job, Inv, Purposeful
<1>2. CASE job[c].for = "add"
  BY <1>1, <1>2 DEF Mode, Careful
<1>3. CASE job[c].for = "get"
  BY <1>1, <1>3 DEF Mode, Enough, Listeners
<1> QED
  BY <1>1, <1>2, <1>3

LEMMA AttachKeeping ==
    ASSUME Inv, Keeping, NEW c \in Clients, Attach(c)
    PROVE  Keeping'
<1>1. SUFFICES ASSUME ~ marred' PROVE Keeping'
  BY DEF Keeping
<1>2. /\ ~ marred /\ job[c].at = "attach" /\ Listens(c) /\ Job(c) = job[c]
      /\ UNCHANGED <<support, server, open>>
  BY <1>1 DEF Attach, At, Listens, Job, remote
<1>3. PICK n \in SafeCaches : n = job[c].n
  BY <1>2 DEF Inv, Purposeful
<1>4. \A d \in Clients \ {c} : job'[d] = job[d]
  BY StepJob DEF Inv, Step
<1>5. Only(c) /\ Careful(c) /\ 0 \notin open /\ 0 \notin Caches /\ open \subseteq Caches
  <2>1. Only(c)
    BY <1>2, <1>4, OnlyListener
  <2>2. Careful(c)
    BY <1>2 DEF Keeping
  <2> QED
    BY <2>1, <2>2 DEF Inv, TypeOK, Caches
<1>6. /\ \A q \in open : Covers(q)
      /\ \A i \in SafeCaches \ {n} : Hears(i)
  BY <1>2, <1>3, <1>5, OnlyHas
<1>7. PICK m \in {"lite", "full"} : m = Mode(c) /\ m \in Listeners /\ Enough(m, support[n])
  BY <1>2, <1>3, <1>5, ModeEnough DEF Listeners
<1>8. PICK k \in {0} \cup Caches : k = Target(c) /\ k = (IF job[c].for = "get" THEN job[c].k ELSE wrapped[n])
  BY <1>2, <1>3 DEF Target, Inv, TypeOK, Jobs
<1>9. CASE k = 0
  <2>1. Done(c) /\ UNCHANGED attached
    BY <1>8, <1>9 DEF Attach
  <2>2. ~ Listens(c)' /\ wrapped'[n] = 0 /\ \A i \in SafeCaches \ {n} : wrapped'[i] = wrapped[i]
    BY <1>2, <1>3, <1>8, <1>9, <2>1, DoneJob
  <2>3. \A q \in open' : Covers(q)'
    BY <1>2, <1>6, <2>1 DEF Covers, Deaf, Has
  <2>4. \A i \in SafeCaches : Hears(i)'
    BY <1>2, <1>5, <1>6, <2>1, <2>2 DEF Hears, Active
  <2> QED
    BY <1>4, <1>5, <2>2, <2>3, <2>4, OnlyKeeps
<1>10. CASE k # 0
  <2>1. attached' = [attached EXCEPT ![k][n] = m] /\ k \in Caches
    BY <1>2, <1>3, <1>7, <1>8, <1>10 DEF Attach
  <2>2. /\ attached'[k][n] = m /\ \A i \in SafeCaches \ {n} : attached'[k][i] = attached[k][i]
        /\ \A q \in Caches \ {k} : attached'[q] = attached[q]
    BY <2>1, AttachedParts DEF Inv
  <2>3. \A q \in open \ {k} : Covers(q)'
    BY <1>2, <1>5, <1>6, <2>2 DEF Covers, Deaf, Has
  <2>4. CASE Deaf(k) \/ (~ Has(k, "full") /\ m = "full")
    <3>1. /\ job'[c].at = "send" /\ job'[c].k = k /\ job'[c].mode = m
          /\ job'[c].for = job[c].for /\ job'[c].n = n
      <4>1. Does(c, [Job(c) EXCEPT !.at = "send", !.k = k, !.mode = m])
        BY <1>7, <1>8, <1>10, <2>4 DEF Attach
      <4>2. /\ job'[c].at = "send" /\ job'[c].k = k /\ job'[c].mode = m
            /\ job'[c].for = job[c].for /\ job'[c].n = job[c].n
        <5>1. Job(c) = job[c] /\ job[c] \in Jobs
          BY DEF Inv, TypeOK, Job
        <5>2. job'[c] = [job[c] EXCEPT !.at = "send", !.k = k, !.mode = m]
          BY <4>1, <5>1 DEF Does, Inv, TypeOK
        <5> QED
          BY <5>1, <5>2 DEF Jobs
      <4> QED
        BY <1>3, <4>2
    <3>2. UNCHANGED wrapped
      BY <1>7, <1>8, <1>10, <2>4 DEF Attach
    <3>3. \A i \in SafeCaches \ {n} : Hears(i)'
      BY <1>2, <1>5, <1>6, <2>2, <3>2 DEF Hears, Active
    <3>4. m = "lite" => ~ Has(k, "full")'
      BY <1>7, <2>2, <2>4 DEF Deaf, Has
    <3>5. job[c].for # "get" => wrapped[n] = k
      BY <1>8
    <3>6. job[c].for \in {"get", "add"} /\ (job[c].for = "get" => wrapped[n] = 0)
      BY <1>2, <1>3, <1>5 DEF Inv, Purposeful, Careful
    <3>7. Careful(c)'
      <4>1. job'[c].for = "get" => wrapped'[n] = 0
        BY <3>1, <3>2, <3>6
      <4>2. attached'[k][n] = m /\ Enough(m, support'[n]) /\ m # "none"
        BY <1>2, <1>7, <2>2
      <4>3. job'[c].for # "get" => wrapped'[n] \in {0, k}
        BY <3>1, <3>2, <3>5
      <4>4. job'[c].for # "ensure" /\ k # 0
        BY <1>10, <3>1, <3>6
      <4> QED
        BY <3>1, <3>4, <4>1, <4>2, <4>3, <4>4 DEF Careful, Enough, Has
    <3>8. Listens(c)'
      BY <3>1 DEF Listens
    <3> QED
      BY <1>2, <1>4, <1>5, <2>3, <3>1, <3>3, <3>7, <3>8, OnlyKeeps
  <2>5. CASE ~ (Deaf(k) \/ (~ Has(k, "full") /\ m = "full"))
    <3>1. Done(c)
      BY <1>7, <1>8, <1>10, <2>5 DEF Attach
    <3>2. ~ Listens(c)' /\ wrapped'[n] = k /\ \A i \in SafeCaches \ {n} : wrapped'[i] = wrapped[i]
      BY <1>2, <1>3, <1>8, <3>1, DoneJob
    <3>3. k \in open => Covers(k)'
      <4>1. Has(k, "full")' => Has(k, "full")
        BY <2>2, <2>5 DEF Has
      <4>2. k \in open => server[k] # "none" /\ (Has(k, "full") => server[k] = "full")
        BY <1>6, <2>5 DEF Covers
      <4> QED
        BY <1>2, <4>1, <4>2 DEF Covers
    <3>4. Hears(n)'
      BY <1>2, <1>7, <2>2, <3>2 DEF Hears
    <3>5. \A i \in SafeCaches \ {n} : Hears(i)'
      BY <1>2, <1>5, <1>6, <2>2, <3>2 DEF Hears, Active
    <3> QED
      BY <1>2, <1>4, <1>5, <2>3, <3>2, <3>3, <3>4, <3>5, OnlyKeeps
  <2> QED
    BY <2>4, <2>5
<1> QED
  BY <1>9, <1>10

LEMMA DetachKeeping ==
    ASSUME Inv, Keeping, NEW c \in Clients, Detach(c)
    PROVE  Keeping'
<1>1. SUFFICES ASSUME ~ marred' PROVE Keeping'
  BY DEF Keeping
<1>2. /\ ~ marred /\ job[c].at = "detach" /\ Listens(c) /\ Job(c) = job[c]
      /\ UNCHANGED <<support, server, open>> /\ job[c].for \in {"remove", "release"}
  BY <1>1 DEF Detach, At, Listens, Job, remote, Inv, Purposeful
<1>3. PICK n \in SafeCaches : n = job[c].n
  BY <1>2 DEF Inv, Purposeful
<1>4. \A d \in Clients \ {c} : job'[d] = job[d]
  BY StepJob DEF Inv, Step
<1>5. Only(c) /\ support[n] = {} /\ 0 \notin open /\ open \subseteq Caches
  <2>1. Only(c)
    BY <1>2, <1>4, OnlyListener
  <2>2. Careful(c)
    BY <1>2 DEF Keeping
  <2>3. support[n] = {}
    BY <1>2, <1>3, <2>2 DEF Careful
  <2> QED
    BY <2>1, <2>3 DEF Inv, TypeOK, Caches
<1>6. /\ \A q \in open : Covers(q)
      /\ \A i \in SafeCaches \ {n} : Hears(i)
  BY <1>2, <1>3, <1>5, OnlyHas
<1>7. Hears(n)'
  BY <1>2, <1>5 DEF Hears, Enough
<1>8. PICK k \in {0} \cup Caches : k = Target(c) /\ k = wrapped[n]
  BY <1>2, <1>3 DEF Target, Inv, TypeOK
<1>9. Done(c) => ~ Listens(c)' /\ UNCHANGED wrapped
  <2>1. Done(c) => UNCHANGED wrapped
    BY <1>2 DEF Done
  <2> QED
    BY <1>2, <2>1, DoneJob
<1>10. CASE k = 0
  <2>1. Done(c) /\ UNCHANGED attached
    BY <1>8, <1>10 DEF Detach
  <2>2. \A q \in open' : Covers(q)'
    BY <1>2, <1>6, <2>1 DEF Covers, Deaf, Has
  <2>3. \A i \in SafeCaches \ {n} : Hears(i)'
    BY <1>2, <1>6, <1>9, <2>1 DEF Hears, Active
  <2> QED
    BY <1>5, <1>7, <1>9, <2>1, <2>2, <2>3, OnlyKeeps
<1>11. CASE k # 0
  <2>1. attached' = [attached EXCEPT ![k][n] = "none"] /\ k \in Caches
    BY <1>2, <1>3, <1>8, <1>11 DEF Detach
  <2>2. /\ attached'[k][n] = "none" /\ \A i \in SafeCaches \ {n} : attached'[k][i] = attached[k][i]
        /\ \A q \in Caches \ {k} : attached'[q] = attached[q]
    BY <2>1, AttachedParts DEF Inv
  <2>3. \A q \in open \ {k} : Covers(q)'
    BY <1>2, <1>5, <1>6, <2>2 DEF Covers, Deaf, Has
  <2>4. UNCHANGED wrapped
    BY <1>9 DEF Detach
  <2>5. \A i \in SafeCaches \ {n} : Hears(i)'
    BY <1>2, <1>5, <1>6, <2>2, <2>4 DEF Hears, Active
  <2>6. CASE \A i \in SafeCaches \ {n} : attached[k][i] = "none"
    <3>1. Does(c, [Job(c) EXCEPT !.at = "send", !.k = k, !.mode = "none"])
      BY <1>2, <1>3, <1>8, <1>11, <2>6 DEF Detach
    <3>2. /\ job'[c].at = "send" /\ job'[c].k = k /\ job'[c].mode = "none"
          /\ job'[c].for = job[c].for /\ job'[c].n = n
      <4>1. job[c] \in Jobs
        BY DEF Inv, TypeOK
      <4>2. job'[c] = [job[c] EXCEPT !.at = "send", !.k = k, !.mode = "none"]
        BY <1>2, <3>1 DEF Does, Inv, TypeOK
      <4> QED
        BY <1>3, <4>1, <4>2 DEF Jobs
    <3>3. Deaf(k)'
      BY <2>2, <2>6 DEF Deaf
    <3>4. Careful(c)'
      <4>1. attached'[k][n] = "none" /\ Enough("none", support'[n])
        BY <1>2, <1>5, <2>2 DEF Enough
      <4>2. wrapped'[n] = k
        BY <1>8, <2>4
      <4>3. job'[c].for \notin {"get", "ensure"} /\ k # 0
        BY <1>2, <1>11, <3>2
      <4> QED
        BY <3>2, <3>3, <4>1, <4>2, <4>3 DEF Careful, Enough, Deaf
    <3> QED
      BY <1>2, <1>5, <1>7, <2>3, <2>5, <3>2, <3>4, OnlyKeeps
  <2>7. CASE ~ \A i \in SafeCaches \ {n} : attached[k][i] = "none"
    <3>1. Done(c)
      BY <1>2, <1>3, <1>8, <1>11, <2>7 DEF Detach
    <3>2. ~ Deaf(k) /\ (Has(k, "full")' => Has(k, "full"))
      <4>1. ~ Deaf(k)
        BY <2>7 DEF Deaf
      <4> QED
        BY <2>2, <4>1 DEF Has
    <3>3. k \in open => Covers(k)'
      BY <1>2, <1>6, <3>2 DEF Covers
    <3> QED
      BY <1>2, <1>5, <1>7, <1>9, <2>3, <2>5, <3>1, <3>3, OnlyKeeps
  <2> QED
    BY <2>6, <2>7
<1> QED
  BY <1>10, <1>11

LEMMA RequestKeeping ==
    ASSUME Inv, Keeping, NEW c \in Clients, Request(c)
    PROVE  Keeping'
<1>1. SUFFICES ASSUME ~ marred' PROVE Keeping'
  BY DEF Keeping
<1>2. /\ ~ marred /\ job[c].at = "send" /\ Listens(c) /\ Job(c) = job[c] /\ job[c].k \in open
      /\ UNCHANGED <<support, attached, open>> /\ Done(c)
  BY <1>1 DEF Request, At, Listens, Job, remote
<1>3. /\ \A d \in Clients \ {c} : job'[d] = job[d]
      /\ Only(c) /\ Careful(c)
  <2>1. \A d \in Clients \ {c} : job'[d] = job[d]
    BY StepJob DEF Inv, Step
  <2> QED
    BY <1>2, <2>1, OnlyListener DEF Keeping
<1>4. PICK n \in SafeCaches : n = job[c].n
  <2>1. job[c].for \notin {"none", "ensure"}
    BY <1>2, <1>3 DEF Inv, Purposeful, Careful
  <2> QED
    BY <2>1 DEF Inv, Purposeful
<1>5. PICK k \in Caches : k = job[c].k
  BY <1>2 DEF Inv, TypeOK
<1>6. PICK m \in Modes : m = job[c].mode
  BY DEF Inv, TypeOK, Jobs
<1>7. /\ \A q \in open \ {k} : Covers(q)
      /\ \A i \in SafeCaches \ {n} : Hears(i)
  BY <1>2, <1>3, <1>4, <1>5, OnlyHas
<1>8. server'[k] = m /\ \A q \in Caches \ {k} : server'[q] = server[q]
  BY <1>2, <1>5, <1>6 DEF Request, Inv, TypeOK
<1>9. /\ attached[k][n] = m /\ Enough(m, support[n])
      /\ m = "none" => Deaf(k)
      /\ m = "lite" => ~ Has(k, "full")
      /\ job[c].for # "get" => wrapped[n] \in {0, k}
  BY <1>2, <1>3, <1>4, <1>5, <1>6 DEF Careful
<1>10. /\ ~ Listens(c)' /\ \A i \in SafeCaches \ {n} : wrapped'[i] = wrapped[i]
       /\ wrapped'[n] = IF job[c].for = "get" THEN k ELSE wrapped[n]
  BY <1>2, <1>4, <1>5, DoneJob
<1>11. Covers(k)'
  <2>1. m \in {"none", "lite", "full"}
    BY DEF Modes, Listeners
  <2>2. Deaf(k) => ~ Has(k, "full")
    BY DEF Deaf, Has
  <2> QED
    BY <1>2, <1>8, <1>9, <2>1, <2>2 DEF Covers, Deaf, Has
<1>12. \A q \in open \ {k} : Covers(q)'
  <2>1. open \subseteq Caches
    BY DEF Inv, TypeOK
  <2> QED
    BY <1>2, <1>7, <1>8, <2>1 DEF Covers, Deaf, Has
<1>13. \A i \in SafeCaches \ {n} : Hears(i)'
  BY <1>2, <1>7, <1>10 DEF Hears, Active
<1>14. Hears(n)'
  <2>1. wrapped'[n] \in {0, k} /\ 0 \notin open
    BY <1>9, <1>10 DEF Inv, TypeOK, Caches
  <2> QED
    BY <1>2, <1>9, <2>1 DEF Hears, Active
<1> QED
  BY <1>2, <1>3, <1>10, <1>11, <1>12, <1>13, <1>14, OnlyKeeps

LEMMA RequestFailsKeeping ==
    ASSUME Inv, Keeping, NEW c \in Clients, RequestFails(c)
    PROVE  Keeping'
<1>1. SUFFICES ASSUME ~ marred' PROVE Keeping'
  BY DEF Keeping
<1>2. /\ ~ marred /\ job[c].at = "send" /\ Listens(c) /\ Job(c) = job[c] /\ job[c].k \notin open
      /\ UNCHANGED <<server, open>>
  BY <1>1 DEF RequestFails, At, Listens, Job, remote, Inv, TypeOK
<1>3. /\ \A d \in Clients \ {c} : job'[d] = job[d]
      /\ Only(c) /\ Careful(c)
  <2>1. \A d \in Clients \ {c} : job'[d] = job[d]
    BY StepJob DEF Inv, Step
  <2> QED
    BY <1>2, <2>1, OnlyListener DEF Keeping
<1>4. PICK n \in SafeCaches : n = job[c].n /\ job[c].for \notin {"none", "ensure"}
  <2>1. job[c].for \notin {"none", "ensure"}
    BY <1>2, <1>3 DEF Inv, Purposeful, Careful
  <2> QED
    BY <2>1 DEF Inv, Purposeful
<1>5. PICK k \in Caches : k = job[c].k
  <2>1. job[c].k # 0 /\ job[c].k \in {0} \cup Caches
    BY <1>2, <1>3 DEF Inv, TypeOK, Jobs, Careful
  <2> QED
    BY <2>1
<1>6. /\ \A q \in open : Covers(q)
      /\ \A i \in SafeCaches \ {n} : Hears(i)
  BY <1>2, <1>3, <1>4, <1>5, OnlyHas
<1>7. UNCHANGED support /\ (job[c].for # "get" => wrapped[n] \in {0, k}) /\ (job[c].for = "get" => wrapped[n] = 0)
  <2>1. UNCHANGED support
    BY <1>2 DEF RequestFails
  <2> QED
    BY <1>2, <1>3, <1>4, <1>5, <2>1 DEF Careful
<1>8. \A q \in open : attached'[q] = attached[q]
  <2>1. attached' = attached \/ attached' = [attached EXCEPT ![k][n] = "none"]
    BY <1>2, <1>4, <1>5 DEF RequestFails
  <2>2. open \subseteq Caches \ {k}
    BY <1>2, <1>5 DEF Inv, TypeOK
  <2>3. \A q \in Caches \ {k} : attached'[q] = attached[q]
    BY <2>1, AttachedParts DEF Inv
  <2> QED
    BY <2>2, <2>3
<1>9. UNCHANGED wrapped /\ ~ Listens(c)'
  <2>1. CASE Done(c) /\ job[c].for # "get"
    <3>1. UNCHANGED wrapped
      BY <1>2, <2>1 DEF Done
    <3> QED
      BY <1>2, <2>1, <3>1, DoneJob
  <2>2. CASE Ends(c) /\ UNCHANGED wrapped
    <3>1. job'[c] = Idle
      BY <2>2 DEF Ends, Does, Inv, TypeOK
    <3> QED
      BY <2>2, <3>1 DEF Listens, Idle
  <2> QED
    BY <1>2, <2>1, <2>2 DEF RequestFails
<1>10. \A q \in open : Covers(q)'
  BY <1>2, <1>6, <1>8 DEF Covers, Deaf, Has
<1>11. \A i \in SafeCaches \ {n} : Hears(i)'
  BY <1>2, <1>6, <1>7, <1>8, <1>9 DEF Hears, Active
<1>12. Hears(n)'
  <2>1. wrapped'[n] \in {0, k} /\ 0 \notin open
    BY <1>7, <1>9 DEF Inv, TypeOK, Caches
  <2> QED
    BY <1>2, <1>5, <2>1 DEF Hears, Active
<1> QED
  BY <1>2, <1>3, <1>9, <1>10, <1>11, <1>12, OnlyKeeps

\* The end of a release has nothing to do with listeners any more.
LEMMA UnlistKeeping ==
    ASSUME Inv, Named, Keeping, NEW c \in Clients, Unlist(c) \/ Close(c)
    PROVE  Keeping'
<1>1. /\ job[c].at \in {"unlist", "close"} /\ Job(c) = job[c]
      /\ UNCHANGED <<support, attached, server, marred>> /\ open' \subseteq open
      /\ Goes(c, "close") \/ Ends(c)
  BY DEF Unlist, Close, At, Job, ears, remote
<1>2. job[c].for \in {"release", "drop"} /\ ~ Listens(c)
  BY <1>1 DEF Inv, Purposeful, Listens
<1>3. \A d \in Clients \ {c} : job'[d] = job[d]
  BY StepJob DEF Inv, Step
<1>4. ~ Listens(c)'
  <2>1. CASE Ends(c)
    BY <2>1 DEF Ends, Does, Inv, TypeOK, Listens, Idle
  <2>2. CASE Goes(c, "close")
    <3>1. job'[c] = [job[c] EXCEPT !.at = "close"]
      BY <2>2 DEF Goes, Inv, TypeOK
    <3>2. job'[c].at = "close" /\ job'[c].for = job[c].for
      BY <3>1 DEF Inv, TypeOK, Jobs
    <3> QED
      BY <3>2 DEF Listens
  <2> QED
    BY <1>1, <2>1, <2>2
<1>5. \A n \in SafeCaches : wrapped'[n] \in {0, wrapped[n]}
  BY DEF Unlist, Close, Inv, TypeOK
<1>6. 0 \notin open
  BY DEF Inv, TypeOK, Caches
<1> QED
  BY <1>1, <1>2, <1>3, <1>4, <1>5, <1>6, KeepingAside DEF Inv

LEMMA StepKeeping ==
    ASSUME Inv, Named, Keeping, NEW c \in Clients, Step(c)
    PROVE  Keeping'
<1>1. CASE EnsureRunning(c) \/ RestartService(c) \/ LockStore(c) \/ Fetch(c) \/ PutCache(c)
  <2>1. job[c].for \in {"get", "ensure"} /\ (LockStore(c) \/ PutCache(c) => job[c].for = "ensure")
    BY <1>1 DEF EnsureRunning, RestartService, LockStore, Fetch, PutCache, At, Inv, Purposeful
  <2> QED
    BY <1>1, <2>1, EnsureKeeping, GetKeeping
<1>2. CASE GetRunning(c)
  BY <1>2, GetRunningKeeping
<1>3. CASE Attach(c) \/ Detach(c)
  BY <1>3, AttachKeeping, DetachKeeping
<1>4. CASE Request(c) \/ RequestFails(c)
  BY <1>4, RequestKeeping, RequestFailsKeeping
<1>5. CASE Unlist(c) \/ Close(c)
  BY <1>5, UnlistKeeping
<1> QED
  BY <1>1, <1>2, <1>3, <1>4, <1>5 DEF Step

LEMMA NextHeeding ==
    ASSUME Inv, Named, Keeping, [Next]_vars
    PROVE  Named' /\ Keeping'
<1>1. ASSUME NEW c \in Clients, Begin(c) PROVE Named' /\ Keeping'
  BY <1>1, BeginNamed, BeginKeeping DEF Inv
<1>2. ASSUME NEW c \in Clients, Step(c) PROVE Named' /\ Keeping'
  BY <1>2, StepNamed, StepKeeping DEF Inv
<1>3. ASSUME NEW s \in Services, Lose(s) \/ ConnectionClosed(s) \/ Die(s) PROVE Named' /\ Keeping'
  <2>1. UNCHANGED <<support, attached, owner, born, job>>
    BY <1>3 DEF Lose, ConnectionClosed, Die, ears, names
  <2>2. Named'
    BY <2>1 DEF Named, Deaf
  <2> QED
    BY <1>3, <2>2, ServiceKeeping
<1>4. CASE UNCHANGED vars
  <2>1. UNCHANGED <<support, attached, server, marred, job, wrapped, open, owner, born>>
    BY <1>4 DEF vars, ears, remote, names
  <2>2. Named'
    BY <2>1 DEF Named, Deaf
  <2>3. Keeping'
    BY <2>1 DEF Keeping, Alone, Told, Eared, Careful, Covers, Deaf, Has, Enough, Active, Listens, At
  <2> QED
    BY <2>2, <2>3
<1> QED
  BY <1>1, <1>2, <1>3, <1>4 DEF Next

\* When no call about listeners is under way, every active safe cache is attached, and
\* the proxy has been told enough for it.
LEMMA KeepingHeard == Inv /\ Keeping => Heard
<1> SUFFICES ASSUME Inv, Keeping, ~ marred, \A c \in Clients : ~ Listens(c),
                    NEW n \in SafeCaches, Active(n), support[n] # {}
             PROVE  /\ attached[wrapped[n]][n] # "none" /\ server[wrapped[n]] # "none"
                    /\ "full" \in support[n] => server[wrapped[n]] = "full"
  BY DEF Heard
<1>1. Enough(attached[wrapped[n]][n], support[n])
  BY DEF Keeping, Eared
<1>2. Covers(wrapped[n])
  BY DEF Keeping, Told, Listens, At, Active
<1> QED
  BY <1>1, <1>2 DEF Enough, Covers, Deaf, Has

\* The listeners of an active safe cache hear its events, with values if one of them
\* wants values: however restartNamedCache, addMapListener, removeMapListener and release
\* of SafeNamedCache follow each other, whatever two safe caches share, and whenever the
\* connection is lost, RemoteNamedCache's listener support and what it has told the proxy
\* agree with the SafeNamedCache's own, as long as no two of these calls overlap.
THEOREM HeardHolds == Spec => []Heard
<1>1. Init => Inv /\ Named /\ Keeping
  BY InitInv, InitHeeding
<1>2. Inv /\ Named /\ Keeping /\ [Next]_vars => (Inv /\ Named /\ Keeping)'
  BY NextInv, NextHeeding
<1>3. Inv /\ Named /\ Keeping => Heard
  BY KeepingHeard
<1> QED
  BY <1>1, <1>2, <1>3, PTL DEF Spec
=============================================================================
