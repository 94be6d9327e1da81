--------------------------- MODULE ContinuousQuery ---------------------------
(***************************************************************************)
(* A ContinuousQueryCache: the local image of a query against a cache of   *)
(* the peer, kept up to date by events.                                    *)
(*                                                                         *)
(* Four kinds of threads meet in it.  A caller finds the image out of date *)
(* and configures it under the cache's monitor: it registers the listeners *)
(* with the peer, asks for the query's result, and reads again the keys    *)
(* whose events came in between (m_hMapSyncReq).  The connection's service *)
(* thread takes events and responses in the order the peer sent them and   *)
(* runs the listeners, without the monitor.  When a connection is lost,    *)
(* its service thread ("chan", onChannelClosed of the deactivation         *)
(* listener) and after it the event dispatcher ("left", memberLeft of the  *)
(* service listener) set the state to disconnected, without the monitor    *)
(* and as late as they please.  The SafeNamedCache below connects again by *)
(* itself, but keeps no synchronous listener across connections.           *)
(*                                                                         *)
(* Abstractions: the peer serves the requests of a channel in order, so a  *)
(* request and its processing are one step; local gives a key no value     *)
(* other than Null while only keys are cached, or the value last fetched.  *)
(* Left out: the transformer, indexes, the routing of events to the        *)
(* cache's own listeners, and a reconnect interval (it is 0, the default). *)
(***************************************************************************)
EXTENDS Naturals, Sequences, SequencesExt, FiniteSets

CONSTANTS Users,        \* the threads that call the cache
          Keys,
          Values,       \* what the peer's cache may hold
          Matching,     \* the values that satisfy the filter
          Initially,    \* the contents the peer's cache may start with
          Caching,      \* whether values are cached at first
          Absent, Null, \* no entry; an entry without a value
          Attempts,     \* 3 in the code
          MaxWrites, MaxUpsets \* bounds

NoOne   == "no one"
Service == "service"
Pseudo  == "DeactivationListener*" \* the key a deferred truncation leaves
SyncKeys == Keys \cup {Pseudo}

ASSUME QueryConstants ==
    /\ Matching \subseteq Values /\ Initially \subseteq [Keys -> Values \cup {Absent}]
    /\ Caching \subseteq BOOLEAN /\ Absent \notin Values /\ Null \notin Values /\ Absent # Null
    /\ Users \cap {NoOne, Service} = {} /\ Pseudo \notin Keys
    /\ Attempts \in Nat \ {0, 1}
    /\ MaxWrites \in Nat /\ MaxUpsets \in Nat

VARIABLES store,   \* the peer's cache
          listen,  \* the listeners of this connection
          up,      \* whether there is a connection
          wire,    \* what the peer sent and the service has not taken
          state,   \* m_nState
          hCache,  \* whether m_hCache is not NULL
          ref,     \* whether m_hMapSyncReq is not NULL
          reqs,    \* the keys of the latest m_hMapSyncReq
          local,   \* the content of m_hMapLocal
          made,    \* whether m_hMapLocal is not NULL
          values,  \* isCacheValues()
          added,   \* the events m_vFilterAdd asks for, "none" if NULL
          member,  \* whether the service listener is registered
          owner,   \* who holds the cache's monitor
          pc,      \* what each user does
          tries,   \* the failed attempts of its call
          conf,    \* locals of configureSynchronization
          reply,   \* what its request returned
          ev,      \* the event the service thread handles
          disc,    \* the pending calls of changeState(disconnected), in order
          nulled,  \* whether the first of them has set m_hCache to NULL
          late,    \* history: keys deferred after the deferred keys were read
          marks,   \* history: what else lost events, see below
          count    \* of the writes and of what upsets the cache

peer    == <<store, listen, up>>
calls   == <<disc, nulled>>
fields  == <<state, hCache, ref, reqs>>
image   == <<local, made, values, added, member>>
caller  == <<owner, pc, tries, conf, reply>>
history == <<late, marks>>
vars    == <<peer, wire, fields, image, caller, ev, calls, history, count>>

(***************************************************************************)
(* The marks.  "kept": the image was configured without a reload although  *)
(* it had been disconnected.  "deaf": the deactivation listener was not    *)
(* registered with this connection when the cache was truncated.           *)
(* "dropped": a truncation was deferred, and nothing was reloaded.         *)
(* "overwritten": a disconnection was set between the test and the         *)
(* assignment of changeState.                                              *)
(***************************************************************************)
Marks    == {"kept", "deaf", "dropped", "overwritten"}
States   == {"disconnected", "configuring", "configured", "synchronized"}
Modes    == {"none", "keys", "values"}
Asking   == {"removes", "adds", "load", "sync"}
Early    == {"register", "removes", "adds"}  \* before hMapLocal is assigned
InTime   == Early \cup {"load", "setConfigured", "resolve"}
Steps    == {"idle", "enter", "sync", "setSynchronized", "unexpected"} \cup InTime
Handling == {"idle", "judge", "defer", "settle", "apply",
             "ensure", "enter", "read", "weigh", "note", "truncate"}
Silent   == [add |-> "none", rem |-> FALSE, trunc |-> FALSE]
Rest     == [step |-> "idle", key |-> Null, value |-> Null, current |-> FALSE]
NoConf   == [reload |-> FALSE, had |-> "none", keys |-> {}]
Empty    == [k \in Keys |-> Absent]
NoReply  == [status |-> "none", data |-> Empty]
Asked    == [status |-> "asked", data |-> Empty]
Failed   == [status |-> "failed", data |-> Empty]

TypeOK ==
    /\ store \in [Keys -> Values \cup {Absent}]
    /\ listen \in [add : Modes, rem : BOOLEAN, trunc : BOOLEAN] /\ up \in BOOLEAN
    /\ state \in States /\ {hCache, ref, made, values, member} \subseteq BOOLEAN
    /\ reqs \subseteq SyncKeys /\ late \subseteq Keys /\ marks \subseteq Marks
    /\ local \in [Keys -> Values \cup {Absent, Null}] /\ added \in Modes
    /\ owner \in Users \cup {NoOne}
    /\ pc \in [Users -> Steps] /\ tries \in [Users -> 0..Attempts]
    /\ \A u \in Users : pc[u] \notin {"idle", "enter"} => owner = u
    /\ ev.step \in Handling /\ disc \in BoundedSeq({"chan", "left"}, 2) /\ nulled \in BOOLEAN

Init ==
    /\ store \in Initially
    /\ listen = Silent /\ up = TRUE /\ wire = <<>>
    /\ state = "disconnected" /\ hCache = FALSE /\ ref = FALSE /\ reqs = {}
    /\ local = Empty /\ made = TRUE /\ values \in Caching
    /\ added = "none" /\ member = FALSE
    /\ owner = NoOne /\ pc = [u \in Users |-> "idle"]
    /\ tries = [u \in Users |-> 0] /\ conf = NoConf /\ reply = NoReply
    /\ ev = Rest /\ disc = <<>> /\ nulled = FALSE
    /\ late = {} /\ marks = {}
    /\ count = [writes |-> 0, upsets |-> 0]

Mode        == IF values THEN "values" ELSE "keys"
InQuery(v)  == v \in Matching
Upsets      == count.upsets < MaxUpsets /\ count' = [count EXCEPT !.upsets = @ + 1]
Goto(u, s)  == pc' = [pc EXCEPT ![u] = s]

-----------------------------------------------------------------------------
(* The peer *)

\* The event of a change from old to new that the listeners ask for: an
\* insert or update into the query, an update within it, a delete or update
\* out of it.
Events(k, old, new) ==
    IF InQuery(new)
    THEN IF listen.add = "values" \/ (listen.add = "keys" /\ ~InQuery(old))
         THEN <<[type |-> "put", key |-> k,
                 value |-> IF listen.add = "values" THEN new ELSE Null]>>
         ELSE <<>>
    ELSE IF InQuery(old) /\ listen.rem
         THEN <<[type |-> "remove", key |-> k, value |-> Null]>> ELSE <<>>

Write(k, v) ==
    /\ count.writes < MaxWrites /\ v # store[k]
    /\ store' = [store EXCEPT ![k] = v]
    /\ wire' = wire \o (IF up THEN Events(k, store[k], v) ELSE <<>>)
    /\ count' = [count EXCEPT !.writes = @ + 1]
    /\ UNCHANGED <<listen, up, fields, image, caller, ev, calls, history>>

\* A truncation has one event for the whole cache.
Truncate ==
    /\ Upsets
    /\ store' = Empty
    /\ wire' = IF up THEN Append(wire, [type |-> "truncate"]) ELSE wire
    /\ UNCHANGED <<listen, up, fields, image, caller, ev, calls, history>>

\* The service thread closes the connection: requests end with an exception,
\* then the deactivation listener (when registered with this connection) and
\* the service listener are due to be told.
If(c, d) == IF c THEN <<d>> ELSE <<>>

Die ==
    /\ up /\ ev.step = "idle" /\ disc = <<>> /\ Upsets
    /\ up' = FALSE /\ wire' = <<>> /\ listen' = Silent
    /\ reply' = IF reply = Asked THEN Failed ELSE reply
    /\ disc' = If(listen.trunc, "chan") \o If(member, "left")
    /\ UNCHANGED <<store, fields, image, owner, pc, tries, conf, ev, nulled, history>>

\* SafeNamedCache::getRunningNamedCache on behalf of any of its users.
Reconnect ==
    /\ ~up /\ up' = TRUE
    /\ UNCHANGED <<store, listen, wire, fields, image, caller, ev, calls, history, count>>

-----------------------------------------------------------------------------
(* changeState(disconnected), by a listener: two assignments, no monitor *)

NullCache ==
    /\ disc # <<>> /\ ~nulled
    /\ hCache' = FALSE /\ nulled' = TRUE
    /\ UNCHANGED <<peer, wire, state, ref, reqs, image, caller, ev, disc, history, count>>

Disconnect ==
    /\ nulled
    /\ state' = "disconnected" /\ disc' = Tail(disc) /\ nulled' = FALSE
    /\ UNCHANGED <<peer, wire, hCache, ref, reqs, image, caller, ev, history, count>>

-----------------------------------------------------------------------------
(* A caller *)

\* An operation finds the image out of date (ensureSynchronized).
Call(u) ==
    /\ pc[u] = "idle" /\ state # "synchronized"
    /\ Goto(u, "enter") /\ tries' = [tries EXCEPT ![u] = 0]
    /\ UNCHANGED <<peer, wire, fields, image, owner, conf, reply, ev, calls, history, count>>

\* changeState(configuring) and getCacheInternal.  A reload heals everything.
Begin(u, reload) ==
    LET first == added = "none"
        full  == first \/ reload
    IN /\ owner' = u
       /\ state' = "configuring" /\ ref' = TRUE /\ reqs' = {} /\ hCache' = TRUE
       /\ ev' = [ev EXCEPT !.current = FALSE]
       /\ conf' = [NoConf EXCEPT !.reload = full]
       /\ Goto(u, IF first THEN "register" ELSE "removes")
       /\ late' = IF full THEN {} ELSE late
       /\ marks' = IF full THEN {}
                   ELSE IF state = "disconnected" THEN marks \cup {"kept"} ELSE marks

\* The caller has the monitor and looks again.
Enter(u) ==
    /\ pc[u] = "enter" /\ owner = NoOne
    /\ \/ /\ state = "synchronized" /\ Goto(u, "idle")
          /\ UNCHANGED <<fields, owner, conf, ev, history>>
       \/ state = "disconnected" /\ Begin(u, TRUE)
    /\ UNCHANGED <<peer, wire, image, tries, reply, calls, count>>

\* setCacheValues, or setObserved for a listener that needs the values.
Switch(u) ==
    /\ pc[u] = "idle" /\ owner = NoOne /\ Upsets
    /\ values' = ~values
    /\ Begin(u, FALSE)
    /\ tries' = [tries EXCEPT ![u] = Attempts - 1]
    /\ UNCHANGED <<peer, wire, local, made, added, member, reply, calls>>

\* releaseListeners: without a cache nothing is done.
ReleaseListeners ==
    IF hCache
    THEN listen' = Silent /\ member' = FALSE /\ added' = "none"
    ELSE UNCHANGED <<listen, member, added>>

\* BinaryCache::addFilterListener takes the listener back when its request
\* fails; the listener with the previous mask stays.
Unadded(u) ==
    CASE pc[u] = "removes" -> [listen EXCEPT !.rem = FALSE]
      [] pc[u] = "adds"    -> [listen EXCEPT !.add = IF @ = "none" THEN @ ELSE conf.had]
      [] OTHER             -> listen

\* The catch block of configureSynchronization; ensureSynchronized tries
\* again, a switch throws.
AbandonsNot(u)  == hCache' = FALSE /\ UNCHANGED state \* Fault
Abandons(u)     == state' = "disconnected" /\ hCache' = FALSE
GivesUpLate(u)  == tries[u] + 1 > Attempts          \* Fault
GivesUp(u)      == tries[u] + 1 = Attempts

Catch(u) ==
    /\ IF pc[u] \in Early THEN listen' = Unadded(u) /\ UNCHANGED <<member, added>>
       ELSE ReleaseListeners
    /\ Abandons(u)
    /\ owner' = NoOne /\ conf' = NoConf /\ reply' = NoReply
    /\ tries' = [tries EXCEPT ![u] = @ + 1]
    /\ Goto(u, IF GivesUp(u) THEN "idle" ELSE "enter")
    /\ UNCHANGED <<store, up, wire, ref, reqs, local, made, values, ev, calls, history, count>>

\* The request was answered with an exception, or not in time.
Throw(u) == pc[u] \in Asking /\ reply = Failed /\ Catch(u)

\* There is no connection and none can be opened.
Refused(u) ==
    /\ pc[u] \in Asking \cup {"register"} /\ reply = NoReply /\ ~up
    /\ Catch(u)

\* The response to a request that timed out will be ignored.  It may be lost or
\* slow, which upsets; or the service thread itself waits for the monitor.
AwaitsForever(u) == FALSE                           \* Fault: an infinite timeout
Awaits(u)        == owner = u /\ reply = Asked

Responses == {i \in DOMAIN wire : wire[i].type = "reply"}

Timeout(u) ==
    /\ Awaits(u)
    /\ IF ev.step = "enter" THEN UNCHANGED count ELSE Upsets
    /\ reply' = Failed
    /\ \/ Responses = {} /\ UNCHANGED wire
       \/ \E i \in Responses : wire' = RemoveAt(wire, i)
    /\ UNCHANGED <<peer, fields, image, owner, pc, tries, conf, ev, calls, history>>

\* The first time: the service listener and the deactivation listener.
Register(u) ==
    /\ pc[u] = "register" /\ up
    /\ member' = TRUE /\ listen' = [listen EXCEPT !.trunc = TRUE] /\ hCache' = TRUE
    /\ Goto(u, "removes")
    /\ UNCHANGED <<store, up, wire, state, ref, reqs, local, made, values, added, owner,
                   tries, conf, reply, ev, calls, history, count>>

Request(data) ==
    /\ reply' = Asked
    /\ wire' = Append(wire, [type |-> "reply", data |-> data])

Answered == reply.status = "ok"

\* The remove listener; a listener this connection has needs no request.
AskRemoves(u) ==
    /\ pc[u] = "removes" /\ reply = NoReply /\ up
    /\ IF listen.rem THEN Goto(u, "adds") /\ UNCHANGED <<listen, reply, wire>>
       ELSE /\ listen' = [listen EXCEPT !.rem = TRUE]
            /\ Request(Empty) /\ UNCHANGED pc
    /\ UNCHANGED <<store, up, fields, image, owner, tries, conf, ev, calls, history, count>>

HasRemoves(u) ==
    /\ pc[u] = "removes" /\ Answered
    /\ reply' = NoReply /\ Goto(u, "adds")
    /\ UNCHANGED <<peer, wire, fields, image, owner, tries, conf, ev, calls, history, count>>

\* The add listener; one with another mask is there until the new one is.
AddedOnce == added = Mode                           \* Fault: of any connection
Added     == added = Mode /\ listen.add = Mode

AskAdds(u) ==
    /\ pc[u] = "adds" /\ reply = NoReply /\ up
    /\ IF Added
       THEN Goto(u, "load") /\ made' = TRUE /\ UNCHANGED <<listen, conf, reply, wire>>
       ELSE /\ listen' = [listen EXCEPT !.add = IF @ = "values" THEN @ ELSE Mode]
            /\ conf' = [conf EXCEPT !.had = listen.add]
            /\ Request(Empty) /\ UNCHANGED <<pc, made>>
    /\ UNCHANGED <<store, up, fields, local, values, added, member, owner, tries,
                   ev, calls, history, count>>

HasAdds(u) ==
    /\ pc[u] = "adds" /\ Answered
    /\ listen' = [listen EXCEPT !.add = IF @ = "none" THEN @ ELSE Mode]
    /\ added' = Mode /\ made' = TRUE
    /\ reply' = NoReply /\ Goto(u, "load")
    /\ UNCHANGED <<store, up, wire, fields, local, values, member, owner, tries, conf,
                   ev, calls, history, count>>

\* changeState is next; a disconnection between its test of the state and its
\* assignment is overwritten.
Test(u, expected, next) == Goto(u, IF state = expected THEN next ELSE "unexpected")

Unexpected(u) == pc[u] = "unexpected" /\ Catch(u)

\* What the load asks for: the query's result, or, when the image need not be
\* reloaded and now has values, the values of its keys.
Result ==
    [k \in Keys |-> IF ~InQuery(store[k]) THEN Absent ELSE IF values THEN store[k] ELSE Null]
Fetched(keys) == [k \in Keys |-> IF k \in keys THEN store[k] ELSE Absent]
Present       == {k \in Keys : local[k] # Absent}

AskLoad(u) ==
    /\ pc[u] = "load" /\ reply = NoReply
    /\ IF conf.reload \/ values
       THEN /\ up /\ Request(IF conf.reload THEN Result ELSE Fetched(Present))
            /\ UNCHANGED <<local, pc>>
       ELSE /\ local' = [k \in Keys |-> IF k \in Present THEN Null ELSE Absent]
            /\ Test(u, "configuring", "setConfigured") /\ UNCHANGED <<reply, wire>>
    /\ UNCHANGED <<peer, fields, made, values, added, member, owner, tries, conf,
                   ev, calls, history, count>>

HasLoad(u) ==
    /\ pc[u] = "load" /\ Answered
    /\ local' = [k \in Keys |-> IF conf.reload \/ reply.data[k] # Absent
                                THEN reply.data[k] ELSE local[k]]
    /\ reply' = NoReply /\ Test(u, "configuring", "setConfigured")
    /\ UNCHANGED <<peer, wire, fields, made, values, added, member, owner, tries, conf,
                   ev, calls, history, count>>

Overwrites == marks' = IF state = "disconnected" THEN marks \cup {"overwritten"} ELSE marks

SetConfigured(u) ==
    /\ pc[u] = "setConfigured" /\ Goto(u, "resolve")
    /\ state' = "configured" /\ Overwrites
    /\ UNCHANGED <<peer, wire, hCache, ref, reqs, image, owner, tries, conf, reply,
                   ev, calls, late, count>>

\* The keys deferred so far are read again, and with them the pseudo-key.
Resolve(u) ==
    /\ pc[u] = "resolve"
    /\ conf' = [conf EXCEPT !.keys = reqs]
    /\ IF reqs = {} THEN Test(u, "configured", "setSynchronized") ELSE Goto(u, "sync")
    /\ UNCHANGED <<peer, wire, fields, image, owner, tries, reply, ev, calls, history, count>>

AskSync(u) ==
    /\ pc[u] = "sync" /\ reply = NoReply /\ up
    /\ Request(Fetched(conf.keys))
    /\ UNCHANGED <<peer, fields, image, owner, pc, tries, conf, ev, calls, history, count>>

\* The loop over the deferred keys, under the map's monitor: those whose event
\* has arrived meanwhile are gone from it.
ResolvedRaw(k) == reply.data[k]                     \* Fault
Resolved(k) == IF InQuery(reply.data[k]) THEN reply.data[k] ELSE Absent

HasSync(u) ==
    /\ pc[u] = "sync" /\ Answered
    /\ local' = [k \in Keys |-> IF k \in reqs THEN Resolved(k) ELSE local[k]]
    /\ reqs' = {} /\ reply' = NoReply /\ Test(u, "configured", "setSynchronized")
    /\ UNCHANGED <<peer, wire, state, hCache, ref, made, values, added, member, owner,
                   tries, conf, ev, calls, history, count>>

SetSynchronized(u) ==
    /\ pc[u] = "setSynchronized" /\ Goto(u, "idle") /\ owner' = NoOne
    /\ state' = "synchronized" /\ ref' = FALSE /\ Overwrites
    /\ conf' = NoConf
    /\ UNCHANGED <<peer, wire, hCache, reqs, image, tries, reply, ev, calls, late, count>>

\* release, between two configurations.
Release(u) ==
    /\ pc[u] = "idle" /\ owner = NoOne /\ made /\ Upsets
    /\ ReleaseListeners
    /\ local' = Empty /\ made' = FALSE /\ hCache' = FALSE /\ state' = "disconnected"
    /\ UNCHANGED <<store, up, wire, ref, reqs, values, caller, ev, calls, history>>

-----------------------------------------------------------------------------
(* The service thread *)

\* A response; one that nobody waits for is not on the wire any more.
TakeReply(m) ==
    /\ reply' = [status |-> "ok", data |-> m.data]
    /\ UNCHANGED <<ev, marks>>

\* An event of one key: the first step of isEventDeferred reads the map's
\* handle.  An event without a listener is dropped.
TakeEvent(m) ==
    /\ ev' = IF (m.type = "put" /\ listen.add = "none") \/ (m.type = "remove" /\ ~listen.rem)
             THEN Rest
             ELSE [step |-> IF ref THEN "judge" ELSE "apply", key |-> m.key,
                   value |-> IF m.type = "put" THEN m.value ELSE Absent, current |-> ref]
    /\ UNCHANGED <<reply, marks>>

TakeTruncate ==
    /\ ev' = IF listen.trunc THEN [Rest EXCEPT !.step = "ensure"] ELSE Rest
    /\ marks' = IF listen.trunc THEN marks ELSE marks \cup {"deaf"}
    /\ UNCHANGED reply

Take ==
    /\ ev.step = "idle" /\ wire # <<>>
    /\ wire' = Tail(wire)
    /\ LET m == Head(wire)
       IN CASE m.type = "reply"    -> TakeReply(m)
            [] m.type = "truncate" -> TakeTruncate
            [] OTHER               -> TakeEvent(m)
    /\ UNCHANGED <<peer, fields, image, owner, pc, tries, conf, calls, late, count>>

Handles(at, next) == ev.step = at /\ ev' = [ev EXCEPT !.step = next]
Done(at)          == ev.step = at /\ ev' = Rest

\* isEventDeferred: the state decides whether the key is put into the map or
\* taken out of it.
Unready == state \in {"disconnected", "configuring"}

Judge ==
    /\ Handles("judge", IF Unready THEN "defer" ELSE "settle")
    /\ UNCHANGED <<peer, wire, fields, image, caller, calls, history, count>>

\* The put is lost when the caller has read the deferred keys, or when it goes
\* into the map of an earlier configuration and nothing is reloaded.
Lost ==
    /\ state # "disconnected"
    /\ IF ev.current THEN \A u \in Users : pc[u] \notin InTime ELSE ~conf.reload

Defer ==
    /\ Done("defer")
    /\ reqs' = IF ev.current THEN reqs \cup {ev.key} ELSE reqs
    /\ late' = IF Lost THEN late \cup {ev.key} ELSE late
    /\ UNCHANGED <<peer, wire, state, hCache, ref, image, caller, calls, marks, count>>

Settle ==
    /\ Handles("settle", "apply")
    /\ reqs' = IF ev.current THEN reqs \ {ev.key} ELSE reqs
    /\ UNCHANGED <<peer, wire, state, hCache, ref, image, caller, calls, history, count>>

\* onMapEvent of the add and the remove listener.
Apply ==
    /\ Done("apply")
    /\ local' = IF ~made THEN local
                ELSE [local EXCEPT ![ev.key] = IF ev.value = Absent \/ values THEN ev.value ELSE Null]
    /\ late' = late \ {ev.key}
    /\ UNCHANGED <<peer, wire, fields, made, values, added, member, caller, calls, marks, count>>

\* A truncation first makes sure that the image is synchronized.
Ensure ==
    /\ Handles("ensure", IF state = "synchronized" THEN "read" ELSE "enter")
    /\ UNCHANGED <<peer, wire, fields, image, caller, calls, history, count>>

\* The service thread cannot configure the image, as it must not wait for a
\* response; what its attempts leave behind.
Attempted ==
    /\ ref' = TRUE /\ reqs' = {} /\ hCache' = FALSE /\ UNCHANGED state
    /\ IF Added /\ listen.rem
       THEN listen' = [Silent EXCEPT !.trunc = TRUE] /\ member' = TRUE /\ added' = "none"
       ELSE /\ listen' = [listen EXCEPT !.trunc = @ \/ added = "none"]
            /\ member' = (member \/ added = "none") /\ UNCHANGED added

EnterService ==
    /\ owner = NoOne
    /\ \/ /\ state = "synchronized" /\ Handles("enter", "read")
          /\ UNCHANGED <<fields, listen, member, added>>
       \/ state = "disconnected" /\ Done("enter") /\ Attempted
    /\ UNCHANGED <<store, up, wire, local, made, values, caller, calls, history, count>>

Read ==
    /\ ev.step = "read"
    /\ ev' = [ev EXCEPT !.step = IF ref THEN "weigh" ELSE "truncate", !.current = ref]
    /\ UNCHANGED <<peer, wire, fields, image, caller, calls, history, count>>

\* isEventDeferred for a truncation.  The listener names itself by the type of
\* its this pointer, which is never the type isEventDeferred looks for: the name
\* goes into the map as if it were a key, and the deferred keys stay.  It is never
\* taken out here: the configuration that made the map waits for a response, and
\* the service thread is busy.
Weigh ==
    /\ Handles("weigh", IF Unready THEN "note" ELSE "truncate")
    /\ reqs' = IF Unready \/ ~ev.current THEN reqs ELSE reqs \ {Pseudo}
    /\ marks' = IF state = "configuring" /\ ~conf.reload THEN marks \cup {"dropped"} ELSE marks
    /\ UNCHANGED <<peer, wire, state, hCache, ref, image, caller, calls, late, count>>

Note ==
    /\ Done("note")
    /\ reqs' = IF ev.current THEN reqs \cup {Pseudo} ELSE reqs
    /\ UNCHANGED <<peer, wire, state, hCache, ref, image, caller, calls, history, count>>

TruncateLocal ==
    /\ Done("truncate")
    /\ local' = Empty
    /\ UNCHANGED <<peer, wire, fields, made, values, added, member, caller, calls, history, count>>

-----------------------------------------------------------------------------

CallerStep(u) ==
    \/ Register(u) \/ AskRemoves(u) \/ HasRemoves(u) \/ AskAdds(u) \/ HasAdds(u)
    \/ AskLoad(u) \/ HasLoad(u) \/ SetConfigured(u)
    \/ Resolve(u) \/ AskSync(u) \/ HasSync(u)
    \/ SetSynchronized(u) \/ Unexpected(u) \/ Throw(u)

ServiceStep ==
    \/ Take \/ Judge \/ Defer \/ Settle \/ Apply
    \/ Ensure \/ Read \/ Weigh \/ Note \/ TruncateLocal

Listener == NullCache \/ Disconnect

Next ==
    \/ \E k \in Keys, v \in Values \cup {Absent} : Write(k, v)
    \/ Truncate \/ Die \/ Reconnect
    \/ \E u \in Users :
          Call(u) \/ Enter(u) \/ Switch(u) \/ Release(u)
          \/ CallerStep(u) \/ Refused(u) \/ Timeout(u)
    \/ ServiceStep \/ EnterService
    \/ Listener

\* Every thread goes on, a lost connection is opened again, and a request that
\* is not answered times out (30 s by default).  The monitor is not fair, but
\* each holder's time is bounded: a thread that finds it free again and again
\* gets it.
Fairness ==
    /\ \A u \in Users : WF_vars(CallerStep(u)) /\ WF_vars(Timeout(u)) /\ SF_vars(Enter(u))
    /\ WF_vars(Reconnect) /\ WF_vars(ServiceStep) /\ SF_vars(EnterService)
    /\ WF_vars(Listener)

Spec == Init /\ [][Next]_vars /\ Fairness

-----------------------------------------------------------------------------
(* Properties *)

\* Nothing is under way: no event, no configuration, no lost connection that
\* the cache has not been told of.
Quiet ==
    /\ state = "synchronized" /\ owner = NoOne /\ up
    /\ wire = <<>> /\ ev.step = "idle"
    /\ disc = <<>>

\* The image of k is what the query says of it.
Agrees(k) ==
    IF values THEN local[k] = (IF InQuery(store[k]) THEN store[k] ELSE Absent)
    ELSE local[k] = Absent <=> ~InQuery(store[k])

\* Whatever the order of events, responses, switches, releases and lost
\* connections, the image is exact once things are quiet, except for a key whose
\* event was deferred too late and except after what the marks stand for
\* (configureSynchronization, isEventDeferred and the listeners).
Exact == Quiet /\ marks = {} => \A k \in Keys \ late : Agrees(k)

\* A cache that takes itself for synchronized has both its listeners, with the
\* mask for what it caches, at the peer (configureSynchronization registers
\* them before it loads and releaseListeners is never followed by anything but
\* a disconnected state).
Listening ==
    Quiet /\ "overwritten" \notin marks => listen.rem /\ listen.add = Mode

\* Whoever gets the monitor finds the cache synchronized or disconnected: the
\* checks of ensureSynchronized and of changeState(configuring) never fail,
\* although disconnections come without the monitor.
NeverHalfway == owner = NoOne => state \in {"synchronized", "disconnected"}

\* Every call comes to an end, and the service thread gets through every event,
\* even through a truncation for which it must wait for the monitor of a caller
\* that waits for the service thread (the request's timeout ends that).
Returns ==
    /\ \A u \in Users : pc[u] # "idle" ~> pc[u] = "idle"
    /\ ev.step # "idle" ~> ev.step = "idle"
=============================================================================
