------------------------ MODULE ContinuousQueryProofs ------------------------
(***************************************************************************)
(* Theorems about ContinuousQuery, for any number of callers, keys and     *)
(* values, any filter, and any number of writes and upsets.                *)
(***************************************************************************)
EXTENDS ContinuousQuery, SequenceTheorems, TLAPS

(***************************************************************************)
(* The inductive invariant.                                                *)
(***************************************************************************)
Contents == [Keys -> Values \cup {Absent, Null}]
Messages ==
    [type : {"put"}, key : Keys, value : Values \cup {Null}]
    \cup [type : {"remove"}, key : Keys, value : {Null}]
    \cup [type : {"truncate"}]
    \cup [type : {"reply"}, data : Contents]

\* The calls of the listeners that can be pending.
Due == {<<>>, <<"chan">>, <<"left">>, <<"chan", "left">>}

Replies == {NoReply, Asked, Failed} \cup [status : {"ok"}, data : Contents]
Handlings == [step : Handling, key : Keys \cup {Null}, value : Values \cup {Absent, Null}, current : BOOLEAN]

\* What is on its way: messages, the event being handled, calls of the listeners.
Coming ==
    /\ wire \in Seq(Messages)
    /\ disc \in Due /\ (nulled => disc # <<>>)
Handled ==
    /\ ev \in Handlings
    /\ ev.step \in {"judge", "defer", "settle", "apply"} => ev.key \in Keys

\* The data of configureSynchronization and of its requests.
Asks ==
    /\ conf \in [reload : BOOLEAN, had : Modes, keys : SUBSET SyncKeys]
    /\ reply \in Replies
    /\ count \in [writes : Nat, upsets : Nat]

\* A call that goes on has attempts left, and who configures holds the monitor.
Trying ==
    /\ \A u \in Users : pc[u] # "idle" => tries[u] < Attempts
    /\ \A u \in Users : owner = u => pc[u] \notin {"idle", "enter"}

\* The state tells how far the holder of the monitor is, or that it was disconnected.
Staged ==
    /\ owner = NoOne => state \in {"synchronized", "disconnected"}
    /\ \A u \in Users :
          /\ pc[u] \in Early \cup {"load", "setConfigured"} => state \in {"configuring", "disconnected"}
          /\ pc[u] \in {"resolve", "sync", "setSynchronized"} => state \in {"configured", "disconnected"}
          /\ pc[u] = "unexpected" => state # "synchronized"

\* The one response that is under way is that to the request of the configuration.
Answers ==
    /\ reply # NoReply => \E u \in Users : pc[u] \in Asking
    /\ Responses # {} => reply = Asked
    /\ \A i, j \in Responses : i = j

\* The service listener is registered whenever there is something to lose, and without
\* a connection there are no listeners for events.
Configures == {"removes", "adds", "load", "setConfigured", "resolve", "sync", "setSynchronized"}
Registered ==
    /\ added # "none" \/ state = "synchronized" => member
    /\ \A u \in Users : pc[u] \in Configures => member
    /\ ~ up => ~ listen.rem /\ listen.add = "none"

\* The listeners are there as far as the configuration has come, unless the cache was,
\* or will be, told that it is disconnected.
Told == disc # <<>> \/ state = "disconnected" \/ "overwritten" \in marks
Unfailed == reply.status \in {"asked", "ok"}
Attentive ==
    ~ Told =>
        /\ state = "synchronized" => listen.rem /\ listen.add = Mode
        /\ \A u \in Users :
              /\ pc[u] = "removes" /\ Unfailed => listen.rem
              /\ pc[u] \in Configures \ {"removes"} => listen.rem
              /\ pc[u] = "adds" /\ Unfailed => listen.add # "none"
              /\ pc[u] \in Configures \ {"removes", "adds"} => listen.add = Mode

Typed == TypeOK /\ Coming /\ Handled /\ Asks /\ Trying

-----------------------------------------------------------------------------
(***************************************************************************)
(* Lemmas about the data.                                                  *)
(***************************************************************************)
LEMMA DueIsBounded == Due \subseteq BoundedSeq({"chan", "left"}, 2)
<1>1. <<>> \in [1..0 -> {"chan", "left"}]
  <2>1. <<>> \in Seq({"chan", "left"}) /\ Len(<<>>) = 0
    OBVIOUS
  <2> QED
    BY <2>1, LenProperties
<1>2. <<"chan">> \in [1..1 -> {"chan", "left"}] /\ <<"left">> \in [1..1 -> {"chan", "left"}]
  OBVIOUS
<1>3. <<"chan", "left">> \in [1..2 -> {"chan", "left"}]
  OBVIOUS
<1>4. BoundedSeq({"chan", "left"}, 2) = UNION {[1..m -> {"chan", "left"}] : m \in 0..2}
  BY DEF BoundedSeq, SeqOf
<1>5. \A m \in 0..2 : [1..m -> {"chan", "left"}] \subseteq BoundedSeq({"chan", "left"}, 2)
  BY <1>4, Zenon
<1>6. 0 \in 0..2 /\ 1 \in 0..2 /\ 2 \in 0..2
  OBVIOUS
<1>7. ASSUME NEW q \in Due PROVE q \in BoundedSeq({"chan", "left"}, 2)
  BY <1>1, <1>2, <1>3, <1>5, <1>6, Zenon DEF Due
<1> QED
  BY <1>7

LEMMA ShortSequences ==
    ASSUME NEW S, NEW c \in S, NEW d \in S
    PROVE  /\ <<>> \o <<>> = <<>> /\ <<>> \o <<d>> = <<d>>
           /\ <<c>> \o <<>> = <<c>> /\ <<c>> \o <<d>> = <<c, d>>
<1>1. <<>> \in Seq(S) /\ <<c>> \in Seq(S) /\ <<d>> \in Seq(S)
  OBVIOUS
<1>2. <<c>> \o <<d>> = Append(<<c>>, d)
  BY <1>1, AppendIsConcat
<1>3. Append(<<c>>, d) = <<c, d>>
  <2>1. Append(<<c>>, d) \in Seq(S) /\ <<c, d>> \in Seq(S)
    BY <1>1, AppendProperties
  <2>2. Len(Append(<<c>>, d)) = 2 /\ Append(<<c>>, d)[1] = c /\ Append(<<c>>, d)[2] = d
    BY <1>1
  <2>3. Len(<<c, d>>) = 2 /\ <<c, d>>[1] = c /\ <<c, d>>[2] = d
    OBVIOUS
  <2>4. \A i \in 1..2 : Append(<<c>>, d)[i] = <<c, d>>[i]
    BY <2>2, <2>3
  <2> QED
    BY <2>1, <2>2, <2>3, <2>4, SeqEqual
<1>4. <<>> \o <<>> = <<>> /\ <<>> \o <<d>> = <<d>> /\ <<c>> \o <<>> = <<c>>
  BY <1>1, ConcatEmptySeq, Zenon
<1> QED
  BY <1>2, <1>3, <1>4

LEMMA DueParts ==
    /\ \A c, d \in BOOLEAN : If(c, "chan") \o If(d, "left") \in Due
    /\ \A q \in Due : q # <<>> => Tail(q) \in Due
<1>1. ASSUME NEW c \in BOOLEAN, NEW d \in BOOLEAN PROVE If(c, "chan") \o If(d, "left") \in Due
  <2>1. /\ <<>> \o <<>> = <<>> /\ <<>> \o <<"left">> = <<"left">>
        /\ <<"chan">> \o <<>> = <<"chan">> /\ <<"chan">> \o <<"left">> = <<"chan", "left">>
    <3>1. "chan" \in {"chan", "left"} /\ "left" \in {"chan", "left"}
      OBVIOUS
    <3> QED
      BY <3>1, ShortSequences, Zenon
  <2>2. If(c, "chan") \in {<<>>, <<"chan">>} /\ If(d, "left") \in {<<>>, <<"left">>}
    BY DEF If
  <2> QED
    BY <2>1, <2>2, Zenon DEF Due
<1>2. ASSUME NEW q \in Due, q # <<>> PROVE Tail(q) \in Due
  <2>1. CASE q = <<"chan">>
    BY <2>1 DEF Due
  <2>2. CASE q = <<"left">>
    BY <2>2 DEF Due
  <2>3. CASE q = <<"chan", "left">>
    BY <2>3 DEF Due
  <2> QED
    BY <1>2, <2>1, <2>2, <2>3 DEF Due
<1> QED
  BY <1>1, <1>2

LEMMA DueNonempty == <<>> \o <<"left">> # <<>> /\ <<"chan">> \o <<"left">> # <<>>
<1>1. "chan" \in {"chan", "left"} /\ "left" \in {"chan", "left"}
  OBVIOUS
<1>2. <<>> \o <<"left">> = <<"left">> /\ <<"chan">> \o <<"left">> = <<"chan", "left">>
  BY <1>1, ShortSequences, Zenon
<1> QED
  BY <1>2

LEMMA WireParts ==
    ASSUME NEW w \in Seq(Messages)
    PROVE  /\ w # <<>> => Head(w) \in Messages /\ Tail(w) \in Seq(Messages)
           /\ \A m \in Messages : Append(w, m) \in Seq(Messages)
           /\ \A m \in Messages : w \o <<m>> \in Seq(Messages)
           /\ w \o <<>> = w
           /\ \A i \in DOMAIN w : RemoveAt(w, i) \in Seq(Messages)
BY DEF RemoveAt

\* The messages, and that a response carries contents.
LEMMA MessageParts ==
    /\ \A k \in Keys, v \in Values \cup {Null} : [type |-> "put", key |-> k, value |-> v] \in Messages
    /\ \A k \in Keys : [type |-> "remove", key |-> k, value |-> Null] \in Messages
    /\ [type |-> "truncate"] \in Messages
    /\ \A d \in Contents : [type |-> "reply", data |-> d] \in Messages
    /\ \A m \in Messages : m.type = "reply" => m.data \in Contents
    /\ \A m \in Messages : m.type \notin {"reply", "truncate"} =>
          /\ m.type \in {"put", "remove"} /\ m.key \in Keys /\ m.value \in Values \cup {Null}
BY DEF Messages

\* The data of the constants the state starts with and returns to.
LEMMA RestParts ==
    /\ Empty \in Contents /\ Empty \in [Keys -> Values \cup {Absent}]
    /\ Rest \in Handlings
    /\ Rest.step = "idle"
    /\ NoConf \in [reload : BOOLEAN, had : Modes, keys : SUBSET SyncKeys]
    /\ Silent \in [add : Modes, rem : BOOLEAN, trunc : BOOLEAN]
BY DEF Empty, Contents, Rest, Handling, Handlings, NoConf, Modes, Silent

\* What a change sends is at most one event.
LEMMA EventParts ==
    ASSUME NEW k \in Keys, NEW old \in Values \cup {Absent}, NEW new \in Values \cup {Absent}
    PROVE  \/ Events(k, old, new) = <<>>
           \/ \E v \in Values \cup {Null} : Events(k, old, new) = <<[type |-> "put", key |-> k, value |-> v]>>
           \/ Events(k, old, new) = <<[type |-> "remove", key |-> k, value |-> Null]>>
BY QueryConstants DEF Events, InQuery

LEMMA UpsetsCounted ==
    ASSUME count \in [writes : Nat, upsets : Nat], Upsets
    PROVE  count' \in [writes : Nat, upsets : Nat]
BY DEF Upsets

-----------------------------------------------------------------------------
(***************************************************************************)
(* Typed is inductive.                                                     *)
(***************************************************************************)
LEMMA InitTyped == Init => Typed
<1> SUFFICES ASSUME Init PROVE Typed
  OBVIOUS
<1> USE QueryConstants, RestParts
<1>1. TypeOK
  <2>1. <<>> \in Due
    BY DEF Due
  <2>2. "idle" \in Steps /\ "idle" \in Handling /\ "none" \in Modes /\ "disconnected" \in States
    BY DEF Steps, Handling, Modes, States
  <2>3. local \in [Keys -> Values \cup {Absent, Null}]
    BY DEF Init, Contents
  <2>4. disc \in BoundedSeq({"chan", "left"}, 2)
    BY <2>1, DueIsBounded DEF Init
  <2>5. store \in [Keys -> Values \cup {Absent}] /\ values \in BOOLEAN
    BY DEF Init
  <2>6. pc \in [Users -> Steps] /\ tries \in [Users -> 0..Attempts]
    BY <2>2 DEF Init
  <2> QED
    BY <2>2, <2>3, <2>4, <2>5, <2>6 DEF Init, TypeOK
<1>2. wire \in Seq(Messages) /\ disc \in Due /\ ~ nulled
  BY DEF Init, Due
<1>3. Coming /\ Trying
  BY <1>2 DEF Init, Coming, Trying, NoOne
<1>4. Handled /\ Asks
  BY DEF Init, Handled, Asks, Replies
<1> QED
  BY <1>1, <1>3, <1>4 DEF Typed

LEMMA WriteSends ==
    ASSUME TypeOK, wire \in Seq(Messages), NEW k \in Keys, NEW v \in Values \cup {Absent}, Write(k, v)
    PROVE  wire' \in Seq(Messages)
<1>1. store[k] \in Values \cup {Absent}
  BY DEF TypeOK
<1>2. wire' = wire \o <<>> \/ wire' = wire \o Events(k, store[k], v)
  BY DEF Write
<1>3. CASE wire' = wire \o <<>>
  BY <1>3, WireParts
<1>4. CASE wire' = wire \o Events(k, store[k], v)
  BY <1>1, <1>4, EventParts, MessageParts, WireParts
<1> QED
  BY <1>2, <1>3, <1>4

\* The steps of the peer, of the connection and of the listeners that hear of its loss.
LEMMA PeerTyped ==
    ASSUME Typed, (\E k \in Keys, v \in Values \cup {Absent} : Write(k, v)) \/ Truncate \/ Die \/ Reconnect \/ Listener
    PROVE  Typed'
<1> USE QueryConstants, RestParts DEF peer, calls, fields, image, caller, history
<1>1. ASSUME NEW k \in Keys, NEW v \in Values \cup {Absent}, Write(k, v) PROVE Typed'
  <2>1. wire' \in Seq(Messages)
    BY <1>1, WriteSends DEF Typed, Coming
  <2>2. TypeOK'
    BY <1>1, <2>1 DEF Typed, TypeOK, Write
  <2>3. Coming'
    BY <1>1, <2>1 DEF Typed, TypeOK, Coming, Write
  <2>4. Handled'
    BY <1>1, <2>1 DEF Typed, TypeOK, Handled, Write
  <2>5. Asks'
    <3>1. count' \in [writes : Nat, upsets : Nat]
      BY <1>1 DEF Typed, Asks, Write
    <3>2. UNCHANGED <<conf, reply>>
      BY <1>1 DEF Write
    <3> QED
      BY <3>1, <3>2 DEF Typed, Asks
  <2>6. Trying'
    BY <1>1, <2>1 DEF Typed, TypeOK, Trying, Write
  <2> QED
    BY <2>2, <2>3, <2>4, <2>5, <2>6 DEF Typed
<1>2. CASE Truncate
  <2>1. wire' \in Seq(Messages)
    BY <1>2, WireParts, MessageParts DEF Typed, Coming, Truncate
  <2>2. TypeOK'
    BY <1>2, <2>1 DEF Typed, TypeOK, Truncate
  <2>3. Coming'
    BY <1>2, <2>1 DEF Typed, TypeOK, Coming, Truncate
  <2>4. Handled'
    BY <1>2, <2>1 DEF Typed, TypeOK, Handled, Truncate
  <2>5. Asks'
    BY <1>2, <2>1, UpsetsCounted DEF Typed, TypeOK, Asks, Truncate
  <2>6. Trying'
    BY <1>2, <2>1 DEF Typed, TypeOK, Trying, Truncate
  <2> QED
    BY <2>2, <2>3, <2>4, <2>5, <2>6 DEF Typed
<1>3. CASE Die
  <2>1. disc' \in Due /\ ~ nulled /\ wire' \in Seq(Messages)
    BY <1>3, DueParts DEF Typed, TypeOK, Coming, Die
  <2>2. TypeOK'
    BY <1>3, <2>1, DueIsBounded, DueParts DEF Typed, TypeOK, Die, Replies
  <2>3. Coming'
    BY <1>3, <2>1 DEF Typed, TypeOK, Coming, Die, Replies
  <2>4. Handled'
    BY <1>3, <2>1 DEF Typed, TypeOK, Handled, Die, Replies
  <2>5. Asks'
    BY <1>3, <2>1, UpsetsCounted DEF Typed, TypeOK, Asks, Die, Replies
  <2>6. Trying'
    BY <1>3, <2>1 DEF Typed, TypeOK, Trying, Die, Replies
  <2> QED
    BY <2>2, <2>3, <2>4, <2>5, <2>6 DEF Typed
<1>4. CASE Reconnect
  <2>1. TypeOK'
    BY <1>4 DEF Typed, TypeOK, Reconnect
  <2>2. Coming'
    BY <1>4 DEF Typed, TypeOK, Coming, Reconnect
  <2>3. Handled'
    BY <1>4 DEF Typed, TypeOK, Handled, Reconnect
  <2>4. Asks'
    BY <1>4 DEF Typed, TypeOK, Asks, Reconnect
  <2>5. Trying'
    BY <1>4 DEF Typed, TypeOK, Trying, Reconnect
  <2> QED
    BY <2>1, <2>2, <2>3, <2>4, <2>5 DEF Typed
<1>5. CASE NullCache
  <2>1. TypeOK'
    BY <1>5 DEF Typed, TypeOK, NullCache
  <2>2. Coming'
    BY <1>5 DEF Typed, TypeOK, Coming, NullCache
  <2>3. Handled'
    BY <1>5 DEF Typed, TypeOK, Handled, NullCache
  <2>4. Asks'
    BY <1>5 DEF Typed, TypeOK, Asks, NullCache
  <2>5. Trying'
    BY <1>5 DEF Typed, TypeOK, Trying, NullCache
  <2> QED
    BY <2>1, <2>2, <2>3, <2>4, <2>5 DEF Typed
<1>6. CASE Disconnect
  <2>1. disc' \in Due
    BY <1>6, DueParts DEF Typed, Coming, Disconnect
  <2>2. TypeOK'
    BY <1>6, <2>1, DueIsBounded DEF Typed, TypeOK, Disconnect, States
  <2>3. Coming'
    BY <1>6, <2>1 DEF Typed, TypeOK, Coming, Disconnect, States
  <2>4. Handled'
    BY <1>6, <2>1 DEF Typed, TypeOK, Handled, Disconnect, States
  <2>5. Asks'
    BY <1>6, <2>1 DEF Typed, TypeOK, Asks, Disconnect, States
  <2>6. Trying'
    BY <1>6, <2>1 DEF Typed, TypeOK, Trying, Disconnect, States
  <2> QED
    BY <2>2, <2>3, <2>4, <2>5, <2>6 DEF Typed
<1> QED
  BY <1>1, <1>2, <1>3, <1>4, <1>5, <1>6 DEF Listener

\* The steps, the replies, and what requests ask for and return.
LEMMA StepParts ==
    /\ {"idle", "enter", "register", "removes", "adds", "load", "setConfigured", "resolve",
        "sync", "setSynchronized", "unexpected"} \subseteq Steps
    /\ {"none", "keys", "values"} = Modes /\ Mode \in Modes
    /\ {"disconnected", "configuring", "configured", "synchronized"} = States
BY DEF Steps, InTime, Early, Modes, Mode, States

LEMMA ReplyParts ==
    /\ {NoReply, Asked, Failed} \subseteq Replies
    /\ NoReply.status = "none" /\ Asked.status = "asked" /\ Failed.status = "failed"
    /\ \A d \in Contents : [status |-> "ok", data |-> d] \in Replies
    /\ \A r \in Replies : r.status = "ok" => r.data \in Contents
BY DEF Replies, NoReply, Asked, Failed

LEMMA DataParts ==
    ASSUME store \in [Keys -> Values \cup {Absent}], local \in Contents
    PROVE  /\ Result \in Contents
           /\ \A S \in SUBSET SyncKeys : Fetched(S) \in Contents
           /\ Present \subseteq Keys /\ Present \in SUBSET SyncKeys
           /\ Empty \in Contents
BY QueryConstants DEF SyncKeys, Contents, Result, Fetched, Present, Empty, InQuery

\* A request is put after what the peer has sent.
LEMMA RequestTyped ==
    ASSUME wire \in Seq(Messages), NEW d \in Contents, Request(d)
    PROVE  wire' \in Seq(Messages) /\ reply' \in Replies
BY MessageParts, WireParts, ReplyParts DEF Request

LEMMA CallTyped ==
    ASSUME Typed, NEW u \in Users, Call(u)
    PROVE  Typed'
<1> USE QueryConstants, RestParts, StepParts DEF peer, calls, fields, image, caller, history
<1>1. TypeOK'
  BY DEF Typed, TypeOK, Call, Goto
<1>2. Coming'
  BY DEF Typed, TypeOK, Coming, Call, Goto
<1>3. Handled'
  BY DEF Typed, TypeOK, Handled, Call, Goto
<1>4. Asks'
  BY DEF Typed, TypeOK, Asks, Call, Goto
<1>5. Trying'
  BY DEF Typed, TypeOK, Trying, Call, Goto
<1> QED
  BY <1>1, <1>2, <1>3, <1>4, <1>5 DEF Typed

LEMMA EnterTyped ==
    ASSUME Typed, NEW u \in Users, Enter(u)
    PROVE  Typed'
<1> USE QueryConstants, RestParts, StepParts DEF peer, calls, fields, image, caller, history
<1>1. conf' \in [reload : BOOLEAN, had : Modes, keys : SUBSET SyncKeys]
  BY DEF Typed, Asks, Enter, Begin
<1>2. ev' \in Handlings /\ ev'.step = ev.step /\ ev'.key = ev.key
  <2>1. ev' = ev \/ ev' = [ev EXCEPT !.current = FALSE]
    BY DEF Enter, Begin
  <2>2. \A e \in Handlings : LET f == [e EXCEPT !.current = FALSE]
                            IN  f \in Handlings /\ f.step = e.step /\ f.key = e.key
    BY DEF Handlings
  <2> QED
    BY <2>1, <2>2 DEF Typed, Handled
<1>3. pc' \in [Users -> Steps] /\ owner' \in Users \cup {NoOne}
  BY DEF Typed, TypeOK, Enter, Begin, Goto
<1>4. state' \in States /\ late' \subseteq Keys /\ marks' \subseteq Marks
  BY DEF Typed, TypeOK, Enter, Begin, Marks
<1>5. \A w \in Users : pc'[w] \notin {"idle", "enter"} => owner' = w
  BY DEF Typed, TypeOK, Enter, Begin, Goto
<1>6. TypeOK'
  <2>1. UNCHANGED <<store, listen, up, wire, local, made, values, added, member, tries, disc, nulled>> /\ {hCache', ref'} \subseteq {TRUE, hCache, ref} /\ reqs' \in {{}, reqs}
    BY DEF Enter, Begin
  <2>2. owner' \in Users \cup {NoOne} /\ pc' \in [Users -> Steps] /\ state' \in States
    BY <1>3, <1>4 DEF Typed, TypeOK
  <2>3. tries' \in [Users -> 0..Attempts] /\ values' \in BOOLEAN /\ reqs' \subseteq SyncKeys
    BY <2>1 DEF Typed, TypeOK
  <2>4. {hCache', ref', made', member'} \subseteq BOOLEAN
    BY <2>1 DEF Typed, TypeOK
  <2>5. ev'.step \in Handling /\ late' \subseteq Keys /\ marks' \subseteq Marks
    BY <1>2, <1>4 DEF Typed, TypeOK
  <2> QED
    BY <2>1, <2>2, <2>3, <2>4, <2>5, <1>5 DEF Typed, TypeOK
<1>7. Coming'
  BY <1>1, <1>2, <1>3, <1>4, <1>5 DEF Typed, TypeOK, Coming, Enter, Begin, Goto, Handlings
<1>8. Handled'
  BY <1>1, <1>2, <1>3, <1>4, <1>5 DEF Typed, TypeOK, Handled, Enter, Begin, Goto, Handlings
<1>9. Asks'
  BY <1>1, <1>2, <1>3, <1>4, <1>5 DEF Typed, TypeOK, Asks, Enter, Begin, Goto, Handlings
<1>10. Trying'
  BY <1>1, <1>2, <1>3, <1>4, <1>5 DEF Typed, TypeOK, Trying, Enter, Begin, Goto, Handlings
<1> QED
  BY <1>6, <1>7, <1>8, <1>9, <1>10 DEF Typed

LEMMA SwitchTyped ==
    ASSUME Typed, NEW u \in Users, Switch(u)
    PROVE  Typed'
<1> USE QueryConstants, RestParts, StepParts DEF peer, calls, fields, image, caller, history
<1>1. conf' \in [reload : BOOLEAN, had : Modes, keys : SUBSET SyncKeys]
  BY DEF Typed, Asks, Switch, Begin
<1>2. ev' \in Handlings /\ ev'.step = ev.step /\ ev'.key = ev.key
  BY DEF Typed, Handled, Handlings, Switch, Begin
<1>3. count' \in [writes : Nat, upsets : Nat]
  BY UpsetsCounted DEF Typed, Asks, Switch
<1>4. pc' \in [Users -> Steps] /\ owner' \in Users \cup {NoOne}
  BY DEF Typed, TypeOK, Switch, Begin, Goto
<1>5. state' \in States /\ late' \subseteq Keys /\ marks' \subseteq Marks
  BY DEF Typed, TypeOK, Switch, Begin, Marks
<1>6. \A w \in Users : pc'[w] \notin {"idle", "enter"} => owner' = w
  BY DEF Typed, TypeOK, Switch, Begin, Goto
<1>7. TypeOK'
  <2>1. UNCHANGED <<store, listen, up, wire, local, made, added, member, disc, nulled>> /\ hCache' /\ ref' /\ reqs' = {} /\ values' = ~ values
        /\ tries' = [tries EXCEPT ![u] = Attempts - 1]
    BY DEF Switch, Begin
  <2>2. owner' \in Users \cup {NoOne} /\ pc' \in [Users -> Steps] /\ state' \in States
    BY <1>4, <1>5 DEF Typed, TypeOK
  <2>3. tries' \in [Users -> 0..Attempts] /\ values' \in BOOLEAN /\ reqs' \subseteq SyncKeys
    BY <2>1 DEF Typed, TypeOK
  <2>4. {hCache', ref', made', member'} \subseteq BOOLEAN
    BY <2>1 DEF Typed, TypeOK
  <2>5. ev'.step \in Handling /\ late' \subseteq Keys /\ marks' \subseteq Marks
    BY <1>2, <1>5 DEF Typed, TypeOK
  <2> QED
    BY <2>1, <2>2, <2>3, <2>4, <2>5, <1>6 DEF Typed, TypeOK
<1>8. Coming'
  BY <1>1, <1>2, <1>3, <1>4, <1>5, <1>6 DEF Typed, TypeOK, Coming, Switch, Begin, Goto, Handlings
<1>9. Handled'
  BY <1>1, <1>2, <1>3, <1>4, <1>5, <1>6 DEF Typed, TypeOK, Handled, Switch, Begin, Goto, Handlings
<1>10. Asks'
  BY <1>1, <1>2, <1>3, <1>4, <1>5, <1>6 DEF Typed, TypeOK, Asks, Switch, Begin, Goto, Handlings
<1>11. Trying'
  BY <1>1, <1>2, <1>3, <1>4, <1>5, <1>6 DEF Typed, TypeOK, Trying, Switch, Begin, Goto, Handlings
<1> QED
  BY <1>7, <1>8, <1>9, <1>10, <1>11 DEF Typed

LEMMA RegisterTyped ==
    ASSUME Typed, NEW u \in Users, Register(u)
    PROVE  Typed'
<1> USE QueryConstants, RestParts, StepParts DEF peer, calls, fields, image, caller, history
<1>1a. pc' \in [Users -> Steps] /\ \A w \in Users : pc'[w] \notin {"idle", "enter"} => owner' = w
  BY DEF Typed, TypeOK, Register, Goto
<1>1. TypeOK'
  BY <1>1a DEF Typed, TypeOK, Register
<1>2. Coming'
  BY DEF Typed, TypeOK, Coming, Register, Goto
<1>3. Handled'
  BY DEF Typed, TypeOK, Handled, Register, Goto
<1>4. Asks'
  BY DEF Typed, TypeOK, Asks, Register, Goto
<1>5. Trying'
  BY DEF Typed, TypeOK, Trying, Register, Goto
<1> QED
  BY <1>1, <1>2, <1>3, <1>4, <1>5 DEF Typed

LEMMA AskRemovesTyped ==
    ASSUME Typed, NEW u \in Users, AskRemoves(u)
    PROVE  Typed'
<1> USE QueryConstants, RestParts, StepParts DEF peer, calls, fields, image, caller, history
<1>1. wire' \in Seq(Messages) /\ reply' \in Replies
  BY RequestTyped DEF Typed, Coming, Asks, AskRemoves
<1>2. listen' = listen \/ listen' = [listen EXCEPT !.rem = TRUE]
  BY DEF AskRemoves
<1>3. listen' \in [add : Modes, rem : BOOLEAN, trunc : BOOLEAN]
  BY <1>2 DEF Typed, TypeOK
<1>4. pc' \in [Users -> Steps]
  BY DEF Typed, TypeOK, AskRemoves, Goto
<1>5a. \A w \in Users : pc'[w] \notin {"idle", "enter"} => owner' = w
  BY DEF Typed, TypeOK, AskRemoves, Goto
<1>5. TypeOK'
  <2>1. UNCHANGED <<store, up, state, hCache, ref, reqs, local, made, values, added, member, owner, tries, disc, nulled, late, marks, ev>>
    BY DEF AskRemoves
  <2> QED
    BY <2>1, <1>3, <1>4, <1>5a DEF Typed, TypeOK
<1>6. Coming'
  BY <1>1, <1>2, <1>3, <1>4 DEF Typed, TypeOK, Coming, AskRemoves, Goto
<1>7. Handled'
  BY <1>1, <1>2, <1>3, <1>4 DEF Typed, TypeOK, Handled, AskRemoves, Goto
<1>8. Asks'
  BY <1>1, <1>2, <1>3, <1>4 DEF Typed, TypeOK, Asks, AskRemoves, Goto
<1>9. Trying'
  BY <1>1, <1>2, <1>3, <1>4 DEF Typed, TypeOK, Trying, AskRemoves, Goto
<1> QED
  BY <1>5, <1>6, <1>7, <1>8, <1>9 DEF Typed

LEMMA HasRemovesTyped ==
    ASSUME Typed, NEW u \in Users, HasRemoves(u)
    PROVE  Typed'
<1> USE QueryConstants, RestParts, StepParts DEF peer, calls, fields, image, caller, history
<1>1. reply' \in Replies
  BY ReplyParts DEF HasRemoves
<1>2. TypeOK'
  BY <1>1 DEF Typed, TypeOK, HasRemoves, Goto
<1>3. Coming'
  BY <1>1 DEF Typed, TypeOK, Coming, HasRemoves, Goto
<1>4. Handled'
  BY <1>1 DEF Typed, TypeOK, Handled, HasRemoves, Goto
<1>5. Asks'
  BY <1>1 DEF Typed, TypeOK, Asks, HasRemoves, Goto
<1>6. Trying'
  BY <1>1 DEF Typed, TypeOK, Trying, HasRemoves, Goto
<1> QED
  BY <1>2, <1>3, <1>4, <1>5, <1>6 DEF Typed

LEMMA AskAddsTyped ==
    ASSUME Typed, NEW u \in Users, AskAdds(u)
    PROVE  Typed'
<1> USE QueryConstants, RestParts, StepParts DEF peer, calls, fields, image, caller, history
<1>1. wire' \in Seq(Messages) /\ reply' \in Replies
  BY RequestTyped DEF Typed, Coming, Asks, AskAdds
<1>2. listen' \in [add : Modes, rem : BOOLEAN, trunc : BOOLEAN]
  BY DEF Typed, TypeOK, AskAdds
<1>3. pc' \in [Users -> Steps]
  BY DEF Typed, TypeOK, AskAdds, Goto
<1>4. conf' \in [reload : BOOLEAN, had : Modes, keys : SUBSET SyncKeys]
  BY DEF Typed, TypeOK, Asks, AskAdds
<1>5a. \A w \in Users : pc'[w] \notin {"idle", "enter"} => owner' = w
  BY DEF Typed, TypeOK, AskAdds, Goto, Added
<1>5. TypeOK'
  <2>1. UNCHANGED <<store, up, state, hCache, ref, reqs, local, values, added, member, owner, tries, disc, nulled, late, marks, ev>> /\ made' \in {TRUE, made}
    BY DEF AskAdds
  <2> QED
    BY <2>1, <1>2, <1>3, <1>5a DEF Typed, TypeOK
<1>6. Coming'
  BY <1>1, <1>2, <1>3, <1>4 DEF Typed, TypeOK, Coming, AskAdds, Goto, Added
<1>7. Handled'
  BY <1>1, <1>2, <1>3, <1>4 DEF Typed, TypeOK, Handled, AskAdds, Goto, Added
<1>8. Asks'
  BY <1>1, <1>2, <1>3, <1>4 DEF Typed, TypeOK, Asks, AskAdds, Goto, Added
<1>9. Trying'
  BY <1>1, <1>2, <1>3, <1>4 DEF Typed, TypeOK, Trying, AskAdds, Goto, Added
<1> QED
  BY <1>5, <1>6, <1>7, <1>8, <1>9 DEF Typed

LEMMA HasAddsTyped ==
    ASSUME Typed, NEW u \in Users, HasAdds(u)
    PROVE  Typed'
<1> USE QueryConstants, RestParts, StepParts DEF peer, calls, fields, image, caller, history
<1>1. reply' \in Replies
  BY ReplyParts DEF HasAdds
<1>2. TypeOK'
  BY <1>1 DEF Typed, TypeOK, HasAdds, Goto
<1>3. Coming'
  BY <1>1 DEF Typed, TypeOK, Coming, HasAdds, Goto
<1>4. Handled'
  BY <1>1 DEF Typed, TypeOK, Handled, HasAdds, Goto
<1>5. Asks'
  BY <1>1 DEF Typed, TypeOK, Asks, HasAdds, Goto
<1>6. Trying'
  BY <1>1 DEF Typed, TypeOK, Trying, HasAdds, Goto
<1> QED
  BY <1>2, <1>3, <1>4, <1>5, <1>6 DEF Typed

LEMMA UnaddedTyped ==
    ASSUME listen \in [add : Modes, rem : BOOLEAN, trunc : BOOLEAN], NEW u \in Users, conf.had \in Modes
    PROVE  Unadded(u) \in [add : Modes, rem : BOOLEAN, trunc : BOOLEAN]
<1>1. [listen EXCEPT !.rem = FALSE] \in [add : Modes, rem : BOOLEAN, trunc : BOOLEAN]
  OBVIOUS
<1>2. \A m \in Modes : [listen EXCEPT !.add = m] \in [add : Modes, rem : BOOLEAN, trunc : BOOLEAN]
  OBVIOUS
<1>3. Unadded(u) \in {listen, [listen EXCEPT !.rem = FALSE], [listen EXCEPT !.add = "none"],
                      [listen EXCEPT !.add = conf.had]}
  BY DEF Unadded
<1> QED
  BY <1>1, <1>2, <1>3, StepParts

LEMMA AskLoadTyped ==
    ASSUME Typed, NEW u \in Users, AskLoad(u)
    PROVE  Typed'
<1> USE QueryConstants, RestParts, StepParts DEF peer, calls, fields, image, caller, history
<1>1. Result \in Contents /\ Fetched(Present) \in Contents
  BY DataParts DEF Typed, TypeOK, Contents
<1>2. wire' \in Seq(Messages) /\ reply' \in Replies
  BY <1>1, RequestTyped DEF Typed, Coming, Asks, AskLoad
<1>3. local' \in Contents
  BY DEF Typed, TypeOK, Contents, AskLoad
<1>4. pc' \in [Users -> Steps]
  BY DEF Typed, TypeOK, AskLoad, Test, Goto
<1>5a. \A w \in Users : pc'[w] \notin {"idle", "enter"} => owner' = w
  BY DEF Typed, TypeOK, AskLoad, Goto, Test
<1>5. TypeOK'
  <2>1. UNCHANGED <<store, listen, up, state, hCache, ref, reqs, made, values, added, member, owner, tries, disc, nulled, late, marks, ev>>
    BY DEF AskLoad
  <2> QED
    BY <2>1, <1>3, <1>4, <1>5a DEF Typed, TypeOK, Contents
<1>6. Coming'
  BY <1>1, <1>2, <1>3, <1>4 DEF Typed, TypeOK, Coming, AskLoad, Goto, Test
<1>7. Handled'
  BY <1>1, <1>2, <1>3, <1>4 DEF Typed, TypeOK, Handled, AskLoad, Goto, Test
<1>8. Asks'
  BY <1>1, <1>2, <1>3, <1>4 DEF Typed, TypeOK, Asks, AskLoad, Goto, Test
<1>9. Trying'
  BY <1>1, <1>2, <1>3, <1>4 DEF Typed, TypeOK, Trying, AskLoad, Goto, Test
<1> QED
  BY <1>5, <1>6, <1>7, <1>8, <1>9 DEF Typed

LEMMA HasLoadTyped ==
    ASSUME Typed, NEW u \in Users, HasLoad(u)
    PROVE  Typed'
<1> USE QueryConstants, RestParts, StepParts DEF peer, calls, fields, image, caller, history
<1>1. reply.data \in Contents
  BY ReplyParts DEF Typed, Asks, HasLoad, Answered
<1>2. local' \in Contents
  BY <1>1 DEF Typed, TypeOK, Contents, HasLoad
<1>3. reply' \in Replies
  BY ReplyParts DEF HasLoad
<1>4. pc' \in [Users -> Steps]
  BY DEF Typed, TypeOK, HasLoad, Test, Goto
<1>5. TypeOK'
  BY <1>1, <1>2, <1>3, <1>4, DataParts DEF Contents, Typed, TypeOK, HasLoad, Goto, Test
<1>6. Coming'
  BY <1>1, <1>2, <1>3, <1>4 DEF Typed, TypeOK, Coming, HasLoad, Goto, Test
<1>7. Handled'
  BY <1>1, <1>2, <1>3, <1>4 DEF Typed, TypeOK, Handled, HasLoad, Goto, Test
<1>8. Asks'
  BY <1>1, <1>2, <1>3, <1>4 DEF Typed, TypeOK, Asks, HasLoad, Goto, Test
<1>9. Trying'
  BY <1>1, <1>2, <1>3, <1>4 DEF Typed, TypeOK, Trying, HasLoad, Goto, Test
<1> QED
  BY <1>5, <1>6, <1>7, <1>8, <1>9 DEF Typed

LEMMA SetConfiguredTyped ==
    ASSUME Typed, NEW u \in Users, SetConfigured(u)
    PROVE  Typed'
<1> USE QueryConstants, RestParts, StepParts DEF peer, calls, fields, image, caller, history
<1>1. marks' \subseteq Marks
  BY DEF Typed, TypeOK, SetConfigured, Overwrites, Marks
<1>2. TypeOK'
  BY <1>1 DEF Typed, TypeOK, SetConfigured, Goto, Overwrites
<1>3. Coming'
  BY <1>1 DEF Typed, TypeOK, Coming, SetConfigured, Goto, Overwrites
<1>4. Handled'
  BY <1>1 DEF Typed, TypeOK, Handled, SetConfigured, Goto, Overwrites
<1>5. Asks'
  BY <1>1 DEF Typed, TypeOK, Asks, SetConfigured, Goto, Overwrites
<1>6. Trying'
  BY <1>1 DEF Typed, TypeOK, Trying, SetConfigured, Goto, Overwrites
<1> QED
  BY <1>2, <1>3, <1>4, <1>5, <1>6 DEF Typed

LEMMA ResolveTyped ==
    ASSUME Typed, NEW u \in Users, Resolve(u)
    PROVE  Typed'
<1> USE QueryConstants, RestParts, StepParts DEF peer, calls, fields, image, caller, history
<1>1. conf' \in [reload : BOOLEAN, had : Modes, keys : SUBSET SyncKeys]
  BY DEF Typed, TypeOK, Asks, Resolve
<1>2. pc' \in [Users -> Steps]
  BY DEF Typed, TypeOK, Resolve, Test, Goto
<1>3. TypeOK'
  BY <1>1, <1>2 DEF Typed, TypeOK, Resolve, Goto, Test
<1>4. Coming'
  BY <1>1, <1>2 DEF Typed, TypeOK, Coming, Resolve, Goto, Test
<1>5. Handled'
  BY <1>1, <1>2 DEF Typed, TypeOK, Handled, Resolve, Goto, Test
<1>6. Asks'
  BY <1>1, <1>2 DEF Typed, TypeOK, Asks, Resolve, Goto, Test
<1>7. Trying'
  BY <1>1, <1>2 DEF Typed, TypeOK, Trying, Resolve, Goto, Test
<1> QED
  BY <1>3, <1>4, <1>5, <1>6, <1>7 DEF Typed

LEMMA AskSyncTyped ==
    ASSUME Typed, NEW u \in Users, AskSync(u)
    PROVE  Typed'
<1> USE QueryConstants, RestParts, StepParts DEF peer, calls, fields, image, caller, history
<1>1. Fetched(conf.keys) \in Contents
  BY DataParts DEF Typed, TypeOK, Asks, Contents
<1>2. wire' \in Seq(Messages) /\ reply' \in Replies
  BY <1>1, RequestTyped DEF Typed, Coming, Asks, AskSync
<1>3. TypeOK'
  BY <1>1, <1>2 DEF Typed, TypeOK, AskSync
<1>4. Coming'
  BY <1>1, <1>2 DEF Typed, TypeOK, Coming, AskSync
<1>5. Handled'
  BY <1>1, <1>2 DEF Typed, TypeOK, Handled, AskSync
<1>6. Asks'
  BY <1>1, <1>2 DEF Typed, TypeOK, Asks, AskSync
<1>7. Trying'
  BY <1>1, <1>2 DEF Typed, TypeOK, Trying, AskSync
<1> QED
  BY <1>3, <1>4, <1>5, <1>6, <1>7 DEF Typed

LEMMA HasSyncTyped ==
    ASSUME Typed, NEW u \in Users, HasSync(u)
    PROVE  Typed'
<1> USE QueryConstants, RestParts, StepParts DEF peer, calls, fields, image, caller, history
<1>1. reply.data \in Contents
  BY ReplyParts DEF Typed, Asks, HasSync, Answered
<1>2. local' \in Contents
  BY <1>1 DEF Typed, TypeOK, Contents, HasSync, Resolved
<1>3. reply' \in Replies
  BY ReplyParts DEF HasSync
<1>4. pc' \in [Users -> Steps]
  BY DEF Typed, TypeOK, HasSync, Test, Goto
<1>5. TypeOK'
  BY <1>1, <1>2, <1>3, <1>4, DataParts DEF Contents, Typed, TypeOK, HasSync, Goto, Test
<1>6. Coming'
  BY <1>1, <1>2, <1>3, <1>4 DEF Typed, TypeOK, Coming, HasSync, Goto, Test
<1>7. Handled'
  BY <1>1, <1>2, <1>3, <1>4 DEF Typed, TypeOK, Handled, HasSync, Goto, Test
<1>8. Asks'
  BY <1>1, <1>2, <1>3, <1>4 DEF Typed, TypeOK, Asks, HasSync, Goto, Test
<1>9. Trying'
  BY <1>1, <1>2, <1>3, <1>4 DEF Typed, TypeOK, Trying, HasSync, Goto, Test
<1> QED
  BY <1>5, <1>6, <1>7, <1>8, <1>9 DEF Typed

LEMMA SetSynchronizedTyped ==
    ASSUME Typed, NEW u \in Users, SetSynchronized(u)
    PROVE  Typed'
<1> USE QueryConstants, RestParts, StepParts DEF peer, calls, fields, image, caller, history
<1>1. marks' \subseteq Marks
  BY DEF Typed, TypeOK, SetSynchronized, Overwrites, Marks
<1>2a. pc' \in [Users -> Steps] /\ \A w \in Users : pc'[w] \notin {"idle", "enter"} => owner' = w
  BY DEF Typed, TypeOK, SetSynchronized, Goto
<1>2. TypeOK'
  BY <1>2a, <1>1 DEF Typed, TypeOK, SetSynchronized
<1>3. Coming'
  BY <1>1 DEF Typed, TypeOK, Coming, SetSynchronized, Goto, Overwrites
<1>4. Handled'
  BY <1>1 DEF Typed, TypeOK, Handled, SetSynchronized, Goto, Overwrites
<1>5. Asks'
  BY <1>1 DEF Typed, TypeOK, Asks, SetSynchronized, Goto, Overwrites
<1>6. Trying'
  BY <1>1 DEF Typed, TypeOK, Trying, SetSynchronized, Goto, Overwrites
<1> QED
  BY <1>2, <1>3, <1>4, <1>5, <1>6 DEF Typed

LEMMA CatchTyped ==
    ASSUME Typed, NEW u \in Users, pc[u] \notin {"idle", "enter"}, Catch(u)
    PROVE  Typed'
<1> USE QueryConstants, RestParts, StepParts DEF peer, calls, fields, image, caller, history
<1>1. listen' = listen \/ listen' = Silent \/ listen' = Unadded(u)
  BY DEF Catch, ReleaseListeners
<1>2. listen' \in [add : Modes, rem : BOOLEAN, trunc : BOOLEAN]
  BY <1>1, UnaddedTyped DEF Typed, TypeOK, Asks
<1>3. member' \in BOOLEAN /\ added' \in Modes
  BY DEF Typed, TypeOK, Catch, ReleaseListeners
<1>4. reply' \in Replies
  BY ReplyParts DEF Catch
<1>5. tries[u] < Attempts
  BY DEF Typed, Trying
<1>6. tries' \in [Users -> 0..Attempts]
  BY <1>5 DEF Typed, TypeOK, Catch
<1>7. pc' \in [Users -> Steps] /\ \A w \in Users : w # u => pc'[w] \in {"idle", "enter"}
  BY DEF Typed, TypeOK, Catch, Goto
<1>8. TypeOK'
  BY <1>1, <1>2, <1>3, <1>4, <1>5, <1>6, <1>7 DEF Typed, TypeOK, Catch, Goto, GivesUp, Abandons
<1>9. Coming'
  BY <1>1, <1>2, <1>3, <1>4, <1>5, <1>6, <1>7 DEF Typed, TypeOK, Coming, Catch, Goto, GivesUp, Abandons
<1>10. Handled'
  BY <1>1, <1>2, <1>3, <1>4, <1>5, <1>6, <1>7 DEF Typed, TypeOK, Handled, Catch, Goto, GivesUp, Abandons
<1>11. Asks'
  BY <1>1, <1>2, <1>3, <1>4, <1>5, <1>6, <1>7 DEF Typed, TypeOK, Asks, Catch, Goto, GivesUp, Abandons
<1>12. Trying'
  BY <1>1, <1>2, <1>3, <1>4, <1>5, <1>6, <1>7 DEF Typed, TypeOK, Trying, Catch, Goto, GivesUp, Abandons
<1> QED
  BY <1>8, <1>9, <1>10, <1>11, <1>12 DEF Typed

LEMMA ReleaseTyped ==
    ASSUME Typed, NEW u \in Users, Release(u)
    PROVE  Typed'
<1> USE QueryConstants, RestParts, StepParts DEF peer, calls, fields, image, caller, history
<1>1. listen' \in [add : Modes, rem : BOOLEAN, trunc : BOOLEAN] /\ member' \in BOOLEAN /\ added' \in Modes
  BY DEF Typed, TypeOK, Release, ReleaseListeners
<1>2. count' \in [writes : Nat, upsets : Nat]
  BY UpsetsCounted DEF Typed, Asks, Release
<1>3. TypeOK'
  BY <1>1, <1>2, DataParts DEF Contents, Typed, TypeOK, Release, ReleaseListeners
<1>4. Coming'
  BY <1>1, <1>2 DEF Typed, TypeOK, Coming, Release, ReleaseListeners
<1>5. Handled'
  BY <1>1, <1>2 DEF Typed, TypeOK, Handled, Release, ReleaseListeners
<1>6. Asks'
  BY <1>1, <1>2 DEF Typed, TypeOK, Asks, Release, ReleaseListeners
<1>7. Trying'
  BY <1>1, <1>2 DEF Typed, TypeOK, Trying, Release, ReleaseListeners
<1> QED
  BY <1>3, <1>4, <1>5, <1>6, <1>7 DEF Typed

LEMMA TimeoutTyped ==
    ASSUME Typed, NEW u \in Users, Timeout(u)
    PROVE  Typed'
<1> USE QueryConstants, RestParts, StepParts DEF peer, calls, fields, image, caller, history
<1>1. wire' \in Seq(Messages)
  BY WireParts DEF Typed, Coming, Timeout, Responses
<1>2. reply' \in Replies
  BY ReplyParts DEF Timeout
<1>3. count' \in [writes : Nat, upsets : Nat]
  BY UpsetsCounted DEF Typed, Asks, Timeout
<1>4. TypeOK'
  BY <1>1, <1>2, <1>3 DEF Typed, TypeOK, Timeout
<1>5. Coming'
  BY <1>1, <1>2, <1>3 DEF Typed, TypeOK, Coming, Timeout
<1>6. Handled'
  BY <1>1, <1>2, <1>3 DEF Typed, TypeOK, Handled, Timeout
<1>7. Asks'
  BY <1>1, <1>2, <1>3 DEF Typed, TypeOK, Asks, Timeout
<1>8. Trying'
  BY <1>1, <1>2, <1>3 DEF Typed, TypeOK, Trying, Timeout
<1> QED
  BY <1>4, <1>5, <1>6, <1>7, <1>8 DEF Typed

\* The service thread goes from step to step of the handling of an event.
LEMMA HandlingParts ==
    ASSUME Handled, NEW at, NEW next \in Handling
    PROVE  /\ Handles(at, next) /\ (next \in {"judge", "defer", "settle", "apply"} => ev.key \in Keys)
              => Handled' /\ ev'.step = next
           /\ Done(at) => Handled' /\ ev'.step = "idle"
<1>1. ASSUME Handles(at, next), next \in {"judge", "defer", "settle", "apply"} => ev.key \in Keys
      PROVE  Handled' /\ ev'.step = next
  BY <1>1 DEF Handled, Handlings, Handles
<1>2. ASSUME Done(at) PROVE Handled' /\ ev'.step = "idle"
  BY <1>2, RestParts DEF Handled, Done
<1> QED
  BY <1>1, <1>2

LEMMA HandlingSteps ==
    {"idle", "judge", "defer", "settle", "apply", "ensure", "enter", "read", "weigh", "note", "truncate"} = Handling
BY DEF Handling

\* An event of a key is judged when there is a map of deferred keys, or applied.
LEMMA TakeEventTyped ==
    ASSUME NEW m \in Messages, m.type \notin {"reply", "truncate"}, ref \in BOOLEAN, TakeEvent(m)
    PROVE  Handled' /\ ev'.step \in Handling
<1>1. m.key \in Keys /\ m.value \in Values \cup {Null}
  BY MessageParts
<1>2. "judge" \in Handling /\ "apply" \in Handling
  BY DEF Handling
<1>3. CASE ev' = Rest
  BY <1>3, <1>2, RestParts, HandlingSteps DEF Handled
<1>4. CASE ev' # Rest
  <2>1. ev' = [step |-> IF ref THEN "judge" ELSE "apply", key |-> m.key,
               value |-> IF m.type = "put" THEN m.value ELSE Absent, current |-> ref]
    BY <1>4 DEF TakeEvent
  <2> QED
    BY <1>1, <1>2, <2>1 DEF Handled, Handlings
<1> QED
  BY <1>3, <1>4

LEMMA TakeTyped ==
    ASSUME Typed, Take
    PROVE  Typed'
<1> USE QueryConstants, RestParts, StepParts DEF peer, calls, fields, image, caller, history
<1>1. /\ Head(wire) \in Messages /\ wire' = Tail(wire) /\ wire' \in Seq(Messages)
      /\ UNCHANGED <<peer, fields, image, owner, pc, tries, conf, calls, late, count>>
  BY WireParts DEF Typed, Coming, Take
<1>2. PICK m \in Messages : m = Head(wire)
  BY <1>1
<1>3. \/ m.type = "reply" /\ TakeReply(m)
      \/ m.type = "truncate" /\ TakeTruncate
      \/ m.type \notin {"reply", "truncate"} /\ TakeEvent(m)
  BY <1>2 DEF Take
<1>4. Handled' /\ ev'.step \in Handling
  BY <1>3, TakeEventTyped, HandlingSteps DEF Typed, TypeOK, Handled, TakeReply, TakeTruncate, Handlings
<1>5. reply' \in Replies /\ marks' \subseteq Marks
  BY <1>3, ReplyParts, MessageParts DEF Typed, TypeOK, Asks, TakeReply, TakeTruncate, TakeEvent, Marks
<1>6. TypeOK'
  BY <1>1, <1>2, <1>3, <1>4, <1>5 DEF Typed, TypeOK, Take
<1>7. Coming'
  BY <1>1, <1>2, <1>3, <1>4, <1>5 DEF Typed, TypeOK, Coming, Take
<1>8. Handled'
  BY <1>1, <1>2, <1>3, <1>4, <1>5 DEF Typed, TypeOK, Handled, Take
<1>9. Asks'
  BY <1>1, <1>2, <1>3, <1>4, <1>5 DEF Typed, TypeOK, Asks, Take
<1>10. Trying'
  BY <1>1, <1>2, <1>3, <1>4, <1>5 DEF Typed, TypeOK, Trying, Take
<1> QED
  BY <1>6, <1>7, <1>8, <1>9, <1>10 DEF Typed

LEMMA JudgeTyped ==
    ASSUME Typed, Judge
    PROVE  Typed'
<1> USE QueryConstants, RestParts, StepParts DEF peer, calls, fields, image, caller, history
<1>1. ev.step = "judge" /\ ev.key \in Keys
  BY DEF Typed, Handled, Judge, Handles
<1>2. Handled' /\ ev'.step \in Handling
  BY <1>1, HandlingParts, HandlingSteps DEF Typed, Judge
<1>3. TypeOK'
  BY <1>1, <1>2 DEF Typed, TypeOK, Judge
<1>4. Coming'
  BY <1>1, <1>2 DEF Typed, TypeOK, Coming, Judge
<1>5. Handled'
  BY <1>1, <1>2 DEF Typed, TypeOK, Handled, Judge
<1>6. Asks'
  BY <1>1, <1>2 DEF Typed, TypeOK, Asks, Judge
<1>7. Trying'
  BY <1>1, <1>2 DEF Typed, TypeOK, Trying, Judge
<1> QED
  BY <1>3, <1>4, <1>5, <1>6, <1>7 DEF Typed

LEMMA DeferTyped ==
    ASSUME Typed, Defer
    PROVE  Typed'
<1> USE QueryConstants, RestParts, StepParts DEF peer, calls, fields, image, caller, history
<1>1. Handled' /\ ev'.step \in Handling
  BY HandlingParts, HandlingSteps DEF Typed, Handled, Defer
<1>2. reqs' \subseteq SyncKeys /\ late' \subseteq Keys
  BY DEF Typed, TypeOK, Handled, Defer, Done, SyncKeys
<1>3. TypeOK'
  BY <1>1, <1>2 DEF Typed, TypeOK, Defer, Handles, Done
<1>4. Coming'
  BY <1>1, <1>2 DEF Typed, TypeOK, Coming, Defer, Handles, Done
<1>5. Handled'
  BY <1>1, <1>2 DEF Typed, TypeOK, Handled, Defer, Handles, Done
<1>6. Asks'
  BY <1>1, <1>2 DEF Typed, TypeOK, Asks, Defer, Handles, Done
<1>7. Trying'
  BY <1>1, <1>2 DEF Typed, TypeOK, Trying, Defer, Handles, Done
<1> QED
  BY <1>3, <1>4, <1>5, <1>6, <1>7 DEF Typed

LEMMA SettleTyped ==
    ASSUME Typed, Settle
    PROVE  Typed'
<1> USE QueryConstants, RestParts, StepParts DEF peer, calls, fields, image, caller, history
<1>1. ev.step = "settle" /\ ev.key \in Keys
  BY DEF Typed, Handled, Settle, Handles
<1>2. Handled' /\ ev'.step \in Handling
  BY <1>1, HandlingParts, HandlingSteps DEF Typed, Settle
<1>3. TypeOK'
  BY <1>1, <1>2 DEF Typed, TypeOK, Settle
<1>4. Coming'
  BY <1>1, <1>2 DEF Typed, TypeOK, Coming, Settle
<1>5. Handled'
  BY <1>1, <1>2 DEF Typed, TypeOK, Handled, Settle
<1>6. Asks'
  BY <1>1, <1>2 DEF Typed, TypeOK, Asks, Settle
<1>7. Trying'
  BY <1>1, <1>2 DEF Typed, TypeOK, Trying, Settle
<1> QED
  BY <1>3, <1>4, <1>5, <1>6, <1>7 DEF Typed

LEMMA ApplyTyped ==
    ASSUME Typed, Apply
    PROVE  Typed'
<1> USE QueryConstants, RestParts, StepParts DEF peer, calls, fields, image, caller, history
<1>1. Handled' /\ ev'.step \in Handling
  BY HandlingParts, HandlingSteps DEF Typed, Handled, Apply
<1>2. local' \in [Keys -> Values \cup {Absent, Null}]
  BY DEF Typed, TypeOK, Handled, Handlings, Apply, Done
<1>3. TypeOK'
  BY <1>1, <1>2 DEF Typed, TypeOK, Apply, Handles, Done
<1>4. Coming'
  BY <1>1, <1>2 DEF Typed, TypeOK, Coming, Apply, Handles, Done
<1>5. Handled'
  BY <1>1, <1>2 DEF Typed, TypeOK, Handled, Apply, Handles, Done
<1>6. Asks'
  BY <1>1, <1>2 DEF Typed, TypeOK, Asks, Apply, Handles, Done
<1>7. Trying'
  BY <1>1, <1>2 DEF Typed, TypeOK, Trying, Apply, Handles, Done
<1> QED
  BY <1>3, <1>4, <1>5, <1>6, <1>7 DEF Typed

LEMMA EnsureTyped ==
    ASSUME Typed, Ensure
    PROVE  Typed'
<1> USE QueryConstants, RestParts, StepParts DEF peer, calls, fields, image, caller, history
<1>1. Handled' /\ ev'.step \in Handling
  BY HandlingParts, HandlingSteps DEF Typed, Handled, Ensure
<1>2. TypeOK'
  BY <1>1 DEF Typed, TypeOK, Ensure, Handles, Done
<1>3. Coming'
  BY <1>1 DEF Typed, TypeOK, Coming, Ensure, Handles, Done
<1>4. Handled'
  BY <1>1 DEF Typed, TypeOK, Handled, Ensure, Handles, Done
<1>5. Asks'
  BY <1>1 DEF Typed, TypeOK, Asks, Ensure, Handles, Done
<1>6. Trying'
  BY <1>1 DEF Typed, TypeOK, Trying, Ensure, Handles, Done
<1> QED
  BY <1>2, <1>3, <1>4, <1>5, <1>6 DEF Typed

LEMMA ReadTyped ==
    ASSUME Typed, Read
    PROVE  Typed'
<1> USE QueryConstants, RestParts, StepParts DEF peer, calls, fields, image, caller, history
<1>1. Handled' /\ ev'.step \in Handling
  BY HandlingSteps DEF Typed, TypeOK, Handled, Handlings, Read
<1>2. TypeOK'
  BY <1>1 DEF Typed, TypeOK, Read
<1>3. Coming'
  BY <1>1 DEF Typed, TypeOK, Coming, Read
<1>4. Handled'
  BY <1>1 DEF Typed, TypeOK, Handled, Read
<1>5. Asks'
  BY <1>1 DEF Typed, TypeOK, Asks, Read
<1>6. Trying'
  BY <1>1 DEF Typed, TypeOK, Trying, Read
<1> QED
  BY <1>2, <1>3, <1>4, <1>5, <1>6 DEF Typed

LEMMA WeighTyped ==
    ASSUME Typed, Weigh
    PROVE  Typed'
<1> USE QueryConstants, RestParts, StepParts DEF peer, calls, fields, image, caller, history
<1>0. reqs' \subseteq SyncKeys
  BY DEF Typed, TypeOK, Weigh
<1>1. Handled' /\ ev'.step \in Handling
  BY HandlingParts, HandlingSteps DEF Typed, Handled, Weigh
<1>2. marks' \subseteq Marks
  BY DEF Typed, TypeOK, Weigh, Marks
<1>3. TypeOK'
  BY <1>0, <1>1, <1>2 DEF Typed, TypeOK, Weigh, Handles, Done
<1>4. Coming'
  BY <1>0, <1>1, <1>2 DEF Typed, TypeOK, Coming, Weigh, Handles, Done
<1>5. Handled'
  BY <1>0, <1>1, <1>2 DEF Typed, TypeOK, Handled, Weigh, Handles, Done
<1>6. Asks'
  BY <1>0, <1>1, <1>2 DEF Typed, TypeOK, Asks, Weigh, Handles, Done
<1>7. Trying'
  BY <1>0, <1>1, <1>2 DEF Typed, TypeOK, Trying, Weigh, Handles, Done
<1> QED
  BY <1>3, <1>4, <1>5, <1>6, <1>7 DEF Typed

LEMMA NoteTyped ==
    ASSUME Typed, Note
    PROVE  Typed'
<1> USE QueryConstants, RestParts, StepParts DEF peer, calls, fields, image, caller, history
<1>1. Handled' /\ ev'.step \in Handling
  BY HandlingParts, HandlingSteps DEF Typed, Handled, Note
<1>2. reqs' \subseteq SyncKeys
  BY DEF Typed, TypeOK, Note, SyncKeys
<1>3. TypeOK'
  BY <1>1, <1>2 DEF Typed, TypeOK, Note, Handles, Done
<1>4. Coming'
  BY <1>1, <1>2 DEF Typed, TypeOK, Coming, Note, Handles, Done
<1>5. Handled'
  BY <1>1, <1>2 DEF Typed, TypeOK, Handled, Note, Handles, Done
<1>6. Asks'
  BY <1>1, <1>2 DEF Typed, TypeOK, Asks, Note, Handles, Done
<1>7. Trying'
  BY <1>1, <1>2 DEF Typed, TypeOK, Trying, Note, Handles, Done
<1> QED
  BY <1>3, <1>4, <1>5, <1>6, <1>7 DEF Typed

LEMMA TruncateLocalTyped ==
    ASSUME Typed, TruncateLocal
    PROVE  Typed'
<1> USE QueryConstants, RestParts, StepParts DEF peer, calls, fields, image, caller, history
<1>1. Handled' /\ ev'.step \in Handling
  BY HandlingParts, HandlingSteps DEF Typed, Handled, TruncateLocal
<1>2. local' \in [Keys -> Values \cup {Absent, Null}]
  BY RestParts DEF Contents, TruncateLocal
<1>3. TypeOK'
  BY <1>1, <1>2 DEF Typed, TypeOK, TruncateLocal, Handles, Done
<1>4. Coming'
  BY <1>1, <1>2 DEF Typed, TypeOK, Coming, TruncateLocal, Handles, Done
<1>5. Handled'
  BY <1>1, <1>2 DEF Typed, TypeOK, Handled, TruncateLocal, Handles, Done
<1>6. Asks'
  BY <1>1, <1>2 DEF Typed, TypeOK, Asks, TruncateLocal, Handles, Done
<1>7. Trying'
  BY <1>1, <1>2 DEF Typed, TypeOK, Trying, TruncateLocal, Handles, Done
<1> QED
  BY <1>3, <1>4, <1>5, <1>6, <1>7 DEF Typed

LEMMA EnterServiceTyped ==
    ASSUME Typed, EnterService
    PROVE  Typed'
<1> USE QueryConstants, RestParts, StepParts DEF peer, calls, fields, image, caller, history
<1>1. Handled' /\ ev'.step \in Handling
  BY HandlingParts, HandlingSteps DEF Typed, EnterService
<1>2. Attempted \/ UNCHANGED <<fields, listen, member, added>>
  BY DEF EnterService
<1>3. \A b \in BOOLEAN : [Silent EXCEPT !.trunc = b] \in [add : Modes, rem : BOOLEAN, trunc : BOOLEAN]
  OBVIOUS
<1>4. \A b \in BOOLEAN : [listen EXCEPT !.trunc = b] \in [add : Modes, rem : BOOLEAN, trunc : BOOLEAN]
  BY DEF Typed, TypeOK
<1>5. listen' = listen \/ \E b \in BOOLEAN : listen' = [Silent EXCEPT !.trunc = b] \/ listen' = [listen EXCEPT !.trunc = b]
  BY <1>2 DEF Typed, TypeOK, Attempted
<1>6. listen' \in [add : Modes, rem : BOOLEAN, trunc : BOOLEAN]
  BY <1>3, <1>4, <1>5 DEF Typed, TypeOK
<1>7. member' \in BOOLEAN /\ added' \in Modes
  BY <1>2, StepParts DEF Typed, TypeOK, Attempted
<1>8. state' \in States /\ reqs' \subseteq SyncKeys /\ {hCache', ref'} \subseteq BOOLEAN
  BY <1>2 DEF Typed, TypeOK, Attempted
<1>9. TypeOK'
  BY <1>1, <1>2, <1>3, <1>4, <1>5, <1>6, <1>7, <1>8 DEF Typed, TypeOK, EnterService
<1>10. Coming'
  BY <1>1, <1>2, <1>3, <1>4, <1>5, <1>6, <1>7, <1>8 DEF Typed, TypeOK, Coming, EnterService
<1>11. Handled'
  BY <1>1, <1>2, <1>3, <1>4, <1>5, <1>6, <1>7, <1>8 DEF Typed, TypeOK, Handled, EnterService
<1>12. Asks'
  BY <1>1, <1>2, <1>3, <1>4, <1>5, <1>6, <1>7, <1>8 DEF Typed, TypeOK, Asks, EnterService
<1>13. Trying'
  BY <1>1, <1>2, <1>3, <1>4, <1>5, <1>6, <1>7, <1>8 DEF Typed, TypeOK, Trying, EnterService
<1> QED
  BY <1>9, <1>10, <1>11, <1>12, <1>13 DEF Typed

LEMMA StepTyped ==
    ASSUME Typed, [Next]_vars
    PROVE  Typed'
<1>1. ASSUME NEW k \in Keys, NEW v \in Values \cup {Absent}, Write(k, v) PROVE Typed'
  BY <1>1, PeerTyped
<1>2. CASE Truncate \/ Die \/ Reconnect \/ Listener
  BY <1>2, PeerTyped
<1>3. ASSUME NEW u \in Users, Call(u) \/ Enter(u) \/ Switch(u) \/ Release(u) \/ Timeout(u) PROVE Typed'
  BY <1>3, CallTyped, EnterTyped, SwitchTyped, ReleaseTyped, TimeoutTyped
<1>4. ASSUME NEW u \in Users, Unexpected(u) \/ Throw(u) \/ Refused(u) PROVE Typed'
  <2>1. pc[u] \notin {"idle", "enter"} /\ Catch(u)
    BY <1>4 DEF Unexpected, Throw, Refused, Asking
  <2> QED
    BY <2>1, CatchTyped
<1>5. ASSUME NEW u \in Users, CallerStep(u) PROVE Typed'
  BY <1>4, <1>5, RegisterTyped, AskRemovesTyped, HasRemovesTyped, AskAddsTyped, HasAddsTyped, AskLoadTyped,
     HasLoadTyped, SetConfiguredTyped, ResolveTyped, AskSyncTyped, HasSyncTyped, SetSynchronizedTyped
     DEF CallerStep
<1>6. CASE ServiceStep
  BY <1>6, TakeTyped, JudgeTyped, DeferTyped, SettleTyped, ApplyTyped, EnsureTyped, ReadTyped, WeighTyped,
     NoteTyped, TruncateLocalTyped DEF ServiceStep
<1>7. CASE EnterService
  BY <1>7, EnterServiceTyped
<1>8. CASE UNCHANGED vars
  BY <1>8 DEF vars, peer, fields, image, caller, calls, history, Typed, TypeOK, Coming, Handled, Asks, Trying
<1> QED
  BY <1>1, <1>2, <1>3, <1>4, <1>5, <1>6, <1>7, <1>8 DEF Next

\* Every variable has its type: a call gives up after the last attempt (ensureSynchronized),
\* whoever configures the cache holds its monitor, and of the pending disconnections there
\* are at most two (onChannelClosed and memberLeft).
THEOREM TypeCorrect == Spec => []TypeOK
<1>1. Typed => TypeOK
  BY DEF Typed
<1> QED
  BY <1>1, InitTyped, StepTyped, PTL DEF Spec

-----------------------------------------------------------------------------
(***************************************************************************)
(* The stages of a configuration: the state is what the holder of the      *)
(* monitor takes it for, or the cache was disconnected meanwhile.          *)
(***************************************************************************)
\* The steps that touch neither the state nor the progress of a call.
LEMMA Aside ==
    ASSUME \/ \E k \in Keys, v \in Values \cup {Absent} : Write(k, v)
           \/ Truncate \/ Die \/ Reconnect \/ NullCache \/ ServiceStep \/ EnterService
           \/ \E u \in Users : AskSync(u) \/ Timeout(u)
           \/ UNCHANGED vars
    PROVE  UNCHANGED <<state, owner, pc>>
<1> USE DEF fields, caller
<1>1. CASE \E k \in Keys, v \in Values \cup {Absent} : Write(k, v)
  BY <1>1 DEF Write
<1>2. CASE Truncate \/ Die \/ Reconnect \/ NullCache
  BY <1>2 DEF Truncate, Die, Reconnect, NullCache
<1>3. CASE ServiceStep
  BY <1>3 DEF ServiceStep, Take, Judge, Defer, Settle, Apply, Ensure, Read, Weigh, Note, TruncateLocal
<1>4. CASE EnterService
  BY <1>4 DEF EnterService, Attempted
<1>5. CASE \E u \in Users : AskSync(u) \/ Timeout(u)
  BY <1>5 DEF AskSync, Timeout
<1>6. CASE UNCHANGED vars
  BY <1>6 DEF vars
<1> QED
  BY <1>1, <1>2, <1>3, <1>4, <1>5, <1>6

\* Whoever holds the monitor is the only one that configures.
LEMMA OneConfigures ==
    ASSUME Typed
    PROVE  /\ \A u, w \in Users : pc[u] \notin {"idle", "enter"} /\ w # u => pc[w] \in {"idle", "enter"}
           /\ owner = NoOne => \A u \in Users : pc[u] \in {"idle", "enter"}
           /\ pc \in [Users -> Steps] /\ NoOne \notin Users
BY QueryConstants DEF Typed, TypeOK

LEMMA StepStaged ==
    ASSUME Typed, Staged, [Next]_vars
    PROVE  Staged'
<1> USE OneConfigures DEF Staged, fields, caller, Goto
<1>1. CASE UNCHANGED <<state, owner, pc>>
  BY <1>1
<1>2. CASE state' = "disconnected"
  BY <1>2
<1>3. ASSUME NEW u \in Users, Call(u) PROVE Staged'
  BY <1>3 DEF Call, Early
<1>4. ASSUME NEW u \in Users, Enter(u) PROVE Staged'
  BY <1>4 DEF Enter, Begin, Early
<1>5. ASSUME NEW u \in Users, Switch(u) PROVE Staged'
  BY <1>5 DEF Switch, Begin, Early
<1>6. ASSUME NEW u \in Users, Register(u) \/ AskRemoves(u) \/ HasRemoves(u) PROVE Staged'
  BY <1>6 DEF Register, AskRemoves, HasRemoves, Early
<1>7. ASSUME NEW u \in Users, AskAdds(u) \/ HasAdds(u) PROVE Staged'
  BY <1>7 DEF AskAdds, HasAdds, Early
<1>8. ASSUME NEW u \in Users, AskLoad(u) \/ HasLoad(u) PROVE Staged'
  BY <1>8 DEF AskLoad, HasLoad, Test, Early
<1>9. ASSUME NEW u \in Users, SetConfigured(u) PROVE Staged'
  BY <1>9 DEF SetConfigured, Early
<1>10. ASSUME NEW u \in Users, Resolve(u) \/ HasSync(u) PROVE Staged'
  BY <1>10 DEF Resolve, HasSync, Test, Early
<1>11. ASSUME NEW u \in Users, SetSynchronized(u) PROVE Staged'
  BY <1>11 DEF SetSynchronized, Early
<1>12. ASSUME NEW u \in Users, Catch(u) \/ Release(u) PROVE Staged'
  BY <1>2, <1>12 DEF Catch, Abandons, Release
<1>13. ASSUME NEW u \in Users, CallerStep(u), ~ AskSync(u) PROVE Staged'
  BY <1>6, <1>7, <1>8, <1>9, <1>10, <1>11, <1>12, <1>13 DEF CallerStep, Unexpected, Throw
<1>14. CASE Disconnect
  BY <1>2, <1>14 DEF Disconnect
<1>15. ASSUME NEW u \in Users, Refused(u) PROVE Staged'
  BY <1>12, <1>15 DEF Refused
<1> QED
  BY <1>1, <1>3, <1>4, <1>5, <1>12, <1>13, <1>14, <1>15, Aside DEF Next, Listener

\* Whoever gets the monitor finds the cache synchronized or disconnected, although the
\* listeners set it to disconnected without the monitor (the checks of
\* ensureSynchronized and of changeState never fail).
THEOREM NeverHalfwayHolds == Spec => []NeverHalfway
<1>1. Init => Staged
  BY QueryConstants DEF Init, Staged, Early
<1>2. Staged => NeverHalfway
  BY DEF Staged, NeverHalfway
<1> QED
  BY <1>1, <1>2, InitTyped, StepTyped, StepStaged, PTL DEF Spec

-----------------------------------------------------------------------------
(***************************************************************************)
(* Requests and their responses.                                           *)
(***************************************************************************)
\* What the steps do to the responses under way.
LEMMA OtherMessage ==
    ASSUME wire \in Seq(Messages), NEW m \in Messages, m.type # "reply", wire' = Append(wire, m)
    PROVE  Responses' = Responses
BY DEF Responses

LEMMA ResponseSent ==
    ASSUME wire \in Seq(Messages), NEW d \in Contents, Responses = {}, Request(d)
    PROVE  Responses' = {Len(wire) + 1}
<1>1. [type |-> "reply", data |-> d] \in Messages
  BY MessageParts
<1> QED
  BY <1>1 DEF Request, Responses

LEMMA MessageTaken ==
    ASSUME wire \in Seq(Messages), wire # <<>>, wire' = Tail(wire)
    PROVE  /\ \A i \in Responses' : i \in Nat \ {0} /\ i + 1 \in Responses
           /\ Head(wire).type = "reply" => 1 \in Responses
BY DEF Responses

LEMMA ResponseRemoved ==
    ASSUME wire \in Seq(Messages), NEW i \in Responses, \A j \in Responses : j = i, wire' = RemoveAt(wire, i)
    PROVE  Responses' = {}
<1>1. /\ i \in 1..Len(wire) /\ Len(wire) \in Nat
      /\ \A j \in 1..Len(wire) : wire[j].type = "reply" => j = i
  BY DEF Responses
<1>2. /\ wire' = SubSeq(wire, 1, i - 1) \o SubSeq(wire, i + 1, Len(wire))
      /\ SubSeq(wire, 1, i - 1) \in Seq(Messages) /\ SubSeq(wire, i + 1, Len(wire)) \in Seq(Messages)
  BY <1>1 DEF RemoveAt
<1>3. /\ Len(SubSeq(wire, 1, i - 1)) = i - 1
      /\ \A j \in 1..(i - 1) : SubSeq(wire, 1, i - 1)[j] = wire[j]
  BY <1>1
<1>4. /\ Len(SubSeq(wire, i + 1, Len(wire))) = Len(wire) - i
      /\ \A j \in 1..(Len(wire) - i) : SubSeq(wire, i + 1, Len(wire))[j] = wire[i + j]
  BY <1>1
<1> DEFINE p == SubSeq(wire, 1, i - 1)
           q == SubSeq(wire, i + 1, Len(wire))
<1>5. wire' = p \o q /\ p \in Seq(Messages) /\ q \in Seq(Messages)
  BY <1>2
<1>6. Len(p) = i - 1 /\ \A j \in 1..(i - 1) : p[j] = wire[j]
  BY <1>3
<1>7. Len(q) = Len(wire) - i /\ \A j \in 1..(Len(wire) - i) : q[j] = wire[i + j]
  BY <1>4
<1> HIDE DEF p, q
<1>8. /\ wire' \in Seq(Messages) /\ Len(wire') = Len(wire) - 1
      /\ \A j \in 1..(Len(wire) - 1) : wire'[j] = IF j <= i - 1 THEN p[j] ELSE q[j - (i - 1)]
  <2>1. Len(p) + Len(q) = Len(wire) - 1
    BY <1>1, <1>6, <1>7
  <2>2. /\ p \o q \in Seq(Messages) /\ Len(p \o q) = Len(p) + Len(q)
        /\ \A j \in 1..Len(p) + Len(q) : (p \o q)[j] = IF j <= Len(p) THEN p[j] ELSE q[j - Len(p)]
    BY <1>5, ConcatProperties
  <2> QED
    BY <1>5, <1>6, <2>1, <2>2
<1>9. ASSUME NEW j \in 1..(Len(wire) - 1) PROVE wire'[j].type # "reply"
  <2>1. CASE j <= i - 1
    BY <1>1, <1>6, <1>8, <2>1
  <2>2. CASE j >= i
    <3>1. wire'[j] = q[j - (i - 1)] /\ j - (i - 1) \in 1..(Len(wire) - i) /\ i + (j - (i - 1)) = j + 1
      BY <1>1, <1>8, <2>2
    <3>2. wire'[j] = wire[j + 1] /\ j + 1 \in 1..Len(wire) /\ j + 1 # i
      BY <1>1, <1>7, <2>2, <3>1
    <3> QED
      BY <1>1, <3>2
  <2> QED
    BY <1>1, <2>1, <2>2
<1>10. DOMAIN wire' = 1..(Len(wire) - 1)
  BY <1>1, <1>8
<1> QED
  BY <1>9, <1>10 DEF Responses

LEMMA NothingSent ==
    wire' = <<>> => Responses' = {}
BY DEF Responses

\* Without a request there is neither a reply nor a response under way.
LEMMA Unasked ==
    ASSUME Typed, Answers
    PROVE  /\ reply # Asked => Responses = {}
           /\ owner = NoOne => reply = NoReply
           /\ \A u \in Users : pc[u] \notin Asking \cup {"idle", "enter"} => reply = NoReply
           /\ NoReply # Asked /\ Failed # Asked /\ NoReply # Failed
<1>1. NoReply # Asked /\ Failed # Asked /\ NoReply # Failed
  BY ReplyParts
<1>2. reply # Asked => Responses = {}
  BY DEF Answers
<1>3. owner = NoOne => reply = NoReply
  BY OneConfigures DEF Answers, Asking
<1>4. \A u \in Users : pc[u] \notin Asking \cup {"idle", "enter"} => reply = NoReply
  BY OneConfigures DEF Answers, Asking
<1> QED
  BY <1>1, <1>2, <1>3, <1>4

LEMMA StepAnswers ==
    ASSUME Typed, Answers, [Next]_vars
    PROVE  Answers'
<1> USE DEF fields, caller, Goto
<1>1. CASE UNCHANGED <<pc, wire, reply>>
  BY <1>1 DEF Answers, Responses
<1>2. CASE reply' = NoReply /\ UNCHANGED wire /\ reply # Asked
  BY <1>2, Unasked DEF Answers, Responses
<1>3. ASSUME NEW k \in Keys, NEW v \in Values \cup {Absent}, Write(k, v) PROVE Answers'
  <2>1. store[k] \in Values \cup {Absent}
    BY DEF Typed, TypeOK
  <2>2. wire' = wire \o <<>> \/ wire' = wire \o Events(k, store[k], v)
    BY <1>3 DEF Write
  <2>3. wire' = wire \/ \E m \in Messages : m.type # "reply" /\ wire' = Append(wire, m)
    <3>1. wire \in Seq(Messages)
      BY DEF Typed, Coming
    <3>2. wire \o <<>> = wire /\ \A m \in Messages : wire \o <<m>> = Append(wire, m)
      BY <3>1, WireParts, AppendIsConcat
    <3>3. \/ Events(k, store[k], v) = <<>>
          \/ \E m \in Messages : m.type # "reply" /\ Events(k, store[k], v) = <<m>>
      BY <2>1, EventParts, MessageParts
    <3> QED
      BY <2>2, <3>2, <3>3
  <2>4. Responses' = Responses
    BY <2>3, OtherMessage DEF Typed, Coming, Responses
  <2> QED
    BY <1>3, <2>4 DEF Write, Answers
<1>4. CASE Truncate
  <2>1. Responses' = Responses
    BY <1>4, MessageParts, OtherMessage DEF Typed, Coming, Responses, Truncate
  <2> QED
    BY <1>4, <2>1 DEF Truncate, Answers
<1>5. CASE Die
  BY <1>5, NothingSent, Unasked DEF Die, Answers
<1>6. ASSUME NEW u \in Users, Timeout(u) PROVE Answers'
  <2>1. Responses' = {}
    BY <1>6, ResponseRemoved DEF Typed, Coming, Timeout, Answers, Responses
  <2> QED
    BY <1>6, <2>1, Unasked DEF Timeout, Awaits, Answers
<1>7. CASE Take
  <2>1. wire \in Seq(Messages) /\ wire # <<>> /\ wire' = Tail(wire) /\ UNCHANGED pc
    BY <1>7 DEF Take, Typed, Coming
  <2>2. CASE Head(wire).type = "reply"
    <3>1. Responses' = {}
      BY <2>1, <2>2, MessageTaken DEF Answers
    <3>2. reply = Asked
      BY <2>1, <2>2, MessageTaken DEF Answers
    <3> QED
      BY <2>1, <3>1, <3>2, Unasked DEF Answers
  <2>3. CASE Head(wire).type # "reply"
    <3>1. reply' = reply
      BY <1>7, <2>3 DEF Take, TakeTruncate, TakeEvent
    <3> QED
      BY <2>1, <3>1, MessageTaken DEF Answers
  <2> QED
    BY <2>2, <2>3
<1>8. ASSUME NEW u \in Users, Call(u) \/ Enter(u) \/ Switch(u) PROVE Answers'
  <2>1. UNCHANGED <<wire, reply>> /\ \A w \in Users : pc[w] \in Asking => pc'[w] = pc[w]
    <3>1. pc[u] \in {"idle", "enter"} /\ \E s \in Steps : pc' = [pc EXCEPT ![u] = s]
      BY <1>8, StepParts DEF Call, Enter, Switch, Begin
    <3> QED
      BY <1>8, <3>1, OneConfigures DEF Call, Enter, Switch, Asking
  <2> QED
    BY <2>1 DEF Answers, Responses
<1>9. ASSUME NEW u \in Users, Register(u) \/ SetConfigured(u) \/ Resolve(u) \/ SetSynchronized(u) PROVE Answers'
  <2>1. reply = NoReply /\ UNCHANGED <<wire, reply>>
    BY <1>9, Unasked DEF Register, SetConfigured, Resolve, SetSynchronized, Asking
  <2> QED
    BY <2>1, Unasked DEF Answers, Responses
<1>10. ASSUME NEW u \in Users, AskRemoves(u) \/ AskAdds(u) \/ AskLoad(u) \/ AskSync(u) PROVE Answers'
  <2>1. reply = NoReply /\ pc[u] \in Asking
    BY <1>10 DEF AskRemoves, AskAdds, AskLoad, AskSync, Asking
  <2>2. CASE UNCHANGED <<wire, reply>>
    BY <2>1, <2>2, Unasked DEF Answers, Responses
  <2>3. ASSUME NEW d \in Contents, Request(d), UNCHANGED pc PROVE Answers'
    <3>1. Responses' = {Len(wire) + 1}
      BY <2>1, <2>3, ResponseSent, Unasked DEF Typed, Coming
    <3> QED
      BY <2>1, <2>3, <3>1 DEF Request, Answers
  <2>4. Empty \in Contents /\ Result \in Contents /\ \A S \in SUBSET SyncKeys : Fetched(S) \in Contents
    BY DataParts DEF Typed, TypeOK, Contents
  <2>5. Present \in SUBSET SyncKeys /\ conf.keys \in SUBSET SyncKeys
    BY DEF SyncKeys, Present, Typed, Asks
  <2>6. UNCHANGED <<wire, reply>> \/ \E d \in Contents : Request(d) /\ UNCHANGED pc
    <3>1. CASE AskRemoves(u)
      BY <2>4, <3>1 DEF AskRemoves
    <3>2. CASE AskAdds(u)
      BY <2>4, <3>2 DEF AskAdds
    <3>3. CASE AskLoad(u)
      BY <2>4, <2>5, <3>3 DEF AskLoad
    <3>4. CASE AskSync(u)
      BY <2>4, <2>5, <3>4 DEF AskSync
    <3> QED
      BY <1>10, <3>1, <3>2, <3>3, <3>4
  <2> QED
    BY <2>2, <2>3, <2>6
<1>11. ASSUME NEW u \in Users, HasRemoves(u) \/ HasAdds(u) \/ HasLoad(u) \/ HasSync(u) PROVE Answers'
  BY <1>2, <1>11, ReplyParts DEF HasRemoves, HasAdds, HasLoad, HasSync, Answered
<1>12. ASSUME NEW u \in Users, Catch(u), reply # Asked PROVE Answers'
  BY <1>2, <1>12 DEF Catch
<1>13. ASSUME NEW u \in Users, CallerStep(u) PROVE Answers'
  <2>1. Unexpected(u) \/ Throw(u) => Catch(u) /\ reply # Asked
    BY Unasked DEF Unexpected, Throw, Asking
  <2> QED
    BY <1>9, <1>10, <1>11, <1>12, <1>13, <2>1 DEF CallerStep
<1>14. ASSUME NEW u \in Users, Refused(u) PROVE Answers'
  BY <1>12, <1>14, Unasked DEF Refused
<1>15. ASSUME NEW u \in Users, Release(u) PROVE Answers'
  BY <1>1, <1>15 DEF Release
<1>16. CASE Judge \/ Defer \/ Settle \/ Apply \/ Ensure \/ Read \/ Weigh \/ Note \/ TruncateLocal \/ EnterService
  BY <1>1, <1>16 DEF Judge, Defer, Settle, Apply, Ensure, Read, Weigh, Note, TruncateLocal, EnterService
<1>17. CASE Reconnect \/ Listener \/ UNCHANGED vars
  BY <1>1, <1>17 DEF Reconnect, Listener, NullCache, Disconnect, vars
<1> QED
  BY <1>3, <1>4, <1>5, <1>6, <1>7, <1>8, <1>13, <1>14, <1>15, <1>16, <1>17 DEF Next, ServiceStep

-----------------------------------------------------------------------------
(***************************************************************************)
(* The listeners.                                                          *)
(***************************************************************************)
\* The steps that leave the listeners alone, and what the configuration knows of them.
Listeners == <<listen, member, added, values, up>>

LEMMA Elsewhere ==
    ASSUME \/ \E k \in Keys, v \in Values \cup {Absent} : Write(k, v)
           \/ Truncate \/ NullCache \/ ServiceStep
           \/ \E u \in Users : Timeout(u) \/ AskSync(u)
           \/ UNCHANGED vars
    PROVE  UNCHANGED <<Listeners, state, pc, disc>>
<1> USE DEF peer, fields, caller, image, calls, Listeners
<1>1. CASE \E k \in Keys, v \in Values \cup {Absent} : Write(k, v)
  BY <1>1 DEF Write
<1>2. CASE Truncate \/ NullCache
  BY <1>2 DEF Truncate, NullCache
<1>3. CASE ServiceStep
  BY <1>3 DEF ServiceStep, Take, Judge, Defer, Settle, Apply, Ensure, Read, Weigh, Note, TruncateLocal
<1>4. CASE \E u \in Users : Timeout(u) \/ AskSync(u)
  BY <1>4 DEF Timeout, AskSync
<1>5. CASE UNCHANGED vars
  BY <1>5 DEF vars
<1> QED
  BY <1>1, <1>2, <1>3, <1>4, <1>5

LEMMA StepRegistered ==
    ASSUME Typed, Registered, [Next]_vars
    PROVE  Registered'
<1> USE OneConfigures DEF Registered, peer, fields, caller, image, calls, Goto, Configures
<1>1. CASE UNCHANGED <<Listeners, state, pc>>
  BY <1>1 DEF Listeners
<1>2. CASE Die
  BY <1>2 DEF Die, Silent
<1>3. CASE Reconnect \/ Disconnect
  BY <1>3 DEF Reconnect, Disconnect
<1>4. ASSUME NEW u \in Users, Call(u) PROVE Registered'
  BY <1>4 DEF Call
<1>5. ASSUME NEW u \in Users, Enter(u) \/ Switch(u) PROVE Registered'
  BY <1>5 DEF Enter, Switch, Begin
<1>6. ASSUME NEW u \in Users, Register(u) \/ AskRemoves(u) \/ HasRemoves(u) PROVE Registered'
  BY <1>6 DEF Register, AskRemoves, HasRemoves
<1>7. ASSUME NEW u \in Users, AskAdds(u) PROVE Registered'
  BY <1>7 DEF AskAdds
<1>8. ASSUME NEW u \in Users, HasAdds(u) PROVE Registered'
  BY <1>8 DEF HasAdds
<1>9. ASSUME NEW u \in Users, AskLoad(u) \/ HasLoad(u) \/ Resolve(u) \/ HasSync(u) PROVE Registered'
  BY <1>9 DEF AskLoad, HasLoad, Resolve, HasSync, Test
<1>10. ASSUME NEW u \in Users, SetConfigured(u) \/ SetSynchronized(u) PROVE Registered'
  BY <1>10 DEF SetConfigured, SetSynchronized
<1>11. ASSUME NEW u \in Users, Catch(u), pc[u] \notin {"idle", "enter"} PROVE Registered'
  <2>1. ~ up => ~ listen'.rem /\ listen'.add = "none"
    BY <1>11 DEF Catch, Unadded, ReleaseListeners, Silent, Typed, TypeOK
  <2>2. state' = "disconnected" /\ ((member' = member /\ added' = added) \/ added' = "none")
    BY <1>11 DEF Catch, ReleaseListeners, Abandons
  <2>3. \A w \in Users : pc'[w] \in {"idle", "enter"}
    BY <1>11 DEF Catch
  <2>4. up' = up
    BY <1>11 DEF Catch
  <2> QED
    BY <2>1, <2>2, <2>3, <2>4
<1>12. ASSUME NEW u \in Users, Release(u) PROVE Registered'
  BY <1>12 DEF Release, ReleaseListeners, Silent
<1>13. CASE EnterService
  BY <1>1, <1>13 DEF EnterService, Attempted, Silent, Typed, TypeOK, Listeners
<1>14. ASSUME NEW u \in Users, Unexpected(u) \/ Throw(u) \/ Refused(u) PROVE Registered'
  BY <1>11, <1>14 DEF Unexpected, Throw, Refused, Asking
<1>15. ASSUME NEW u \in Users, CallerStep(u), ~ AskSync(u) PROVE Registered'
  BY <1>6, <1>7, <1>8, <1>9, <1>10, <1>14, <1>15 DEF CallerStep
<1> QED
  BY <1>1, <1>2, <1>3, <1>4, <1>5, <1>12, <1>13, <1>14, <1>15, Elsewhere DEF Next, Listener

\* Once the cache was told that it is disconnected, only the next configuration makes it
\* forget: an assignment of changeState that hides the disconnection leaves a mark.
LEMMA StillTold ==
    ASSUME Typed, [Next]_vars, Told,
           \A u \in Users : ~ Enter(u) /\ ~ Switch(u)
    PROVE  Told'
<1> USE DEF Told, peer, fields, calls, history
<1>1. ASSUME UNCHANGED <<disc, state, marks>> PROVE Told'
  BY <1>1
<1>2. CASE state' = "disconnected"
  BY <1>2
<1>3. CASE Die
  BY <1>3 DEF Die
<1>4. ASSUME NEW u \in Users, SetConfigured(u) \/ SetSynchronized(u) PROVE Told'
  BY <1>4 DEF SetConfigured, SetSynchronized, Overwrites
<1>5. CASE Take \/ Weigh
  BY <1>5 DEF Take, TakeReply, TakeTruncate, TakeEvent, Weigh
<1>6. CASE ServiceStep
  BY <1>1, <1>5, <1>6 DEF ServiceStep, Judge, Defer, Settle, Apply, Ensure, Read, Note, TruncateLocal
<1>7. CASE EnterService
  BY <1>1, <1>7 DEF EnterService, Attempted
<1>8. ASSUME NEW u \in Users, Catch(u) \/ Release(u) PROVE Told'
  BY <1>2, <1>8 DEF Catch, Abandons, Release
<1>9. ASSUME NEW u \in Users, Call(u) \/ Timeout(u) \/ Refused(u) PROVE Told'
  BY <1>1, <1>8, <1>9 DEF Call, Timeout, Refused
<1>10. ASSUME NEW u \in Users, CallerStep(u) PROVE Told'
  BY <1>1, <1>4, <1>8, <1>10
     DEF CallerStep, Register, AskRemoves, HasRemoves, AskAdds, HasAdds, AskLoad, HasLoad, Resolve, AskSync,
         HasSync, Unexpected, Throw
<1>11. CASE Truncate \/ Reconnect \/ NullCache \/ UNCHANGED vars
  BY <1>1, <1>11 DEF Truncate, Reconnect, NullCache, vars
<1>12. CASE Disconnect
  BY <1>2, <1>12 DEF Disconnect
<1>13. ASSUME NEW k \in Keys, NEW v \in Values \cup {Absent}, Write(k, v) PROVE Told'
  BY <1>1, <1>13 DEF Write
<1> QED
  BY <1>1, <1>3, <1>6, <1>7, <1>8, <1>9, <1>10, <1>11, <1>12, <1>13 DEF Next, Listener

\* A step that registers no listener, configures nothing and gives no response keeps
\* Attentive.
LEMMA StillAttentive ==
    ASSUME Attentive, [Next]_vars, Typed, \A u \in Users : ~ Enter(u) /\ ~ Switch(u),
           UNCHANGED <<listen, values, state>>, Unfailed' => Unfailed,
           \A u \in Users : pc'[u] = pc[u] \/ pc'[u] \notin Configures
    PROVE  Attentive'
<1> USE DEF Attentive, Mode
<1>1. ~ Told' => ~ Told
  BY StillTold
<1>2. \A u \in Users : pc'[u] \in Configures => pc'[u] = pc[u]
  OBVIOUS
<1>3. Mode' = Mode /\ "removes" \in Configures /\ "adds" \in Configures
  BY DEF Configures
<1> QED
  BY <1>1, <1>2, <1>3

LEMMA StepAttentive ==
    ASSUME Typed, Staged, Answers, Registered, Attentive, [Next]_vars
    PROVE  Attentive'
<1> USE DEF peer, fields, caller, image, calls
<1>1. CASE state' = "disconnected"
  BY <1>1 DEF Attentive, Told
<1>2. ASSUME NEW u \in Users, Catch(u) \/ Release(u) PROVE Attentive'
  BY <1>1, <1>2 DEF Catch, Abandons, Release
<1>3. CASE Disconnect
  BY <1>1, <1>3 DEF Disconnect
<1>4. ASSUME NEW u \in Users, Enter(u) \/ Switch(u) PROVE Attentive'
  <2>1. CASE state' = "configuring"
    <3>1. reply' = NoReply /\ pc[u] \in {"idle", "enter"} /\ (\A w \in Users : pc[w] \notin Configures)
      BY <1>4, Unasked, OneConfigures DEF Enter, Switch, Begin, Configures
    <3>2. \A w \in Users : pc'[w] \in Configures => pc'[w] = "removes"
      BY <1>4, <3>1, OneConfigures DEF Enter, Switch, Begin, Goto, Configures
    <3>3. ~ Unfailed'
      BY <3>1, ReplyParts DEF Unfailed
    <3> QED
      BY <2>1, <3>2, <3>3 DEF Attentive, Configures
  <2>2. CASE state' # "configuring"
    <3>1. state = "synchronized" /\ UNCHANGED <<listen, values, state, disc, marks>>
      BY <1>4, <2>2 DEF Enter, Switch, Begin, history
    <3>2. \A w \in Users : pc[w] \notin Configures /\ pc'[w] \notin Configures
      BY <1>4, <2>2, OneConfigures DEF Enter, Switch, Begin, Goto, Configures
    <3> QED
      BY <3>1, <3>2 DEF Attentive, Told, Mode, Configures
  <2> QED
    BY <2>1, <2>2
<1> DEFINE Plain == \A u \in Users : ~ Enter(u) /\ ~ Switch(u)
<1>5. CASE Plain /\ UNCHANGED <<listen, values, state, pc>> /\ (Unfailed' => Unfailed)
  BY <1>5, StillAttentive
<1>6. CASE Take /\ Plain
  <2>1. UNCHANGED <<listen, values, state, pc>>
    BY <1>6, Elsewhere DEF ServiceStep, Listeners
  <2>2. CASE Head(wire).type = "reply"
    <3>1. reply = Asked
      BY <1>6, <2>2, MessageTaken DEF Answers, Take, Typed, Coming
    <3>2. Unfailed
      BY <3>1, ReplyParts DEF Unfailed
    <3> QED
      BY <1>5, <1>6, <2>1, <3>2
  <2>3. CASE Head(wire).type # "reply"
    <3>1. reply' = reply
      BY <1>6, <2>3 DEF Take, TakeTruncate, TakeEvent
    <3> QED
      BY <1>5, <1>6, <2>1, <3>1 DEF Unfailed
  <2> QED
    BY <2>2, <2>3
<1>7. CASE Plain /\ ServiceStep /\ ~ Take
  <2>1. reply' = reply
    BY <1>7 DEF ServiceStep, Judge, Defer, Settle, Apply, Ensure, Read, Weigh, Note, TruncateLocal
  <2> QED
    BY <1>5, <1>7, <2>1, Elsewhere DEF Unfailed, Listeners
<1>8. CASE Plain /\ (\/ \E k \in Keys, v \in Values \cup {Absent} : Write(k, v)
                     \/ Truncate \/ NullCache \/ UNCHANGED vars)
  <2>1. reply' = reply
    BY <1>8 DEF Write, Truncate, NullCache, vars
  <2> QED
    BY <1>5, <1>8, <2>1, Elsewhere DEF Unfailed, Listeners
<1>9. ASSUME Plain, NEW u \in Users, Timeout(u) \/ AskSync(u) PROVE Attentive'
  <2>1. CASE Timeout(u)
    <3>1. ~ Unfailed'
      BY <2>1, ReplyParts DEF Timeout, Unfailed
    <3> QED
      BY <1>5, <1>9, <2>1, <3>1, Elsewhere DEF Listeners
  <2>2. CASE AskSync(u)
    BY <2>2, OneConfigures, StillTold, <1>9 DEF AskSync, Attentive, Mode, Configures
  <2> QED
    BY <1>9, <2>1, <2>2
<1>10. CASE Plain /\ Reconnect
  BY <1>5, <1>10 DEF Reconnect, Unfailed
<1>11. CASE Plain /\ EnterService
  BY <1>1, <1>5, <1>11 DEF EnterService, Attempted, Unfailed
<1>12. ASSUME Plain, NEW u \in Users, Call(u) PROVE Attentive'
  BY <1>12, StillAttentive, OneConfigures DEF Call, Goto, Unfailed, Configures
<1>13. CASE Die
  <2>1. state' = state /\ pc' = pc /\ disc' = If(listen.trunc, "chan") \o If(member, "left")
    BY <1>13 DEF Die
  <2>2. CASE member
    <3>1. disc' # <<>>
      <4>1. <<>> \o <<"left">> # <<>> /\ <<"chan">> \o <<"left">> # <<>>
        BY DueNonempty
      <4> QED
        BY <2>1, <2>2, <4>1 DEF If
    <3> QED
      BY <3>1 DEF Attentive, Told
  <2>3. CASE ~ member
    BY <2>1, <2>3 DEF Attentive, Registered, Configures
  <2> QED
    BY <2>2, <2>3
\* The steps of the one caller that configures.
<1>14. ASSUME NEW u \in Users, pc[u] \notin {"idle", "enter"}
       PROVE  Plain /\ \A w \in Users : w # u => pc[w] \notin Configures
  BY <1>14, OneConfigures DEF Typed, TypeOK, Enter, Switch, Configures
<1>15. ASSUME NEW u \in Users, Register(u) PROVE Attentive'
  <2>1. reply' = NoReply /\ state' = state /\ pc' = [pc EXCEPT ![u] = "removes"]
    BY <1>15, Unasked DEF Register, Goto, Asking
  <2>2. ~ Unfailed' /\ state # "synchronized"
    BY <1>15, <2>1, ReplyParts DEF Unfailed, Staged, Register, Early
  <2> QED
    BY <1>14, <1>15, <2>1, <2>2, OneConfigures DEF Attentive, Register, Configures
<1>16. ASSUME NEW u \in Users, AskRemoves(u) \/ HasRemoves(u) \/ AskAdds(u) \/ HasAdds(u) PROVE Attentive'
  <2>1. Plain /\ pc[u] \in {"removes", "adds"} /\ state' = state /\ state # "synchronized" /\ values' = values
    BY <1>14, <1>16 DEF Staged, AskRemoves, HasRemoves, AskAdds, HasAdds, Early
  <2>2. ~ Told' => ~ Told
    BY <2>1, StillTold
  <2>3. CASE AskRemoves(u)
    BY <1>14, <2>1, <2>2, <2>3, OneConfigures, ReplyParts
       DEF Attentive, AskRemoves, Goto, Configures, Mode, Unfailed, Typed, TypeOK
  <2>4. CASE HasRemoves(u)
    BY <1>14, <2>1, <2>2, <2>4, OneConfigures, ReplyParts
       DEF Attentive, HasRemoves, Answered, Goto, Configures, Mode, Unfailed
  <2>5. CASE AskAdds(u)
    BY <1>14, <2>1, <2>2, <2>5, OneConfigures, ReplyParts
       DEF Attentive, AskAdds, Added, Goto, Configures, Mode, Unfailed, Typed, TypeOK
  <2>6. CASE HasAdds(u)
    BY <1>14, <2>1, <2>2, <2>6, OneConfigures, ReplyParts
       DEF Attentive, HasAdds, Answered, Goto, Configures, Mode, Unfailed, Typed, TypeOK
  <2> QED
    BY <1>16, <2>3, <2>4, <2>5, <2>6
<1>17. ASSUME NEW u \in Users, AskLoad(u) \/ HasLoad(u) \/ Resolve(u) \/ HasSync(u) \/ SetConfigured(u) \/ SetSynchronized(u)
       PROVE  Attentive'
  <2>1. Plain /\ pc[u] \in Configures \ {"removes", "adds"} /\ UNCHANGED <<listen, values>>
    BY <1>14, <1>17
       DEF AskLoad, HasLoad, Resolve, HasSync, SetConfigured, SetSynchronized, Configures
  <2>2. ~ Told' => ~ Told
    BY <2>1, StillTold
  <2>3. ~ Told' => listen'.rem /\ listen'.add = Mode'
    BY <2>1, <2>2 DEF Attentive, Mode
  <2>4. \A w \in Users : pc'[w] \notin {"removes", "adds"}
    BY <1>14, <1>17, <2>1, OneConfigures
       DEF AskLoad, HasLoad, Resolve, HasSync, SetConfigured, SetSynchronized, Test, Goto, Configures
  <2> QED
    BY <2>3, <2>4 DEF Attentive
<1>18. ASSUME NEW u \in Users, CallerStep(u) PROVE Attentive'
  <2>1. AskSync(u) => Plain
    BY <1>14 DEF AskSync
  <2> QED
    BY <1>2, <1>9, <1>15, <1>16, <1>17, <1>18, <2>1 DEF CallerStep, Unexpected, Throw
<1>19. ASSUME NEW u \in Users, Refused(u) PROVE Attentive'
  BY <1>2, <1>19 DEF Refused
<1>20. CASE ~ Plain
  BY <1>4, <1>20
<1>21. CASE Plain
  BY <1>2, <1>3, <1>6, <1>7, <1>8, <1>9, <1>10, <1>11, <1>12, <1>13, <1>18, <1>19, <1>21 DEF Next, Listener
<1> QED
  BY <1>20, <1>21

\* Once things are quiet, a cache that takes itself for synchronized has both its
\* listeners at the peer, whatever connections were lost on the way and whenever it was
\* told of them, unless a disconnection was overwritten (changeState).
THEOREM ListeningHolds == Spec => []Listening
<1> DEFINE Inv == Typed /\ Staged /\ Answers /\ Registered /\ Attentive
<1>1. Init => Inv
  <2> SUFFICES ASSUME Init PROVE Inv
    OBVIOUS
  <2>1. Staged /\ Attentive
    BY QueryConstants DEF Init, Staged, Early, Attentive, Configures
  <2>2. Answers /\ Registered
    BY QueryConstants DEF Init, Answers, Responses, Registered, Configures, Silent
  <2> QED
    BY <2>1, <2>2, InitTyped
<1>2. Inv /\ [Next]_vars => Inv'
  BY StepTyped, StepStaged, StepAnswers, StepRegistered, StepAttentive
<1>3. Inv => Listening
  BY DEF Attentive, Told, Listening, Quiet
<1> QED
  BY <1>1, <1>2, <1>3, PTL DEF Spec

-----------------------------------------------------------------------------
(***************************************************************************)
(* The image: what is known of each of its keys, unless the cache was told *)
(* that it is disconnected, or what the marks stand for has happened.      *)
(***************************************************************************)
Lapsed == state = "disconnected" \/ disc # <<>> \/ marks # {}

\* What the holder of the monitor does.
Doing == IF owner = NoOne THEN "idle" ELSE pc[owner]

\* How far the image is: to be kept, its contents asked for, to be filled with what
\* came, its deferred keys read again, done.
Keeping == /\ ~ conf.reload
           /\ \/ Doing \in {"removes", "adds"} /\ reply # Failed
              \/ Doing = "load" /\ reply = NoReply
Loading == Doing = "load" /\ reply = Asked
Filling == (Doing = "load" /\ Answered) \/ Doing \in {"setConfigured", "resolve"}
Syncing == Doing = "sync" /\ reply # Failed
Ready   == Doing \in {"setSynchronized", "idle"}
Known   == Keeping \/ Loading \/ Filling \/ Syncing \/ Ready

\* The messages about a key; while the contents are asked for, those behind the response.
Tells(m, k) == m.type = "truncate" \/ (m.type \in {"put", "remove"} /\ m.key = k)
Says(m)     == IF m.type = "put" THEN m.value ELSE Absent
Words(k)    == {i \in DOMAIN wire : Tells(wire[i], k)}
Pending(k)  == {i \in Words(k) : Loading => \A j \in Responses : j < i}

\* The service thread works on a message about the key.
OfKey    == {"judge", "defer", "settle", "apply"}
OfAll    == {"ensure", "enter", "read", "weigh", "truncate"}
Works(k) == ev.step \in OfAll \/ (ev.step \in OfKey /\ ev.key = k)
Worth    == IF ev.step \in OfKey THEN ev.value ELSE Absent

\* A value is right for a key; whether there is one is all that counts for an image that
\* has, or only had, no values.
Query(k)   == IF InQuery(store[k]) THEN store[k] ELSE Absent
Right(k, x) == IF values /\ ~ Keeping THEN x = Query(k) ELSE x = Absent <=> Query(k) = Absent

\* What the response brings, and what the image will have for the key.
Data == IF reply = Asked THEN {wire[i].data : i \in Responses} ELSE {reply.data}
Reread(x) == IF InQuery(x) THEN x ELSE Absent
Final(d, k) ==
    IF Doing = "load" THEN IF conf.reload \/ d[k] # Absent THEN d[k] ELSE local[k]
    ELSE IF k \in reqs THEN Reread(d[k]) ELSE local[k]
Rests(k) ==
    IF Doing = "sync" /\ reply = NoReply THEN IF k \in reqs THEN k \in conf.keys ELSE Right(k, local[k])
    ELSE IF Doing \in {"load", "sync"} /\ reply # NoReply THEN \A d \in Data : Right(k, Final(d, k))
    ELSE Right(k, local[k])

\* The key will be read again, or it was deferred too late.
Excused(k) ==
    \/ Keeping /\ k \in reqs \cup late
    \/ Loading /\ ~ conf.reload /\ (Words(k) # {} \/ Works(k) \/ k \in reqs \cup late)
    \/ Filling /\ k \in reqs \cup late
    \/ (Syncing \/ Ready) /\ k \in late

\* The last message about a key is right; without one, the one that is worked on; without
\* that, the image.
Tracked(k) ==
    Known =>
        /\ \A i \in Pending(k) : (\A j \in Pending(k) : j <= i) => Right(k, Says(wire[i]))
        /\ Pending(k) = {} =>
              IF Works(k) /\ ~ Loading THEN Right(k, Worth) ELSE Excused(k) \/ Rests(k)

\* The configuration under way.
Begun ==
    /\ Doing # "idle" => ref
    /\ Doing = "register" => conf.reload
    /\ Doing = "idle" => ~ conf.reload

\* Who keeps the image has the listeners of it; whoever has loaded it, those for what is cached.
Placed ==
    /\ Doing \in {"removes", "adds"} /\ ~ conf.reload =>
          listen.rem /\ listen.add # "none" /\ added # Mode /\ made
    /\ Doing \in {"load", "setConfigured", "resolve", "sync", "setSynchronized", "idle"} =>
          made /\ added = Mode

\* From the answer of the add listener on, events are judged by the map of this configuration.
Sure ==
    \/ Doing = "adds" /\ Answered /\ ~ conf.reload
    \/ Doing = "load" /\ (~ conf.reload \/ Answered)
    \/ Doing \in {"setConfigured", "resolve", "sync", "setSynchronized"}
Fresh ==
    Sure => /\ ev.step \in OfKey \cup {"idle", "ensure", "enter", "note"}
            /\ ev.step \in {"judge", "defer", "settle"} => ev.current
            /\ ev.step = "apply" => ev.key \notin reqs
            /\ Doing \in {"adds", "load"} => ev.step \notin {"settle", "apply"}

Held == Typed /\ Staged /\ Answers /\ Registered /\ Attentive /\ Begun

LEMMA DoingParts ==
    ASSUME Typed
    PROVE  /\ \A u \in Users : pc[u] \notin {"idle", "enter"} => owner = u /\ Doing = pc[u]
           /\ \A u \in Users : owner = u => Doing = pc[u] /\ pc[u] \notin {"idle", "enter"}
           /\ Doing = "idle" <=> owner = NoOne
           /\ Doing \in Steps \ {"enter"}
BY QueryConstants, StepParts DEF Typed, TypeOK, Trying, Doing

\* What a step of the holder of the monitor makes of it.
LEMMA DoingMoves ==
    ASSUME Typed, NEW u \in Users, owner' = u, NEW s, pc' = [pc EXCEPT ![u] = s]
    PROVE  Doing' = s
BY QueryConstants DEF Typed, TypeOK, Doing

LEMMA DoingStays ==
    ASSUME UNCHANGED <<owner, pc>>
    PROVE  Doing' = Doing
BY DEF Doing

\* The steps of a caller that does not configure.
LEMMA DoingAside ==
    ASSUME Typed, NEW u \in Users, owner' = owner, owner # u, NEW s, pc' = [pc EXCEPT ![u] = s]
    PROVE  Doing' = Doing
BY QueryConstants DEF Typed, TypeOK, Doing

\* Where a step of the configuration starts and where it leads.
LEMMA DoingSteps ==
    ASSUME Typed, NEW u \in Users
    PROVE  /\ Register(u) => Doing = "register" /\ Doing' = "removes"
           /\ AskRemoves(u) => Doing = "removes" /\ Doing' = (IF listen.rem THEN "adds" ELSE "removes")
           /\ HasRemoves(u) => Doing = "removes" /\ Doing' = "adds"
           /\ AskAdds(u) => Doing = "adds" /\ Doing' = (IF Added THEN "load" ELSE "adds")
           /\ HasAdds(u) => Doing = "adds" /\ Doing' = "load"
           /\ AskLoad(u) => Doing = "load" /\ Doing' = (IF conf.reload \/ values THEN "load"
                               ELSE IF state = "configuring" THEN "setConfigured" ELSE "unexpected")
           /\ HasLoad(u) => Doing = "load" /\ Doing' = (IF state = "configuring" THEN "setConfigured" ELSE "unexpected")
           /\ SetConfigured(u) => Doing = "setConfigured" /\ Doing' = "resolve"
           /\ Resolve(u) => Doing = "resolve" /\ Doing' = (IF reqs # {} THEN "sync"
                               ELSE IF state = "configured" THEN "setSynchronized" ELSE "unexpected")
           /\ AskSync(u) => Doing = "sync" /\ Doing' = "sync"
           /\ HasSync(u) => Doing = "sync" /\ Doing' = (IF state = "configured" THEN "setSynchronized" ELSE "unexpected")
           /\ SetSynchronized(u) => Doing = "setSynchronized" /\ Doing' = "idle"
           /\ Call(u) => Doing' = Doing
           /\ Timeout(u) => Doing' = Doing /\ Doing # "idle"
           /\ Catch(u) => Doing' = "idle"
           /\ Release(u) => Doing = "idle" /\ Doing' = "idle"
<1> USE DoingParts, DoingMoves, DoingStays, DoingAside DEF Goto, Test, caller
<1>1. Register(u) => Doing = "register" /\ Doing' = "removes"
  BY DEF Register
<1>2. AskRemoves(u) => Doing = "removes" /\ Doing' = (IF listen.rem THEN "adds" ELSE "removes")
  BY DEF AskRemoves
<1>3. HasRemoves(u) => Doing = "removes" /\ Doing' = "adds"
  BY DEF HasRemoves
<1>4. AskAdds(u) => Doing = "adds" /\ Doing' = (IF Added THEN "load" ELSE "adds")
  BY DEF AskAdds
<1>5. HasAdds(u) => Doing = "adds" /\ Doing' = "load"
  BY DEF HasAdds
<1>6. AskLoad(u) => Doing = "load" /\ Doing' = (IF conf.reload \/ values THEN "load"
                               ELSE IF state = "configuring" THEN "setConfigured" ELSE "unexpected")
  BY DEF AskLoad
<1>7. HasLoad(u) => Doing = "load" /\ Doing' = (IF state = "configuring" THEN "setConfigured" ELSE "unexpected")
  <2>1. HasLoad(u) => pc[u] = "load" /\ owner' = owner /\ pc' = [pc EXCEPT ![u] = IF state = "configuring" THEN "setConfigured" ELSE "unexpected"]
    BY DEF HasLoad
  <2>2. HasLoad(u) => Doing = "load" /\ owner = u
    BY <2>1
  <2> QED
    BY <2>1, <2>2
<1>8. SetConfigured(u) => Doing = "setConfigured" /\ Doing' = "resolve"
  BY DEF SetConfigured
<1>9. Resolve(u) => Doing = "resolve" /\ Doing' = (IF reqs # {} THEN "sync"
                               ELSE IF state = "configured" THEN "setSynchronized" ELSE "unexpected")
  BY DEF Resolve
<1>10. AskSync(u) => Doing = "sync" /\ Doing' = "sync"
  BY DEF AskSync
<1>11. HasSync(u) => Doing = "sync" /\ Doing' = (IF state = "configured" THEN "setSynchronized" ELSE "unexpected")
  <2>1. HasSync(u) => pc[u] = "sync" /\ owner' = owner /\ pc' = [pc EXCEPT ![u] = IF state = "configured" THEN "setSynchronized" ELSE "unexpected"]
    BY DEF HasSync
  <2>2. HasSync(u) => Doing = "sync" /\ owner = u
    BY <2>1
  <2> QED
    BY <2>1, <2>2
<1>12. SetSynchronized(u) => Doing = "setSynchronized" /\ Doing' = "idle"
  BY DEF SetSynchronized, Doing
<1>13. Call(u) => Doing' = Doing
  BY DEF Call
<1>14. Timeout(u) => Doing' = Doing /\ Doing # "idle"
  BY DEF Timeout, Awaits
<1>15. Catch(u) => Doing' = "idle"
  BY DEF Catch, Doing
<1>16. Release(u) => Doing = "idle" /\ Doing' = "idle"
  BY DEF Release
<1> QED
  BY <1>1, <1>2, <1>3, <1>4, <1>5, <1>6, <1>7, <1>8, <1>9, <1>10, <1>11, <1>12, <1>13, <1>14, <1>15, <1>16

\* Entering the monitor and a switch begin a configuration, or leave all as it is.
LEMMA Begins ==
    ASSUME Typed, NEW u \in Users, Enter(u) \/ Switch(u)
    PROVE  /\ owner = NoOne /\ Doing = "idle"
           /\ \/ Enter(u) /\ UNCHANGED <<fields, ev, conf, history, wire, image, peer, reply, disc, Doing>>
              \/ /\ Doing' = (IF added = "none" THEN "register" ELSE "removes")
                 /\ ref' /\ reqs' = {} /\ ev' = [ev EXCEPT !.current = FALSE]
                 /\ UNCHANGED <<wire, peer, local, made, added, reply, disc>>
                 /\ conf'.reload = (added = "none" \/ Enter(u))
                 /\ ~ conf'.reload => /\ values' = ~ values /\ late' = late
                                      /\ marks' = IF state = "disconnected" THEN marks \cup {"kept"} ELSE marks
<1> USE DoingParts DEF Goto, Begin, fields, image, peer, history, calls, caller, NoConf
<1>1. CASE Enter(u) /\ state = "synchronized" /\ pc' = [pc EXCEPT ![u] = "idle"]
  <2>1. owner' = owner /\ owner = NoOne /\ Doing' = Doing
    BY <1>1, DoingAside, QueryConstants, OneConfigures DEF Enter, Doing
  <2> QED
    BY <1>1, <2>1 DEF Enter
<1>2. CASE Enter(u) /\ state = "disconnected" /\ Begin(u, TRUE)
  <2>1. Doing' = (IF added = "none" THEN "register" ELSE "removes")
    BY <1>2, DoingMoves DEF Enter
  <2>2. conf' = [NoConf EXCEPT !.reload = TRUE]
    BY <1>2
  <2> QED
    BY <1>2, <2>1, <2>2 DEF Enter
<1>3. CASE Switch(u)
  <2>1. Doing' = (IF added = "none" THEN "register" ELSE "removes")
    BY <1>3, DoingMoves DEF Switch
  <2>2. ~ Enter(u)
    BY <1>3 DEF Switch, Enter
  <2>3. conf' = [NoConf EXCEPT !.reload = (added = "none")]
    BY <1>3 DEF Switch
  <2> QED
    BY <1>3, <2>1, <2>2, <2>3 DEF Switch
<1> QED
  BY <1>1, <1>2, <1>3 DEF Enter
\* Only a configuration that reloads the image ends a lapse.
LEMMA StillLapsed ==
    ASSUME Typed, [Next]_vars, Lapsed
    PROVE  Lapsed' \/ (Doing' \in {"register", "removes"} /\ conf'.reload)
<1> USE DEF Lapsed, peer, fields, calls, history
<1>1. ASSUME UNCHANGED <<disc, state, marks>> PROVE Lapsed'
  BY <1>1
<1>2. CASE state' = "disconnected"
  BY <1>2
<1>3. CASE Die
  BY <1>3, Z3 DEF Die
<1>4. ASSUME NEW u \in Users, SetConfigured(u) \/ SetSynchronized(u) PROVE Lapsed'
  BY <1>4 DEF SetConfigured, SetSynchronized, Overwrites
<1>5. CASE Take \/ Weigh
  BY <1>5 DEF Take, TakeReply, TakeTruncate, TakeEvent, Weigh
<1>6. CASE ServiceStep
  BY <1>1, <1>5, <1>6 DEF ServiceStep, Judge, Defer, Settle, Apply, Ensure, Read, Note, TruncateLocal
<1>7. CASE EnterService
  BY <1>1, <1>7 DEF EnterService, Attempted
<1>8. ASSUME NEW u \in Users, Catch(u) \/ Release(u) PROVE Lapsed'
  BY <1>2, <1>8 DEF Catch, Abandons, Release
<1>9. ASSUME NEW u \in Users, Call(u) \/ Timeout(u) \/ Refused(u) PROVE Lapsed'
  BY <1>1, <1>8, <1>9 DEF Call, Timeout, Refused
<1>10. ASSUME NEW u \in Users, CallerStep(u) PROVE Lapsed'
  BY <1>1, <1>4, <1>8, <1>10
     DEF CallerStep, Register, AskRemoves, HasRemoves, AskAdds, HasAdds, AskLoad, HasLoad, Resolve, AskSync,
         HasSync, Unexpected, Throw
<1>11. CASE Truncate \/ Reconnect \/ NullCache \/ UNCHANGED vars
  BY <1>1, <1>11 DEF Truncate, Reconnect, NullCache, vars
<1>12. CASE Disconnect
  BY <1>2, <1>12 DEF Disconnect
<1>13. ASSUME NEW k \in Keys, NEW v \in Values \cup {Absent}, Write(k, v) PROVE Lapsed'
  BY <1>1, <1>13 DEF Write
<1>14. ASSUME NEW u \in Users, Enter(u) \/ Switch(u)
       PROVE  Lapsed' \/ (Doing' \in {"register", "removes"} /\ conf'.reload)
  BY <1>1, <1>14, Begins
<1> QED
  BY <1>1, <1>3, <1>6, <1>7, <1>8, <1>9, <1>10, <1>11, <1>12, <1>13, <1>14 DEF Next, Listener

\* The steps of the others leave the configuration alone.
Config == <<owner, pc, conf>>
LEMMA ConfigStays ==
    ASSUME \/ \E k \in Keys, v \in Values \cup {Absent} : Write(k, v)
           \/ Truncate \/ Die \/ Reconnect \/ Listener \/ ServiceStep \/ EnterService
           \/ UNCHANGED vars
    PROVE  UNCHANGED Config /\ Doing' = Doing /\ (ref => ref')
<1> USE DoingStays DEF peer, fields, caller, image, calls, Config
<1>1. CASE \E k \in Keys, v \in Values \cup {Absent} : Write(k, v)
  BY <1>1 DEF Write
<1>2. CASE Truncate \/ Die \/ Reconnect \/ Listener
  BY <1>2 DEF Truncate, Die, Reconnect, Listener, NullCache, Disconnect
<1>3. CASE ServiceStep
  BY <1>3 DEF ServiceStep, Take, Judge, Defer, Settle, Apply, Ensure, Read, Weigh, Note, TruncateLocal
<1>4. CASE EnterService
  BY <1>4 DEF EnterService, Attempted
<1>5. CASE UNCHANGED vars
  BY <1>5 DEF vars
<1> QED
  BY <1>1, <1>2, <1>3, <1>4, <1>5

LEMMA StepBegun ==
    ASSUME Typed, Begun, [Next]_vars
    PROVE  Begun'
<1> USE DoingSteps DEF Begun, fields, caller, image, NoConf
<1>1. ASSUME UNCHANGED conf, Doing' = Doing, ref => ref' PROVE Begun'
  BY <1>1
<1>2. ASSUME NEW u \in Users, Enter(u) \/ Switch(u) PROVE Begun'
  BY <1>1, <1>2, Begins
<1>3. ASSUME NEW u \in Users, Catch(u) PROVE Begun'
  BY <1>3 DEF Catch
<1>4. ASSUME NEW u \in Users, Call(u) \/ Release(u) \/ Timeout(u) PROVE Begun'
  BY <1>1, <1>4 DEF Call, Release, Timeout
<1>5. ASSUME NEW u \in Users, SetSynchronized(u) PROVE Begun'
  BY <1>5 DEF SetSynchronized
<1>6. ASSUME NEW u \in Users, Register(u) \/ AskRemoves(u) \/ HasRemoves(u) \/ HasAdds(u) PROVE Begun'
  BY <1>6 DEF Register, AskRemoves, HasRemoves, HasAdds
<1>7. ASSUME NEW u \in Users, AskAdds(u) \/ Resolve(u) PROVE Begun'
  BY <1>7 DEF AskAdds, Resolve
<1>8. ASSUME NEW u \in Users, AskLoad(u) \/ HasLoad(u) \/ SetConfigured(u) \/ AskSync(u) \/ HasSync(u) PROVE Begun'
  BY <1>8 DEF AskLoad, HasLoad, SetConfigured, AskSync, HasSync
<1>9. ASSUME NEW u \in Users, CallerStep(u) \/ Refused(u) PROVE Begun'
  BY <1>3, <1>5, <1>6, <1>7, <1>8, <1>9 DEF CallerStep, Unexpected, Throw, Refused
<1> QED
  BY <1>1, <1>2, <1>4, <1>9, ConfigStays DEF Next, Config

\* The steps that leave the listeners and the map alone.
LEMMA PlacesStay ==
    ASSUME \/ \E k \in Keys, v \in Values \cup {Absent} : Write(k, v)
           \/ Truncate \/ Reconnect \/ Listener \/ ServiceStep
           \/ UNCHANGED vars
    PROVE  UNCHANGED <<listen, added, values, made, conf, Doing>>
<1> USE ConfigStays DEF peer, fields, caller, image, calls, Config
<1>1. CASE \E k \in Keys, v \in Values \cup {Absent} : Write(k, v)
  BY <1>1 DEF Write
<1>2. CASE Truncate \/ Reconnect \/ Listener
  BY <1>2 DEF Truncate, Reconnect, Listener, NullCache, Disconnect
<1>3. CASE ServiceStep
  BY <1>3 DEF ServiceStep, Take, Judge, Defer, Settle, Apply, Ensure, Read, Weigh, Note, TruncateLocal
<1>4. CASE UNCHANGED vars
  BY <1>4 DEF vars
<1> QED
  BY <1>1, <1>2, <1>3, <1>4

\* Without a lapse the cache is synchronized when nobody configures it.
LEMMA Lasting ==
    ASSUME Held, ~ Lapsed
    PROVE  /\ Doing = "idle" => state = "synchronized" /\ listen.rem /\ listen.add = Mode /\ member
           /\ Doing \in Configures => member
           /\ Doing \in Configures \ {"removes"} => listen.rem
           /\ Doing \in Configures \ {"removes", "adds"} => listen.add = Mode
           /\ Doing \in {"removes", "adds", "load", "setConfigured"} => state = "configuring"
           /\ Doing \in {"resolve", "sync", "setSynchronized"} => state = "configured"
           /\ ~ Told
<1>1. ~ Told
  BY DEF Lapsed, Told
<1>2. CASE Doing = "idle"
  BY <1>1, <1>2, DoingParts DEF Held, Staged, Attentive, Registered, Lapsed, Configures
<1>3. CASE Doing # "idle"
  <2>1. PICK u \in Users : owner = u /\ pc[u] = Doing
    BY <1>3, DoingParts DEF Held, Typed, TypeOK
  <2>2. (Doing \in {"removes", "adds", "load", "setConfigured"} => state = "configuring")
        /\ (Doing \in {"resolve", "sync", "setSynchronized"} => state = "configured")
    BY <2>1 DEF Held, Staged, Early, Lapsed
  <2>3. /\ Doing \in Configures => member
        /\ Doing \in Configures \ {"removes"} => listen.rem
        /\ Doing \in Configures \ {"removes", "adds"} => listen.add = Mode
    BY <1>1, <2>1 DEF Held, Attentive, Registered
  <2> QED
    BY <1>1, <1>3, <2>2, <2>3
<1> QED
  BY <1>2, <1>3

\* The loss of a connection is a lapse, unless there is nothing to lose.
LEMMA DieLapses ==
    ASSUME Typed, Die, member
    PROVE  Lapsed'
<1>1. disc' = If(listen.trunc, "chan") \o If(member, "left")
  BY DEF Die
<1>2. <<>> \o <<"left">> # <<>> /\ <<"chan">> \o <<"left">> # <<>>
  BY DueNonempty
<1>3. disc' # <<>>
  BY <1>1, <1>2 DEF If
<1> QED
  BY <1>3 DEF Lapsed

LEMMA StepPlaced ==
    ASSUME Held, ~ Lapsed => Placed, [Next]_vars, ~ Lapsed'
    PROVE  Placed'
<1> USE DEF Held
<1>1. CASE Doing' = "register" \/ (Doing' = "removes" /\ conf'.reload)
  BY <1>1 DEF Placed
<1>2. CASE ~ (Doing' = "register" \/ (Doing' = "removes" /\ conf'.reload))
  <2>1. ~ Lapsed /\ Placed
    BY <1>2, StillLapsed
  <2> USE DoingSteps, Lasting DEF Placed, fields, caller, image, peer, Mode
  <2>2. ASSUME UNCHANGED <<listen, added, values, made, conf, Doing>> PROVE Placed'
    BY <2>1, <2>2
  <2>3. CASE Die
    <3>1. ~ member /\ Doing' = Doing /\ Doing \notin Configures \cup {"idle"}
      BY <2>1, <2>3, DieLapses, ConfigStays
    <3> QED
      BY <3>1 DEF Configures
  <2>4. CASE EnterService
    BY <2>1, <2>2, <2>4, ConfigStays DEF EnterService, Lapsed, Config
  <2>5. ASSUME NEW u \in Users, Enter(u) \/ Switch(u) PROVE Placed'
    <3>1. Doing = "idle" /\ made /\ added = Mode /\ listen.rem /\ listen.add = Mode
      BY <2>1, <2>5, Begins
    <3>2. CASE Doing' = Doing /\ UNCHANGED <<image, peer, conf>>
      BY <2>2, <3>2
    <3>3. CASE /\ Doing' = (IF added = "none" THEN "register" ELSE "removes")
               /\ UNCHANGED <<peer, made, added>> /\ (~ conf'.reload => values' = ~ values)
      <4>1. values \in BOOLEAN
        BY DEF Typed, TypeOK
      <4> QED
        BY <1>2, <3>1, <3>3, <4>1
    <3> QED
      BY <2>5, <3>2, <3>3, Begins
  <2>6. ASSUME NEW u \in Users, Catch(u) \/ Release(u) PROVE Placed'
    BY <2>6 DEF Catch, Release, Abandons, Lapsed
  <2>7. ASSUME NEW u \in Users, Call(u) \/ Timeout(u) PROVE Placed'
    BY <2>1, <2>2, <2>7 DEF Call, Timeout
  <2>8. ASSUME NEW u \in Users, Register(u) PROVE Placed'
    <3>1. conf'.reload
      BY <2>8 DEF Register, Begun
    <3> QED
      BY <2>8, <1>2, <3>1
  <2>9. ASSUME NEW u \in Users, AskRemoves(u) \/ HasRemoves(u) PROVE Placed'
    BY <2>1, <2>9 DEF AskRemoves, HasRemoves, Typed, TypeOK
  <2>10. ASSUME NEW u \in Users, AskAdds(u) PROVE Placed'
    <3>1. CASE Added
      BY <2>1, <2>10, <3>1 DEF AskAdds, Added
    <3>2. CASE ~ Added
      <4>1. listen'.rem = listen.rem /\ listen'.add # "none" /\ conf'.reload = conf.reload
        BY <2>10, <3>2 DEF AskAdds, Typed, TypeOK, Asks, Modes
      <4> QED
        BY <2>1, <2>10, <3>2, <4>1 DEF AskAdds
    <3> QED
      BY <3>1, <3>2
  <2>11. ASSUME NEW u \in Users, HasAdds(u) PROVE Placed'
    BY <2>1, <2>11 DEF HasAdds
  <2>12. ASSUME NEW u \in Users, AskLoad(u) \/ HasLoad(u) \/ SetConfigured(u) \/ Resolve(u) \/ AskSync(u) \/ HasSync(u)
                                 \/ SetSynchronized(u)
         PROVE  Placed'
    <3>1. Doing \in {"load", "setConfigured", "resolve", "sync", "setSynchronized"} /\ UNCHANGED <<made, added, values>>
      BY <2>12 DEF AskLoad, HasLoad, SetConfigured, Resolve, AskSync, HasSync, SetSynchronized
    <3>2. Doing' \notin {"removes", "adds"}
      BY <2>12
    <3> QED
      BY <2>1, <3>1, <3>2
  <2>13. ASSUME NEW u \in Users, CallerStep(u) \/ Refused(u) PROVE Placed'
    BY <2>6, <2>8, <2>9, <2>10, <2>11, <2>12, <2>13 DEF CallerStep, Unexpected, Throw, Refused
  <2> QED
    BY <2>2, <2>3, <2>4, <2>5, <2>6, <2>7, <2>13, PlacesStay DEF Next
<1> QED
  BY <1>1, <1>2

\* What can be unsure of an event that the service thread works on.
LEMMA FreshStays ==
    ASSUME Fresh, Sure' => Sure, Doing' \in {"adds", "load"} => Doing \in {"adds", "load"},
           UNCHANGED <<ev, reqs>>
    PROVE  Fresh'
BY DEF Fresh

LEMMA StepFresh ==
    ASSUME Held, ~ Lapsed => Placed /\ Fresh, [Next]_vars, ~ Lapsed'
    PROVE  Fresh'
<1>1. CASE ~ Sure'
  BY <1>1 DEF Fresh
<1>2. CASE Sure'
  <2>1. ~ Lapsed /\ Placed /\ Fresh
    BY <1>2, StillLapsed DEF Sure, Held
  <2>2. /\ Doing \in {"adds", "load", "setConfigured", "removes"} => state = "configuring"
        /\ Doing \in {"resolve", "sync", "setSynchronized"} => state = "configured"
        /\ ref \/ Doing = "idle"
        /\ (ev.step \in {"judge", "defer", "settle", "apply"} => ev.key \in Keys) /\ ev \in Handlings
    BY <2>1, Lasting DEF Held, Begun, Typed, Handled
  <2> USE DoingSteps DEF Held, fields, caller, image, peer
  <2>3. ASSUME UNCHANGED <<ev, reqs, reply, conf, Doing>> PROVE Fresh'
    BY <2>1, <2>3, FreshStays DEF Sure, Answered
  <2>4. ASSUME NEW k \in Keys, NEW v \in Values \cup {Absent}, Write(k, v) PROVE Fresh'
    BY <2>3, <2>4, ConfigStays DEF Write, Config
  <2>5. CASE Truncate \/ Reconnect \/ Listener
    BY <2>3, <2>5, ConfigStays DEF Truncate, Reconnect, Listener, NullCache, Disconnect, Config
  <2>6. CASE Die
    <3>1. Doing' = Doing /\ UNCHANGED <<ev, reqs, conf>> /\ (reply' = reply \/ reply' = Failed)
      BY <2>6, ConfigStays DEF Die, Config
    <3>2. ~ Failed.status = "ok"
      BY ReplyParts
    <3> QED
      BY <2>1, <3>1, <3>2, FreshStays DEF Sure, Answered
  <2>7. CASE EnterService
    BY <1>2, <2>1, <2>7, ConfigStays, DoingParts DEF EnterService, Sure
  <2>8. ASSUME NEW u \in Users, Enter(u) \/ Switch(u) PROVE Fresh'
    BY <1>2, <2>8, Begins DEF Sure
  <2>9. ASSUME NEW u \in Users, Catch(u) \/ Release(u) PROVE Fresh'
    BY <1>2, <2>9 DEF Sure
  <2>10. ASSUME NEW u \in Users, Call(u) PROVE Fresh'
    BY <2>3, <2>10 DEF Call
  <2>11. ASSUME NEW u \in Users, Timeout(u) PROVE Fresh'
    <3>1. Doing' = Doing /\ UNCHANGED <<ev, reqs, conf>> /\ reply' = Failed
      BY <2>11 DEF Timeout
    <3>2. ~ Failed.status = "ok"
      BY ReplyParts
    <3> QED
      BY <2>1, <3>1, <3>2, FreshStays DEF Sure, Answered
  <2>12. ASSUME NEW u \in Users, Register(u) \/ AskRemoves(u) \/ HasRemoves(u) PROVE Fresh'
    <3>1. Doing' \in {"removes", "adds"} /\ (Doing' = "adds" => reply' = NoReply)
      BY <2>12 DEF AskRemoves, HasRemoves
    <3> QED
      BY <1>2, <3>1, ReplyParts DEF Sure, Answered
  <2>13. ASSUME NEW u \in Users, AskAdds(u) PROVE Fresh'
    <3>1. CASE Added
      <4>1. Doing' = "load" /\ reply' = NoReply /\ conf'.reload
        BY <2>1, <2>13, <3>1 DEF AskAdds, Added, Placed
      <4> QED
        BY <1>2, <4>1, ReplyParts DEF Sure, Answered
    <3>2. CASE ~ Added
      <4>1. Doing' = "adds" /\ reply' = Asked
        BY <2>13, <3>2 DEF AskAdds, Request
      <4> QED
        BY <1>2, <4>1, ReplyParts DEF Sure, Answered
    <3> QED
      BY <3>1, <3>2
  <2>14. ASSUME NEW u \in Users, HasAdds(u) PROVE Fresh'
    <3>1. Doing = "adds" /\ Doing' = "load" /\ Answered /\ reply' = NoReply /\ UNCHANGED <<conf, ev, reqs>>
      BY <2>14 DEF HasAdds
    <3>2. Sure
      BY <1>2, <3>1, ReplyParts DEF Sure, Answered
    <3> QED
      BY <2>1, <3>1, <3>2, FreshStays
  <2>15. ASSUME NEW u \in Users, AskLoad(u) PROVE Fresh'
    <3>1. CASE conf.reload
      <4>1. Doing' = "load" /\ reply' = Asked /\ conf'.reload
        BY <2>15, <3>1 DEF AskLoad, Request
      <4> QED
        BY <1>2, <4>1, ReplyParts DEF Sure, Answered
    <3>2. CASE ~ conf.reload
      <4>1. Sure /\ Doing = "load" /\ UNCHANGED <<ev, reqs>>
        BY <2>15, <3>2 DEF AskLoad, Sure
      <4> QED
        BY <2>1, <4>1, FreshStays
    <3> QED
      BY <3>1, <3>2
  <2>16. ASSUME NEW u \in Users, HasLoad(u) \/ SetConfigured(u) \/ Resolve(u) \/ AskSync(u) PROVE Fresh'
    <3>1. /\ Doing' \notin {"adds", "load"} /\ UNCHANGED <<ev, reqs>> /\ Sure
      BY <2>16 DEF HasLoad, SetConfigured, Resolve, AskSync, Sure
    <3> QED
      BY <2>1, <3>1, FreshStays
  <2>17. ASSUME NEW u \in Users, HasSync(u) \/ SetSynchronized(u) PROVE Fresh'
    <3>1. Doing' \notin {"adds", "load"} /\ UNCHANGED ev /\ (reqs' = reqs \/ reqs' = {}) /\ Sure
      BY <2>17 DEF HasSync, SetSynchronized, Sure
    <3> QED
      BY <2>1, <3>1 DEF Fresh
  <2>18. ASSUME NEW u \in Users, CallerStep(u) \/ Refused(u) PROVE Fresh'
    BY <2>9, <2>12, <2>13, <2>14, <2>15, <2>16, <2>17, <2>18 DEF CallerStep, Unexpected, Throw, Refused
  <2>19. CASE Take
    <3>1. Doing' = Doing /\ UNCHANGED <<reqs, state, ref, conf>> /\ Doing # "idle"
      <4>1. Doing' = Doing /\ UNCHANGED <<reqs, state, ref, conf>>
        BY <2>19, ConfigStays DEF Take, ServiceStep, Config
      <4> QED
        BY <1>2, <4>1 DEF Sure
    <3>2. CASE Head(wire).type = "reply"
      <4>1. ev' = ev /\ ev.step = "idle"
        BY <2>19, <3>2 DEF Take, TakeReply
      <4> QED
        BY <4>1 DEF Fresh, OfKey
    <3>3. CASE Head(wire).type = "truncate"
      <4>1. ev'.step \in {"idle", "ensure"}
        BY <2>19, <3>3 DEF Take, TakeTruncate, Rest
      <4> QED
        BY <4>1 DEF Fresh, OfKey
    <3>4. CASE Head(wire).type \notin {"reply", "truncate"}
      <4>1. ref
        BY <2>2, <3>1
      <4>2. ev'.step = "idle" \/ (ev'.step = "judge" /\ ev'.current)
        BY <2>19, <3>4, <4>1 DEF Take, TakeEvent, Rest
      <4> QED
        BY <4>2 DEF Fresh, OfKey
    <3> QED
      BY <3>2, <3>3, <3>4
  <2>20. CASE ServiceStep /\ ~ Take
    <3>1. Doing' = Doing /\ UNCHANGED <<conf, reply>> /\ Sure
      <4>1. reply' = reply
        BY <2>20 DEF ServiceStep, Judge, Defer, Settle, Apply, Ensure, Read, Weigh, Note, TruncateLocal
      <4> QED
        BY <1>2, <2>20, <4>1, ConfigStays DEF Sure, Answered, Config
    <3>2. /\ ev.step \in OfKey \cup {"idle", "ensure", "enter", "note"}
          /\ ev.step \in {"judge", "defer", "settle"} => ev.current
          /\ ev.step = "apply" => ev.key \notin reqs
          /\ Doing \in {"adds", "load"} => ev.step \notin {"settle", "apply"}
      BY <2>1, <3>1 DEF Fresh
    <3>3. ASSUME ev'.step = "idle" PROVE Fresh'
      BY <3>3 DEF Fresh, OfKey
    <3>4. CASE Judge
      BY <2>2, <3>1, <3>2, <3>4 DEF Judge, Handles, Unready, Fresh, OfKey, Handlings
    <3>5. CASE Settle
      BY <2>2, <3>1, <3>2, <3>5 DEF Settle, Handles, Fresh, OfKey, Handlings
    <3>6. CASE Ensure
      <4>1. state # "synchronized"
        BY <2>2, <3>1 DEF Sure
      <4> QED
        BY <2>2, <4>1, <3>6 DEF Ensure, Handles, Fresh, OfKey, Handlings
    <3>7. CASE Defer \/ Apply \/ Note \/ TruncateLocal
      BY <3>3, <3>7 DEF Defer, Apply, Note, TruncateLocal, Done, Rest
    <3>8. CASE Read \/ Weigh
      BY <3>2, <3>8 DEF Read, Weigh, Handles, Done, OfKey
    <3> QED
      BY <2>20, <3>4, <3>5, <3>6, <3>7, <3>8 DEF ServiceStep
  <2>21. CASE UNCHANGED vars
    BY <2>3, <2>21, ConfigStays DEF vars, Config
  <2> QED
    BY <2>4, <2>5, <2>6, <2>7, <2>8, <2>9, <2>10, <2>11, <2>18, <2>19, <2>20, <2>21 DEF Next
<1> QED
  BY <1>1, <1>2

-----------------------------------------------------------------------------
(***************************************************************************)
(* Values that stay right, and messages about a key.                       *)
(***************************************************************************)
LEMMA RightParts ==
    ASSUME Typed, NEW k \in Keys
    PROVE  /\ Query(k) = Absent <=> ~ InQuery(store[k])
           /\ Right(k, Query(k))
           /\ \A x : Right(k, x) => (x = Absent <=> Query(k) = Absent)
           /\ \A x : (x = Absent <=> Query(k) = Absent) /\ (~ values \/ Keeping) => Right(k, x)
BY QueryConstants DEF Typed, TypeOK, Query, Right, InQuery

LEMMA RightStays ==
    ASSUME NEW k, Query(k)' = Query(k), Keeping' \/ (values' = values /\ (~ values \/ ~ Keeping)),
           NEW x, Right(k, x)
    PROVE  Right(k, x)'
BY DEF Right

LEMMA QueryStays ==
    ASSUME NEW k, UNCHANGED store
    PROVE  Query(k)' = Query(k)
BY DEF Query

LEMMA WordsStay ==
    ASSUME NEW k, UNCHANGED wire
    PROVE  Words(k)' = Words(k) /\ Responses' = Responses
BY DEF Words, Responses

LEMMA WordsSent ==
    ASSUME wire \in Seq(Messages), NEW m \in Messages, wire' = Append(wire, m), NEW k
    PROVE  /\ Tells(m, k) => Words(k)' = Words(k) \cup {Len(wire) + 1} /\ m.type # "reply"
           /\ ~ Tells(m, k) => Words(k)' = Words(k)
           /\ \A i \in Words(k) : wire'[i] = wire[i] /\ i \in 1..Len(wire)
           /\ wire'[Len(wire) + 1] = m /\ Len(wire) \in Nat
           /\ Responses \subseteq 1..Len(wire)
           /\ \A i \in Responses : wire'[i] = wire[i]
<1>1. /\ Len(wire) \in Nat /\ DOMAIN wire = 1..Len(wire) /\ DOMAIN wire' = 1..(Len(wire) + 1)
      /\ wire'[Len(wire) + 1] = m /\ \A i \in 1..Len(wire) : wire'[i] = wire[i]
  BY AppendProperties
<1> USE <1>1
<1>2. Tells(m, k) => m.type # "reply"
  BY DEF Tells
<1>3. \A i \in 1..Len(wire) : i \in 1..(Len(wire) + 1) /\ i # Len(wire) + 1
  OBVIOUS
<1>4. \A i \in 1..(Len(wire) + 1) : i \in 1..Len(wire) \/ i = Len(wire) + 1
  OBVIOUS
<1>5. \A i : i \in Words(k)' <=> i \in 1..(Len(wire) + 1) /\ Tells(wire'[i], k)
  BY DEF Words
<1>6. \A i : i \in Words(k) <=> i \in 1..Len(wire) /\ Tells(wire[i], k)
  BY DEF Words
<1>7. Tells(m, k) => Words(k)' = Words(k) \cup {Len(wire) + 1}
  <2>1. \A i : Tells(m, k) => (i \in Words(k)' <=> i \in Words(k) \cup {Len(wire) + 1})
    BY <1>3, <1>4, <1>5, <1>6
  <2> QED
    BY <2>1
<1>8. ~ Tells(m, k) => Words(k)' = Words(k)
  <2>1. \A i : ~ Tells(m, k) => (i \in Words(k)' <=> i \in Words(k))
    BY <1>3, <1>4, <1>5, <1>6
  <2> QED
    BY <2>1
<1>9. Responses \subseteq 1..Len(wire)
  BY DEF Responses
<1> QED
  BY <1>2, <1>6, <1>7, <1>8, <1>9

LEMMA WordsTaken ==
    ASSUME wire \in Seq(Messages), wire # <<>>, wire' = Tail(wire), NEW k
    PROVE  /\ Words(k) \subseteq Nat \ {0} /\ Words(k)' \subseteq Nat \ {0}
           /\ Responses \subseteq Nat \ {0} /\ Responses' \subseteq Nat \ {0}
           /\ \A i \in Nat \ {0} : i \in Words(k)' <=> i + 1 \in Words(k)
           /\ \A i \in Nat \ {0} : i \in Responses' <=> i + 1 \in Responses
           /\ \A i \in Words(k)' \cup Responses' : wire'[i] = wire[i + 1]
           /\ 1 \in Words(k) <=> Tells(Head(wire), k)
           /\ 1 \in Responses <=> Head(wire).type = "reply"
           /\ wire[1] = Head(wire)
<1>1. /\ Len(wire) \in Nat \ {0} /\ DOMAIN wire = 1..Len(wire) /\ DOMAIN wire' = 1..(Len(wire) - 1)
      /\ Head(wire) = wire[1] /\ \A i \in 1..(Len(wire) - 1) : wire'[i] = wire[i + 1]
  BY HeadTailProperties, EmptySeq
<1>2. \A i \in Nat \ {0} : i \in 1..(Len(wire) - 1) <=> i + 1 \in 1..Len(wire)
  BY <1>1
<1>3. 1 \in 1..Len(wire) /\ 1..Len(wire) \subseteq Nat \ {0} /\ 1..(Len(wire) - 1) \subseteq Nat \ {0}
  BY <1>1
<1>4. /\ \A i : i \in Words(k) <=> i \in 1..Len(wire) /\ Tells(wire[i], k)
      /\ \A i : i \in Words(k)' <=> i \in 1..(Len(wire) - 1) /\ Tells(wire'[i], k)
      /\ \A i : i \in Responses <=> i \in 1..Len(wire) /\ wire[i].type = "reply"
      /\ \A i : i \in Responses' <=> i \in 1..(Len(wire) - 1) /\ wire'[i].type = "reply"
  BY <1>1 DEF Words, Responses
<1> HIDE DEF Words, Responses
<1>5. \A i \in Nat \ {0} : i \in Words(k)' <=> i + 1 \in Words(k)
  BY <1>1, <1>2, <1>4
<1>6. \A i \in Nat \ {0} : i \in Responses' <=> i + 1 \in Responses
  BY <1>1, <1>2, <1>4
<1> QED
  BY <1>1, <1>3, <1>4, <1>5, <1>6

\* What is pending, when the stage is the same.
LEMMA PendingSent ==
    ASSUME wire \in Seq(Messages), NEW m \in Messages, m.type # "reply", wire' = Append(wire, m), NEW k,
           Loading' <=> Loading
    PROVE  /\ Tells(m, k) => Pending(k)' = Pending(k) \cup {Len(wire) + 1}
           /\ ~ Tells(m, k) => Pending(k)' = Pending(k) /\ Words(k)' = Words(k)
           /\ \A i \in Pending(k) : wire'[i] = wire[i] /\ i \in 1..Len(wire)
           /\ wire'[Len(wire) + 1] = m /\ Len(wire) \in Nat
           /\ Responses' = Responses /\ Data' = IF reply' = Asked THEN {wire[i].data : i \in Responses} ELSE {reply'.data}
<1>1. Responses' = Responses
  BY OtherMessage
<1>2. \A i \in Responses : i < Len(wire) + 1
  BY WordsSent
<1>3. Tells(m, k) => Pending(k)' = Pending(k) \cup {Len(wire) + 1}
  BY <1>1, <1>2, WordsSent DEF Pending
<1>4. ~ Tells(m, k) => Pending(k)' = Pending(k) /\ Words(k)' = Words(k)
  BY <1>1, WordsSent DEF Pending
<1>5. \A i \in Pending(k) : wire'[i] = wire[i] /\ i \in 1..Len(wire)
  BY WordsSent DEF Pending
<1>6. Data' = IF reply' = Asked THEN {wire[i].data : i \in Responses} ELSE {reply'.data}
  <2>1. \A i \in Responses : wire'[i] = wire[i]
    BY WordsSent
  <2>2. Data' = IF reply' = Asked THEN {wire'[i].data : i \in Responses} ELSE {reply'.data}
    BY <1>1 DEF Data
  <2>3. {wire'[i].data : i \in Responses} = {wire[i].data : i \in Responses}
    BY <2>1
  <2> QED
    BY <2>2, <2>3
<1> QED
  BY <1>1, <1>3, <1>4, <1>5, <1>6, WordsSent

-----------------------------------------------------------------------------
(***************************************************************************)
(* Tracked is kept by a step that keeps its parts.                         *)
(***************************************************************************)
LEMMA TrackStays ==
    ASSUME NEW k, Tracked(k), Known' => Known, \A x : Right(k, x) => Right(k, x)',
           Pending(k)' = Pending(k), \A i \in Pending(k) : wire'[i] = wire[i],
           (Works(k) /\ ~ Loading)' <=> Works(k) /\ ~ Loading, Works(k) => Worth' = Worth,
           Known' /\ (Works(k) => Loading) /\ (Excused(k) \/ Rests(k)) => (Excused(k) \/ Rests(k))'
    PROVE  Tracked(k)'
BY DEF Tracked

\* The stages, when the configuration and its reply stay.
LEMMA StagesStay ==
    ASSUME Doing' = Doing, UNCHANGED <<reply, conf>>
    PROVE  /\ Keeping' <=> Keeping
           /\ Loading' <=> Loading
           /\ Filling' <=> Filling
           /\ Syncing' <=> Syncing
           /\ Ready' <=> Ready
           /\ Known' <=> Known
BY DEF Keeping, Loading, Filling, Syncing, Ready, Known, Answered

LEMMA TrackStill ==
    ASSUME NEW k, Tracked(k), Doing' = Doing, UNCHANGED <<reply, conf>>,
           \A x : Right(k, x) => Right(k, x)',
           Pending(k)' = Pending(k), \A i \in Pending(k) : wire'[i] = wire[i], Words(k)' = {} => Words(k) = {},
           Works(k)' <=> Works(k), Works(k) => Worth' = Worth,
           local'[k] = local[k], k \in reqs' <=> k \in reqs, k \in late' <=> k \in late,
           Data' \subseteq Data
    PROVE  Tracked(k)'
<1>1. Excused(k) => Excused(k)'
  BY StagesStay DEF Excused
<1>2. Rests(k) => Rests(k)'
  <2>1. \A d : Final(d, k)' = Final(d, k)
    BY DEF Final, Reread
  <2>2. Right(k, local[k]) => Right(k, local[k])'
    BY DEF Right
  <2>3. \A d : Right(k, Final(d, k)) => Right(k, Final(d, k))'
    BY <2>1 DEF Right
  <2> QED
    BY <2>2, <2>3 DEF Rests
<1> QED
  BY <1>1, <1>2, StagesStay, TrackStays

\* The same, when neither the wire nor the peer's cache changes.
LEMMA TrackQuiet ==
    ASSUME NEW k, Tracked(k), Doing' = Doing, UNCHANGED <<reply, conf, store, values, wire>>,
           Works(k)' <=> Works(k), Works(k) => Worth' = Worth,
           local'[k] = local[k], k \in reqs' <=> k \in reqs, k \in late' <=> k \in late
    PROVE  Tracked(k)'
<1>1. \A x : Right(k, x) => Right(k, x)'
  BY StagesStay, QueryStays DEF Right
<1>2. Pending(k)' = Pending(k) /\ Words(k)' = Words(k)
  BY StagesStay, WordsStay DEF Pending
<1>3. Data' = Data
  BY WordsStay DEF Data
<1> QED
  BY <1>1, <1>2, <1>3, TrackStill

\* What is known without a lapse, put together.
Unlapsed == Held /\ ~ Lapsed /\ Placed /\ Fresh

\* Events reach the image as far as it is known.
LEMMA Hearing ==
    ASSUME Unlapsed, Known
    PROVE  /\ listen.rem /\ listen.add # "none" /\ up /\ made
           /\ values /\ ~ Keeping => listen.add = "values"
<1>1. /\ Doing = "idle" => listen.rem /\ listen.add = Mode
      /\ Doing \in Configures \ {"removes"} => listen.rem
      /\ Doing \in Configures \ {"removes", "adds"} => listen.add = Mode
  BY Lasting DEF Unlapsed
<1>2. CASE Doing \in {"removes", "adds"}
  <2>1. Keeping
    BY <1>2 DEF Known, Keeping, Loading, Filling, Syncing, Ready
  <2>2. ~ conf.reload
    BY <2>1 DEF Keeping
  <2>3. listen.rem /\ listen.add # "none" /\ made
    BY <1>2, <2>2 DEF Unlapsed, Placed
  <2> QED
    BY <2>1, <2>3 DEF Unlapsed, Held, Registered
<1>3. CASE Doing \notin {"removes", "adds"}
  <2>1. Doing \in {"load", "setConfigured", "resolve", "sync", "setSynchronized", "idle"}
    BY <1>3 DEF Known, Keeping, Loading, Filling, Syncing, Ready
  <2>2. listen.rem /\ listen.add = Mode /\ made
    BY <1>1, <2>1 DEF Configures, Unlapsed, Placed
  <2> QED
    BY <2>2 DEF Unlapsed, Held, Registered, Mode
<1> QED
  BY <1>2, <1>3

\* The messages of a write are about its key alone, and right.
LEMMA WriteTracked ==
    ASSUME Unlapsed, NEW c \in Keys, NEW v \in Values \cup {Absent}, Write(c, v), NEW k \in Keys, Tracked(k)
    PROVE  Tracked(k)'
<1> USE DEF fields, image, caller, calls, history
<1>1. /\ Doing' = Doing /\ UNCHANGED <<reply, conf, values, local, reqs, late, ev>>
      /\ (Works(k)' <=> Works(k)) /\ Worth' = Worth
  BY ConfigStays DEF Write, Config, Works, Worth
<1>2. store' = [store EXCEPT ![c] = v] /\ v # store[c] /\ store \in [Keys -> Values \cup {Absent}]
  BY DEF Write, Unlapsed, Held, Typed, TypeOK
<1>3. wire \in Seq(Messages) /\ Typed
  BY DEF Unlapsed, Held, Typed, Coming
<1>4. CASE ~ Known
  BY <1>1, <1>4, StagesStay DEF Tracked
<1>5. CASE Known
  <2>1. /\ listen.rem /\ listen.add # "none" /\ up
        /\ values /\ ~ Keeping => listen.add = "values"
    BY <1>5, Hearing
  <2>2. wire' = wire \o Events(c, store[c], v)
    BY <2>1 DEF Write
  <2>3. listen.add \in {"keys", "values"}
    BY <1>3, <2>1 DEF Typed, TypeOK, Modes
  <2>4. CASE Events(c, store[c], v) = <<>>
    <3>1. wire' = wire
      BY <1>3, <2>2, <2>4, WireParts
    <3>2. \/ ~ InQuery(store[c]) /\ ~ InQuery(v)
          \/ InQuery(store[c]) /\ InQuery(v) /\ (Keeping \/ ~ values)
      BY <2>1, <2>3, <2>4 DEF Events
    <3>3. \A x : Right(k, x) => Right(k, x)'
      <4>1. CASE k # c
        <5>1. Query(k)' = Query(k)
          BY <1>2, <4>1 DEF Query
        <5> QED
          BY <1>1, <5>1, StagesStay, RightStays DEF Right
      <4>2. CASE k = c
        <5>1. store'[k] = v
          BY <1>2, <4>2
        <5>2. Query(k)' = Absent <=> Query(k) = Absent
          BY <1>2, <3>2, <4>2, <5>1, QueryConstants DEF Query, InQuery
        <5>3. values /\ ~ Keeping => Query(k)' = Query(k)
          BY <3>2, <4>2, <5>1 DEF Query
        <5> QED
          BY <1>1, <5>2, <5>3, StagesStay DEF Right
      <4> QED
        BY <4>1, <4>2
    <3>4. Pending(k)' = Pending(k) /\ Words(k)' = Words(k) /\ Responses' = Responses
      BY <1>1, <3>1, StagesStay, WordsStay DEF Pending
    <3>5. Data' = Data
      BY <1>1, <3>1, <3>4 DEF Data
    <3> QED
      BY <1>1, <3>1, <3>3, <3>4, <3>5, TrackStill
  <2>5. CASE Events(c, store[c], v) # <<>>
    <3>1. PICK m \in Messages : /\ Events(c, store[c], v) = <<m>> /\ m.type \in {"put", "remove"} /\ m.key = c
                                /\ (m.type = "put" <=> InQuery(v)) /\ (m.type = "put" => m.value # Absent)
                                /\ (m.type = "put" /\ listen.add = "values" => m.value = v)
      <4>1. CASE InQuery(v)
        <5> DEFINE m == [type |-> "put", key |-> c, value |-> IF listen.add = "values" THEN v ELSE Null]
        <5>1. Events(c, store[c], v) = <<m>>
          BY <2>5, <4>1 DEF Events
        <5>2. m \in Messages /\ m.value # Absent
          BY <4>1, MessageParts, QueryConstants DEF InQuery
        <5> QED
          BY <4>1, <5>1, <5>2
      <4>2. CASE ~ InQuery(v)
        <5> DEFINE m == [type |-> "remove", key |-> c, value |-> Null]
        <5>1. Events(c, store[c], v) = <<m>>
          BY <2>5, <4>2 DEF Events
        <5>2. m \in Messages
          BY MessageParts
        <5> QED
          BY <4>2, <5>1, <5>2
      <4> QED
        BY <4>1, <4>2
    <3>2. wire' = Append(wire, m)
      <4>1. \A w \in Seq(Messages), n \in Messages : w \o <<n>> = Append(w, n)
        OBVIOUS
      <4> QED
        BY <1>3, <2>2, <3>1, <4>1
    <3>3. m.type # "reply" /\ (Tells(m, k) <=> k = c)
      BY <3>1 DEF Tells
    <3>4. Responses' = Responses /\ Data' = Data
      <4>1. Data' = IF reply' = Asked THEN {wire[i].data : i \in Responses} ELSE {reply'.data}
        BY <1>1, <1>3, <3>2, <3>3, StagesStay, PendingSent
      <4> QED
        BY <1>1, <1>3, <3>2, <3>3, <4>1, OtherMessage DEF Data
    <3>5. CASE k # c
      <4>1. Query(k)' = Query(k)
        BY <1>2, <3>5 DEF Query
      <4>2. \A x : Right(k, x) => Right(k, x)'
        BY <1>1, <4>1, StagesStay DEF Right
      <4>3. Pending(k)' = Pending(k) /\ Words(k)' = Words(k) /\ \A i \in Pending(k) : wire'[i] = wire[i]
        BY <1>1, <1>3, <3>2, <3>3, <3>5, StagesStay, PendingSent
      <4> QED
        BY <1>1, <3>4, <4>2, <4>3, TrackStill
    <3>6. CASE k = c
      <4>1. store'[k] = v
        BY <1>2, <3>6
      <4>2. Right(k, Says(m))'
        BY <1>1, <2>1, <3>1, <4>1, StagesStay, QueryConstants DEF Right, Says, Query, InQuery
      <4>3. /\ Pending(k)' = Pending(k) \cup {Len(wire) + 1} /\ wire'[Len(wire) + 1] = m
            /\ Len(wire) \in Nat /\ Pending(k) \subseteq 1..Len(wire)
        BY <1>1, <1>3, <3>2, <3>3, <3>6, StagesStay, PendingSent
      <4>4. ASSUME NEW i \in Pending(k)', \A j \in Pending(k)' : j <= i PROVE Right(k, Says(wire[i]))'
        <5>1. Len(wire) + 1 <= i /\ i \in 1..(Len(wire) + 1)
          BY <4>3, <4>4
        <5>2. i = Len(wire) + 1
          BY <4>3, <5>1
        <5>3. wire'[i] = m
          BY <4>3, <5>2
        <5> QED
          BY <4>2, <5>3 DEF Right, Says
      <4>5. Pending(k)' # {}
        BY <4>3
      <4> QED
        BY <4>4, <4>5 DEF Tracked
    <3> QED
      BY <3>5, <3>6
  <2> QED
    BY <2>4, <2>5
<1> QED
  BY <1>4, <1>5

LEMMA TruncateTracked ==
    ASSUME Unlapsed, Truncate, NEW k \in Keys, Tracked(k)
    PROVE  Tracked(k)'
<1> USE DEF fields, image, caller, calls, history
<1>1. Doing' = Doing /\ UNCHANGED <<reply, conf, values>>
  BY ConfigStays DEF Truncate, Config
<1>2. CASE ~ Known
  BY <1>1, <1>2, StagesStay DEF Tracked
<1>3. CASE Known
  <2> DEFINE m == [type |-> "truncate"]
  <2>1. wire' = Append(wire, m) /\ m \in Messages /\ wire \in Seq(Messages)
    BY <1>3, Hearing, MessageParts DEF Truncate, Unlapsed, Held, Typed, Coming
  <2>2. m.type # "reply" /\ Tells(m, k) /\ Says(m) = Absent
    BY DEF Tells, Says
  <2>3. Query(k)' = Absent
    BY DEF Truncate, Empty, Query
  <2>4. Right(k, Says(m))'
    BY <2>2, <2>3 DEF Right
  <2> HIDE DEF m
  <2>5. /\ Pending(k)' = Pending(k) \cup {Len(wire) + 1} /\ wire'[Len(wire) + 1] = m
        /\ Len(wire) \in Nat /\ Pending(k) \subseteq 1..Len(wire)
    BY <1>1, <2>1, <2>2, StagesStay, PendingSent
  <2>6. ASSUME NEW i \in Pending(k)', \A j \in Pending(k)' : j <= i PROVE Right(k, Says(wire[i]))'
    <3>1. Len(wire) + 1 <= i /\ i \in 1..(Len(wire) + 1)
      BY <2>5, <2>6
    <3>2. i = Len(wire) + 1
      BY <2>5, <3>1
    <3>3. wire'[i] = m
      BY <2>5, <3>2
    <3> QED
      BY <2>4, <3>3 DEF Right, Says
  <2>7. Pending(k)' # {}
    BY <2>5
  <2> QED
    BY <2>6, <2>7 DEF Tracked
<1> QED
  BY <1>2, <1>3

\* A message taken from the wire: what is pending behind it.
LEMMA PendingTaken ==
    ASSUME wire \in Seq(Messages), wire # <<>>, wire' = Tail(wire), NEW k, Loading' <=> Loading
    PROVE  /\ Pending(k) \subseteq Nat \ {0} /\ Pending(k)' \subseteq Nat \ {0}
           /\ \A i \in Nat \ {0} : i + 1 \in Pending(k) => i \in Pending(k)'
           /\ \A i \in Pending(k)' : i + 1 \in Pending(k) /\ wire'[i] = wire[i + 1]
           /\ ~ Tells(Head(wire), k) => 1 \notin Pending(k)
           /\ Tells(Head(wire), k) /\ (Loading => Responses = {}) => 1 \in Pending(k)
           /\ 1 \in Pending(k) => (Loading => Responses = {})
           /\ wire[1] = Head(wire)
<1>1. /\ Words(k) \subseteq Nat \ {0} /\ Words(k)' \subseteq Nat \ {0}
      /\ Responses \subseteq Nat \ {0} /\ Responses' \subseteq Nat \ {0}
      /\ \A i \in Nat \ {0} : i \in Words(k)' <=> i + 1 \in Words(k)
      /\ \A i \in Nat \ {0} : i \in Responses' <=> i + 1 \in Responses
      /\ \A i \in Words(k)' \cup Responses' : wire'[i] = wire[i + 1]
      /\ 1 \in Words(k) <=> Tells(Head(wire), k)
      /\ wire[1] = Head(wire)
  BY WordsTaken
<1>2. \A i : i \in Pending(k) <=> i \in Words(k) /\ (Loading => \A j \in Responses : j < i)
  BY DEF Pending
<1>3. \A i : i \in Pending(k)' <=> i \in Words(k)' /\ (Loading => \A j \in Responses' : j < i)
  BY DEF Pending
<1>4. ASSUME NEW i \in Nat \ {0}, i + 1 \in Pending(k) PROVE i \in Pending(k)'
  <2>1. i \in Words(k)'
    BY <1>1, <1>2, <1>4
  <2>2. ASSUME Loading, NEW j \in Responses' PROVE j < i
    <3>1. j \in Nat \ {0} /\ j + 1 \in Responses
      BY <1>1, <2>2
    <3>2. j + 1 < i + 1
      BY <1>2, <1>4, <2>2, <3>1
    <3> QED
      BY <3>1, <3>2
  <2> QED
    BY <1>3, <2>1, <2>2
<1>5. ASSUME NEW i \in Pending(k)' PROVE i + 1 \in Pending(k) /\ wire'[i] = wire[i + 1]
  <2>1. i \in Nat \ {0} /\ i + 1 \in Words(k) /\ wire'[i] = wire[i + 1]
    BY <1>1, <1>3
  <2>2. ASSUME Loading, NEW j \in Responses PROVE j < i + 1
    <3>1. CASE j = 1
      BY <2>1, <3>1
    <3>2. CASE j # 1
      <4>1. j - 1 \in Nat \ {0} /\ j = (j - 1) + 1
        BY <1>1, <3>2
      <4>2. j - 1 \in Responses'
        BY <1>1, <4>1
      <4>3. j - 1 < i
        BY <1>3, <2>2, <4>2
      <4> QED
        BY <2>1, <4>1, <4>3
    <3> QED
      BY <3>1, <3>2
  <2> QED
    BY <1>2, <2>1, <2>2
<1>6. Pending(k) \subseteq Nat \ {0} /\ Pending(k)' \subseteq Nat \ {0}
  BY <1>1, <1>2, <1>3
<1>7. 1 \in Pending(k) => (Loading => Responses = {})
  <2>1. \A j \in Responses : ~ (j < 1)
    BY <1>1
  <2> QED
    BY <1>2, <2>1
<1> QED
  BY <1>1, <1>2, <1>4, <1>5, <1>6, <1>7

\* The last of the messages pending stays the last.
LEMMA LastTaken ==
    ASSUME NEW k, Tracked(k), Known, Pending(k) \subseteq Nat \ {0}, Pending(k)' \subseteq Nat \ {0},
           \A i \in Nat \ {0} : i + 1 \in Pending(k) => i \in Pending(k)',
           \A i \in Pending(k)' : i + 1 \in Pending(k) /\ wire'[i] = wire[i + 1],
           \A x : Right(k, x) => Right(k, x)',
           NEW i \in Pending(k)', \A j \in Pending(k)' : j <= i
    PROVE  Right(k, Says(wire[i]))'
<1>1. i \in Nat \ {0} /\ i + 1 \in Pending(k)
  OBVIOUS
<1>2. ASSUME NEW j \in Pending(k) PROVE j <= i + 1
  <2>1. CASE j = 1
    BY <1>1, <2>1
  <2>2. CASE j # 1
    <3>1. j - 1 \in Nat \ {0} /\ j = (j - 1) + 1
      BY <2>2
    <3>2. j - 1 \in Pending(k)'
      BY <3>1
    <3>3. j - 1 <= i
      BY <3>2
    <3> QED
      BY <1>1, <3>1, <3>3
  <2> QED
    BY <2>1, <2>2
<1>3. Right(k, Says(wire[i + 1]))
  BY <1>1, <1>2 DEF Tracked
<1>4. Right(k, Says(wire[i]))'
  <2> DEFINE x == Says(wire[i + 1])
  <2>1. PICK y : y = x
    OBVIOUS
  <2>2. Right(k, y)'
    BY <1>3, <2>1
  <2>3. wire'[i] = wire[i + 1]
    OBVIOUS
  <2> QED
    BY <2>1, <2>2, <2>3 DEF Right, Says
<1> QED
  BY <1>4

\* The response is taken: what was pending behind it is all there is.
LEMMA ReplyTracked ==
    ASSUME Unlapsed, Take, Head(wire).type = "reply", NEW k \in Keys, Tracked(k)
    PROVE  Tracked(k)'
<1> USE DEF fields, image, peer, calls, history
<1>1. /\ Doing' = Doing /\ UNCHANGED <<conf, store, values, local, reqs, late, ev>> /\ ev.step = "idle"
      /\ wire # <<>> /\ wire' = Tail(wire) /\ reply' = [status |-> "ok", data |-> Head(wire).data]
  BY ConfigStays DEF Take, TakeReply, ServiceStep, Config
<1>2. wire \in Seq(Messages) /\ Answers
  BY DEF Unlapsed, Held, Typed, Coming
<1>3. reply = Asked /\ Responses = {1} /\ Data = {Head(wire).data}
  <2>1. 1 \in Responses /\ wire[1] = Head(wire)
    BY <1>1, <1>2, WordsTaken
  <2>2. reply = Asked /\ Responses = {1}
    BY <1>2, <2>1 DEF Answers
  <2> QED
    BY <2>1, <2>2 DEF Data
<1>4. reply' # Asked /\ reply' # NoReply /\ reply' # Failed /\ reply # NoReply /\ reply # Failed /\ Answered' /\ ~ Answered
  BY <1>1, <1>3, ReplyParts DEF Answered
<1>5. Doing \in Asking /\ Doing \in {"removes", "adds", "load", "sync"}
  BY <1>2, <1>4, DoingParts DEF Answers, Asking, Unlapsed, Held
<1>6. ~ Works(k) /\ ~ Works(k)'
  BY <1>1 DEF Works, OfKey, OfAll
<1>7. /\ Keeping' <=> Keeping
      /\ ~ Loading' /\ (Loading <=> Doing = "load")
      /\ Filling' <=> Loading
      /\ Syncing' <=> Syncing
      /\ ~ Ready /\ ~ Ready' /\ ~ Filling
  BY <1>1, <1>3, <1>4, <1>5 DEF Keeping, Loading, Filling, Syncing, Ready
<1>8. Known' => Known
  BY <1>7 DEF Known
<1>9. \A x : Right(k, x) => Right(k, x)'
  BY <1>1, <1>7, QueryStays DEF Right
<1>10. /\ Words(k) \subseteq Nat \ {0} /\ Words(k)' \subseteq Nat \ {0}
       /\ \A i \in Nat \ {0} : i \in Words(k)' <=> i + 1 \in Words(k)
       /\ \A i \in Words(k)' : wire'[i] = wire[i + 1]
       /\ 1 \notin Words(k)
  <2>1. ~ Tells(Head(wire), k)
    BY DEF Tells
  <2> QED
    BY <1>1, <1>2, <2>1, WordsTaken
<1>11. Pending(k) = Words(k) /\ Pending(k)' = Words(k)'
  <2>1. \A i \in Words(k) : 1 < i
    BY <1>10
  <2> QED
    BY <1>3, <1>7, <2>1 DEF Pending
<1>12. ASSUME Known, NEW i \in Pending(k)', \A j \in Pending(k)' : j <= i PROVE Right(k, Says(wire[i]))'
  <2>1. /\ Pending(k) \subseteq Nat \ {0} /\ Pending(k)' \subseteq Nat \ {0}
        /\ \A j \in Nat \ {0} : j + 1 \in Pending(k) => j \in Pending(k)'
        /\ \A j \in Pending(k)' : j + 1 \in Pending(k) /\ wire'[j] = wire[j + 1]
    BY <1>10, <1>11
  <2> QED
    BY <1>9, <1>12, <2>1, LastTaken
<1>13. ASSUME Known, Pending(k)' = {} PROVE Excused(k)' \/ Rests(k)'
  <2>1. Pending(k) = {}
    <3>1. ASSUME NEW i \in Pending(k) PROVE FALSE
      <4>1. i \in Nat \ {0} /\ i # 1 /\ i \in Words(k)
        BY <1>10, <1>11, <3>1
      <4>2. i - 1 \in Nat \ {0} /\ i = (i - 1) + 1
        BY <4>1
      <4>3. i - 1 \in Words(k)'
        BY <1>10, <4>1, <4>2
      <4> QED
        BY <1>11, <1>13, <4>3
    <3> QED
      BY <3>1
  <2>2. Excused(k) \/ Rests(k)
    BY <1>6, <1>13, <2>1 DEF Tracked
  <2>3. CASE Excused(k)
    <3>1. Words(k) = {}
      BY <1>11, <2>1
    <3>2. Excused(k)'
      BY <1>1, <1>6, <1>7, <2>3, <3>1 DEF Excused
    <3> QED
      BY <3>2
  <2>4. CASE Rests(k)
    <3>1. Data' = {Head(wire).data}
      BY <1>1, <1>4 DEF Data
    <3>2. \A d : Final(d, k)' = Final(d, k)
      BY <1>1 DEF Final, Reread
    <3>3. \A d : Right(k, Final(d, k)) => Right(k, Final(d, k))'
      BY <1>9, <3>2 DEF Right
    <3>4. Right(k, local[k]) => Right(k, local[k])'
      BY <1>1, <1>9 DEF Right
    <3>5. Rests(k)'
      BY <1>1, <1>3, <1>4, <2>4, <3>1, <3>3, <3>4 DEF Rests
    <3> QED
      BY <3>5
  <2> QED
    BY <2>2, <2>3, <2>4
<1> QED
  BY <1>6, <1>8, <1>12, <1>13 DEF Tracked

\* An event is taken: if it is about the key, the service thread works on it.
LEMMA EventTracked ==
    ASSUME Unlapsed, Take, Head(wire).type # "reply", ~ Lapsed', NEW k \in Keys, Tracked(k)
    PROVE  Tracked(k)'
<1> USE DEF fields, image, peer, calls, history
<1> DEFINE m == Head(wire)
<1>1. /\ Doing' = Doing /\ UNCHANGED <<conf, reply, store, values, local, reqs, late, state>> /\ ev.step = "idle"
      /\ wire # <<>> /\ wire' = Tail(wire)
  BY ConfigStays DEF Take, TakeEvent, TakeTruncate, ServiceStep, Config
<1>2. wire \in Seq(Messages) /\ m \in Messages
  BY <1>1, WireParts DEF Unlapsed, Held, Typed, Coming
<1>3. ~ Works(k)
  BY <1>1 DEF Works, OfKey, OfAll
<1>4. \A x : Right(k, x) => Right(k, x)'
  BY <1>1, StagesStay, QueryStays DEF Right
<1>5. /\ Pending(k) \subseteq Nat \ {0} /\ Pending(k)' \subseteq Nat \ {0}
      /\ \A i \in Nat \ {0} : i + 1 \in Pending(k) => i \in Pending(k)'
      /\ \A i \in Pending(k)' : i + 1 \in Pending(k) /\ wire'[i] = wire[i + 1]
      /\ ~ Tells(m, k) => 1 \notin Pending(k)
      /\ Tells(m, k) /\ (Loading => Responses = {}) => 1 \in Pending(k)
      /\ 1 \in Pending(k) => (Loading => Responses = {})
      /\ wire[1] = m
  BY <1>1, <1>2, StagesStay, PendingTaken
<1>6. Data' \subseteq Data /\ (Responses = {} => Responses' = {})
  <2>1. \A i \in Responses' : i + 1 \in Responses /\ wire'[i] = wire[i + 1]
    BY <1>1, <1>2, WordsTaken
  <2>2. {wire'[i].data : i \in Responses'} \subseteq {wire[i].data : i \in Responses}
    BY <2>1
  <2>3. Responses = {} => Responses' = {}
    BY <2>1
  <2> QED
    BY <1>1, <2>2, <2>3 DEF Data
<1>7. CASE ~ Known
  BY <1>1, <1>7, StagesStay DEF Tracked
<1>8. CASE Known
  <2>1. \A i \in Pending(k)' : (\A j \in Pending(k)' : j <= i) => Right(k, Says(wire[i]))'
    BY <1>4, <1>5, <1>8, LastTaken
  <2>2. (Works(k)' <=> Tells(m, k)) /\ (Tells(m, k) => Worth' = Says(m))
    <3>1. listen.rem /\ listen.add # "none"
      BY <1>8, Hearing
    <3>2. CASE m.type = "truncate"
      <4>1. listen.trunc
        BY <3>2 DEF Take, TakeTruncate, Lapsed
      <4>2. ev' = [Rest EXCEPT !.step = "ensure"]
        BY <3>2, <4>1 DEF Take, TakeTruncate
      <4>3. ev'.step = "ensure"
        BY <4>2 DEF Rest
      <4> QED
        BY <3>2, <4>3 DEF Works, Worth, Tells, Says, OfKey, OfAll
    <3>3. CASE m.type # "truncate"
      <4>1. m.type \in {"put", "remove"}
        BY <1>2, <3>3, MessageParts
      <4>2. ev' = [step |-> IF ref THEN "judge" ELSE "apply", key |-> m.key,
                   value |-> IF m.type = "put" THEN m.value ELSE Absent, current |-> ref]
        BY <3>1, <4>1 DEF Take, TakeEvent
      <4>3. ev'.step \in {"judge", "apply"} /\ ev'.key = m.key /\ ev'.value = Says(m)
        BY <4>2 DEF Says
      <4> QED
        BY <4>1, <4>3 DEF Works, Worth, Tells, OfKey, OfAll
    <3> QED
      BY <3>2, <3>3
  <2>3. Rests(k) => Rests(k)'
    <3>1. \A d : Final(d, k)' = Final(d, k)
      BY <1>1 DEF Final, Reread
    <3>2. \A d : Right(k, Final(d, k)) => Right(k, Final(d, k))'
      BY <1>4, <3>1 DEF Right
    <3>3. Right(k, local[k]) => Right(k, local[k])'
      BY <1>1, <1>4 DEF Right
    <3> QED
      BY <1>1, <1>6, <3>2, <3>3, StagesStay DEF Rests
  <2>4. ASSUME Pending(k)' = {}, 1 \notin Pending(k) PROVE Pending(k) = {}
    <3>1. ASSUME NEW i \in Pending(k) PROVE FALSE
      <4>1. i \in Nat \ {0} /\ i # 1
        BY <1>5, <2>4, <3>1
      <4>2. i - 1 \in Nat \ {0} /\ i = (i - 1) + 1
        BY <4>1
      <4>3. i - 1 \in Pending(k)'
        BY <1>5, <3>1, <4>2
      <4> QED
        BY <2>4, <4>3
    <3> QED
      BY <3>1
  <2>5. ASSUME Pending(k)' = {}, Loading
        PROVE  Excused(k)' \/ Rests(k)'
    <3>1. CASE Responses = {}
      <4>1. Data' = {} /\ Doing' = "load" /\ reply' # NoReply /\ ~ Keeping'
        <5>1. reply' = Asked /\ Doing' = "load"
          BY <1>1, <2>5 DEF Loading
        <5>2. NoReply # Asked
          BY ReplyParts
        <5> QED
          BY <1>6, <3>1, <5>1, <5>2 DEF Data, Keeping
      <4> QED
        BY <4>1 DEF Rests
    <3>2. CASE Responses # {}
      <4>1. Pending(k) = {}
        BY <1>5, <2>4, <2>5, <3>2
      <4>2. Excused(k) \/ Rests(k)
        BY <1>3, <1>8, <4>1 DEF Tracked
      <4>3. ASSUME Words(k) # {} PROVE Words(k)' # {} \/ Works(k)'
        <5>1. PICK i \in Words(k) : TRUE
          BY <4>3
        <5>2. CASE i = 1
          BY <1>1, <1>2, <2>2, <5>1, <5>2, WordsTaken
        <5>3. CASE i # 1
          <6>1. i \in Nat \ {0}
            BY <1>1, <1>2, WordsTaken
          <6>2. i - 1 \in Nat \ {0} /\ i = (i - 1) + 1
            BY <5>3, <6>1
          <6>3. i - 1 \in Words(k)'
            BY <1>1, <1>2, <5>1, <6>2, WordsTaken
          <6> QED
            BY <6>3
        <5> QED
          BY <5>2, <5>3
      <4>4. CASE Excused(k)
        BY <1>1, <1>3, <2>5, <4>3, <4>4, StagesStay DEF Excused
      <4> QED
        BY <2>3, <4>2, <4>4
    <3> QED
      BY <3>1, <3>2
  <2>6. ASSUME Pending(k)' = {}, ~ Loading
        PROVE  IF Works(k)' THEN Right(k, Worth)' ELSE Excused(k)' \/ Rests(k)'
    <3>1. CASE Tells(m, k)
      <4>1. 1 \in Pending(k)
        BY <1>5, <2>6, <3>1
      <4>2. ASSUME NEW j \in Pending(k) PROVE j <= 1
        <5>1. ASSUME j # 1 PROVE FALSE
          <6>1. j - 1 \in Nat \ {0} /\ j = (j - 1) + 1
            BY <1>5, <4>2, <5>1
          <6>2. j - 1 \in Pending(k)'
            BY <1>5, <4>2, <6>1
          <6> QED
            BY <2>6, <6>2
        <5> QED
          BY <5>1
      <4>3. Right(k, Says(m))
        BY <1>5, <1>8, <4>1, <4>2 DEF Tracked
      <4>4. Right(k, Worth)'
        <5>1. PICK x : x = Says(m)
          OBVIOUS
        <5>2. Right(k, x)' /\ Worth' = x
          BY <1>4, <2>2, <3>1, <4>3, <5>1
        <5> QED
          BY <5>2 DEF Right
      <4> QED
        BY <2>2, <3>1, <4>4
    <3>2. CASE ~ Tells(m, k)
      <4>1. Pending(k) = {} /\ ~ Works(k)'
        BY <1>5, <2>2, <2>4, <2>6, <3>2
      <4>2. Excused(k) \/ Rests(k)
        BY <1>3, <1>8, <4>1 DEF Tracked
      <4>3. Excused(k) => Excused(k)'
        BY <1>1, <2>6, StagesStay DEF Excused
      <4> QED
        BY <2>3, <4>1, <4>2, <4>3
    <3> QED
      BY <3>1, <3>2
  <2>7. Loading' <=> Loading
    BY <1>1, StagesStay
  <2> QED
    BY <2>1, <2>5, <2>6, <2>7 DEF Tracked
<1> QED
  BY <1>7, <1>8

\* The stages the service thread is sure of.
LEMMA SureStages ==
    ASSUME Unlapsed
    PROVE  /\ Loading /\ ~ conf.reload => Sure
           /\ Filling \/ Syncing => Sure
           /\ Ready => Sure \/ Doing = "idle"
           /\ Known => made
<1>1. Loading /\ ~ conf.reload => Sure
  BY DEF Loading, Sure
<1>2. Filling \/ Syncing => Sure
  BY DEF Filling, Syncing, Sure
<1>3. Ready => Sure \/ Doing = "idle"
  BY DEF Ready, Sure
<1> QED
  BY <1>1, <1>2, <1>3, Hearing

\* A reload overwrites whatever the image has.
LEMMA Reloading ==
    ASSUME Loading, conf.reload
    PROVE  Known /\ \A k : ~ Excused(k)
<1>1. ~ Keeping /\ ~ Filling /\ ~ Syncing /\ ~ Ready /\ Known
  BY ReplyParts DEF Loading, Keeping, Filling, Syncing, Ready, Known, Answered
<1> QED
  BY <1>1 DEF Excused

LEMMA ReloadRests ==
    ASSUME NEW k, Doing' = Doing, UNCHANGED <<conf, reply, store, values, wire>>, Loading, conf.reload, Rests(k)
    PROVE  Rests(k)'
<1>1. Doing = "load" /\ Doing' = "load" /\ reply # NoReply /\ reply' # NoReply /\ Data' = Data
  BY WordsStay, ReplyParts DEF Loading, Data
<1>2. \A d : Final(d, k)' = Final(d, k)
  BY <1>1 DEF Final
<1>3. \A d : Right(k, Final(d, k)) => Right(k, Final(d, k))'
  BY <1>2, StagesStay, QueryStays DEF Right
<1> QED
  BY <1>1, <1>3 DEF Rests

\* An event of the key is worked off.
LEMMA WorkedOff ==
    ASSUME NEW k, Tracked(k), Doing' = Doing, UNCHANGED <<conf, reply, store, values, wire>>, Works(k), ~ Works(k)',
           Loading /\ ~ conf.reload => Excused(k)',
           Known /\ ~ Loading /\ Right(k, Worth) => Excused(k)' \/ Rests(k)'
    PROVE  Tracked(k)'
<1>1. \A x : Right(k, x) => Right(k, x)'
  BY StagesStay, QueryStays DEF Right
<1>2. Pending(k)' = Pending(k) /\ (\A i \in Pending(k) : wire'[i] = wire[i]) /\ (Known' <=> Known)
  BY StagesStay, WordsStay DEF Pending
<1>3. Known => \A i \in Pending(k)' : (\A j \in Pending(k)' : j <= i) => Right(k, Says(wire[i]))'
  BY <1>1, <1>2 DEF Tracked, Right, Says
<1>4. Known /\ Pending(k) = {} => Excused(k)' \/ Rests(k)'
  <2>1. CASE ~ Loading
    BY <2>1 DEF Tracked
  <2>2. CASE Loading /\ conf.reload
    BY <2>2, Reloading, ReloadRests DEF Tracked
  <2> QED
    BY <2>1, <2>2
<1> QED
  BY <1>2, <1>3, <1>4 DEF Tracked

\* The event of a key is deferred: the key will be read again, or it was too late.
LEMMA DeferTracked ==
    ASSUME Unlapsed, Defer, NEW k \in Keys, Tracked(k)
    PROVE  Tracked(k)'
<1> USE DEF fields, image, peer, caller, calls, history
<1>1. /\ Doing' = Doing /\ UNCHANGED <<conf, reply, store, values, wire, local>>
      /\ ev.step = "defer" /\ ev'.step = "idle"
      /\ reqs' = (IF ev.current THEN reqs \cup {ev.key} ELSE reqs)
      /\ late' = (IF Lost THEN late \cup {ev.key} ELSE late)
  BY ConfigStays DEF Defer, Done, Rest, ServiceStep, Config
<1>2. ~ Works(k)' /\ (Works(k) <=> k = ev.key)
  BY <1>1 DEF Works, OfKey, OfAll
<1>3. CASE k # ev.key
  <2>1. ~ Works(k) /\ (k \in reqs' <=> k \in reqs) /\ (k \in late' <=> k \in late)
    BY <1>1, <1>2, <1>3
  <2> QED
    BY <1>1, <1>2, <2>1, TrackQuiet
<1>4. CASE k = ev.key
  <2>1. state # "disconnected" /\ Begun /\ Typed
    BY DEF Unlapsed, Held, Lapsed
  <2>2. Sure => ev.current
    BY <1>1 DEF Unlapsed, Fresh
  <2>3. /\ ev.current => k \in reqs'
        /\ ~ ev.current /\ ~ conf.reload => k \in late'
    BY <1>1, <1>4, <2>1 DEF Lost
  <2>4. Doing \in {"sync", "setSynchronized", "idle"} /\ ev.current => k \in late'
    <3>1. \A u \in Users : pc[u] \in {Doing, "idle", "enter"}
      BY <2>1, DoingParts, OneConfigures
    <3>2. Doing \in {"sync", "setSynchronized", "idle"} => \A u \in Users : pc[u] \notin InTime
      BY <3>1 DEF InTime, Early
    <3> QED
      BY <1>1, <1>4, <2>1, <3>2 DEF Lost
  <2>5. Keeping \/ (Loading /\ ~ conf.reload) \/ Filling => k \in reqs' \cup late'
    <3>1. Keeping => ~ conf.reload
      BY DEF Keeping
    <3> QED
      BY <2>2, <2>3, <3>1, SureStages
  <2>6. Syncing \/ Ready => k \in late'
    <3>1. Syncing \/ Ready => Doing \in {"sync", "setSynchronized", "idle"}
      BY DEF Syncing, Ready
    <3>2. Doing = "idle" => ~ conf.reload
      BY <2>1 DEF Begun
    <3> QED
      BY <2>2, <2>3, <2>4, <3>1, <3>2, SureStages
  <2>7. Known /\ ~ (Loading /\ conf.reload) => Excused(k)'
    BY <1>1, <2>5, <2>6, StagesStay DEF Known, Excused
  <2>8. Loading => Known
    BY DEF Known
  <2> QED
    BY <1>1, <1>2, <1>4, <2>7, <2>8, WorkedOff
<1> QED
  BY <1>3, <1>4

LEMMA SettleTracked ==
    ASSUME Unlapsed, Settle, NEW k \in Keys, Tracked(k)
    PROVE  Tracked(k)'
<1> USE DEF fields, image, peer, caller, calls, history
<1>1. /\ Doing' = Doing /\ UNCHANGED <<conf, reply, store, values, wire, local, late>>
      /\ ev.step = "settle" /\ ev'.step = "apply" /\ ev'.key = ev.key /\ ev'.value = ev.value
      /\ (reqs' = reqs \/ reqs' = reqs \ {ev.key})
  <2>1. ev' = [ev EXCEPT !.step = "apply"] /\ ev \in Handlings /\ ev.step = "settle"
    BY DEF Settle, Handles, Unlapsed, Held, Typed, Handled
  <2>2. ev'.step = "apply" /\ ev'.key = ev.key /\ ev'.value = ev.value
    BY <2>1 DEF Handlings
  <2> QED
    BY <2>1, <2>2, ConfigStays DEF Settle, ServiceStep, Config
<1>2. (Works(k)' <=> Works(k)) /\ (Works(k) <=> k = ev.key) /\ Worth' = Worth
  BY <1>1 DEF Works, Worth, OfKey, OfAll
<1>3. CASE k # ev.key
  <2>1. (k \in reqs' <=> k \in reqs)
    BY <1>1, <1>3
  <2> QED
    BY <1>1, <1>2, <2>1, TrackQuiet
<1>4. CASE k = ev.key
  <2>1. \A x : Right(k, x) => Right(k, x)'
    BY <1>1, StagesStay, QueryStays DEF Right
  <2>2. Pending(k)' = Pending(k) /\ \A i \in Pending(k) : wire'[i] = wire[i]
    BY <1>1, StagesStay, WordsStay DEF Pending
  <2>3. Loading /\ (Excused(k) \/ Rests(k)) => Excused(k)' \/ Rests(k)'
    <3>1. Loading /\ ~ conf.reload => Excused(k)'
      BY <1>1, <1>2, <1>4, StagesStay DEF Excused
    <3> QED
      BY <1>1, <3>1, Reloading, ReloadRests
  <2> QED
    BY <1>1, <1>2, <1>4, <2>1, <2>2, <2>3, StagesStay, TrackStays
<1> QED
  BY <1>3, <1>4

\* A value that is put into the image is right, except where a reload will overwrite it.
LEMMA AppliedTracked ==
    ASSUME Unlapsed, NEW k \in Keys, Tracked(k), Doing' = Doing,
           UNCHANGED <<conf, reply, store, values, wire, reqs>>, Works(k), ~ Works(k)',
           ev.step \in {"apply", "truncate"}, ev.step = "apply" => ev.key = k,
           made => local'[k] = Worth \/ (Worth # Absent /\ local'[k] = Null /\ ~ values)
    PROVE  Tracked(k)'
<1>1. ~ (Loading /\ ~ conf.reload) /\ (Doing = "load" => ~ Filling) /\ (Filling \/ Syncing => k \notin reqs)
  <2>1. Sure => ev.step = "apply" /\ k \notin reqs /\ Doing # "load"
    BY DEF Unlapsed, Fresh, OfKey
  <2> QED
    BY <2>1, SureStages DEF Loading
<1>2. Known /\ Right(k, Worth) => Right(k, local[k])'
  <2>1. CASE local'[k] = Worth
    BY <2>1, StagesStay, QueryStays DEF Right
  <2>2. CASE Worth # Absent /\ local'[k] = Null /\ ~ values
    BY <2>2, StagesStay, QueryStays, QueryConstants DEF Right
  <2> QED
    BY <2>1, <2>2, SureStages
<1>3. Known /\ ~ Loading /\ Right(k, local[k])' => Rests(k)'
  <2>1. CASE Doing = "sync"
    <3>1. Known => Syncing
      BY <2>1 DEF Known, Keeping, Loading, Filling, Syncing, Ready
    <3>2. Known => \A d : Final(d, k)' = local'[k]
      BY <1>1, <2>1, <3>1 DEF Final
    <3> QED
      BY <1>1, <3>1, <3>2 DEF Rests, Right
  <2>2. CASE Doing = "load"
    <3>1. Known /\ ~ Loading => Keeping
      BY <1>1, <2>2 DEF Known, Syncing, Ready
    <3>2. Known /\ ~ Loading => reply' = NoReply
      BY <2>2, <3>1 DEF Keeping
    <3> QED
      BY <2>2, <3>2 DEF Rests
  <2>3. CASE Doing \notin {"load", "sync"}
    BY <2>3 DEF Rests
  <2> QED
    BY <2>1, <2>2, <2>3
<1> QED
  BY <1>1, <1>2, <1>3, WorkedOff

LEMMA ApplyTracked ==
    ASSUME Unlapsed, Apply \/ TruncateLocal, NEW k \in Keys, Tracked(k)
    PROVE  Tracked(k)'
<1> USE DEF fields, image, peer, caller, calls, history
<1>1. /\ Doing' = Doing /\ UNCHANGED <<conf, reply, store, values, wire, reqs>> /\ ev'.step = "idle"
      /\ ev.step \in {"apply", "truncate"}
  BY ConfigStays DEF Apply, TruncateLocal, Done, Rest, ServiceStep, Config
<1>2. ~ Works(k)' /\ (Works(k) <=> (ev.step = "apply" => k = ev.key)) /\ Typed
  BY <1>1 DEF Works, OfKey, OfAll, Unlapsed, Held
<1>3. CASE ~ Works(k)
  <2>1. ev.step = "apply" /\ k # ev.key
    BY <1>1, <1>2, <1>3
  <2>2. local'[k] = local[k] /\ (k \in late' <=> k \in late)
    BY <1>2, <2>1 DEF Apply, TruncateLocal, Done, Typed, TypeOK
  <2> QED
    BY <1>1, <1>2, <1>3, <2>2, TrackQuiet
<1>4. CASE Works(k)
  <2>1. CASE ev.step = "apply"
    <3>1. Worth = ev.value /\ k = ev.key
      BY <1>2, <1>4, <2>1 DEF Worth, OfKey
    <3>2. made => local'[k] = IF ev.value = Absent \/ values THEN ev.value ELSE Null
      BY <1>2, <2>1, <3>1 DEF Apply, TruncateLocal, Done, Typed, TypeOK
    <3>3. made => local'[k] = Worth \/ (Worth # Absent /\ local'[k] = Null /\ ~ values)
      BY <3>1, <3>2
    <3> QED
      BY <1>1, <1>2, <1>4, <2>1, <3>1, <3>3, AppliedTracked
  <2>2. CASE ev.step = "truncate"
    <3>1. local' = Empty
      BY <2>2 DEF Apply, TruncateLocal, Done
    <3>2. local'[k] = Worth
      BY <2>2, <3>1 DEF Worth, OfKey, Empty
    <3> QED
      BY <1>1, <1>2, <1>4, <2>2, <3>2, AppliedTracked DEF TruncateLocal, Apply, Done
  <2> QED
    BY <1>1, <2>1, <2>2
<1> QED
  BY <1>3, <1>4

LEMMA WeighTracked ==
    ASSUME Unlapsed, Weigh, ~ Lapsed', NEW k \in Keys, Tracked(k)
    PROVE  Tracked(k)'
<1> USE DEF fields, image, peer, caller, calls, history
<1>1. /\ Doing' = Doing /\ UNCHANGED <<conf, reply, store, values, wire, local, late, state>>
      /\ ev.step = "weigh" /\ Works(k) /\ Worth = Absent
  BY ConfigStays DEF Weigh, Handles, ServiceStep, Config, Works, OfAll, OfKey, Worth
<1>2. CASE Unready
  <2>1. state = "configuring" /\ conf.reload
    BY <1>2 DEF Weigh, Unready, Lapsed, Unlapsed
  <2>2. ~ Works(k)'
    <3>1. ev' = [ev EXCEPT !.step = "note"] /\ ev \in Handlings
      BY <1>2 DEF Weigh, Handles, Unlapsed, Held, Typed, Handled
    <3>2. ev'.step = "note"
      BY <3>1 DEF Handlings
    <3> QED
      BY <3>2 DEF Works, OfKey, OfAll
  <2>3. ~ Keeping /\ ~ Sure /\ Doing # "idle"
    <3>1. Doing # "idle"
      BY <2>1, Lasting DEF Unlapsed
    <3>2. ~ Sure
      BY <1>1 DEF Unlapsed, Fresh, OfKey
    <3> QED
      BY <2>1, <3>1, <3>2 DEF Keeping
  <2>4. Known => Loading
    BY <2>3, SureStages DEF Known
  <2> QED
    BY <1>1, <2>1, <2>2, <2>4, WorkedOff
<1>3. CASE ~ Unready
  <2>1. ev' = [ev EXCEPT !.step = "truncate"] /\ (k \in reqs' <=> k \in reqs) /\ ev \in Handlings
    BY <1>3, QueryConstants DEF Weigh, Handles, Unlapsed, Held, Typed, Handled
  <2>2. ev'.step = "truncate"
    BY <2>1 DEF Handlings
  <2>3. Works(k)' /\ Worth' = Worth
    BY <1>1, <2>2 DEF Works, Worth, OfAll, OfKey
  <2> QED
    BY <1>1, <2>1, <2>3, TrackQuiet
<1> QED
  BY <1>2, <1>3

\* The pseudo-key of a truncation stands beside the keys.
LEMMA NoteTracked ==
    ASSUME Unlapsed, Note, NEW k \in Keys, Tracked(k)
    PROVE  Tracked(k)'
<1> USE DEF fields, image, peer, caller, calls, history
<1>1. /\ Doing' = Doing /\ UNCHANGED <<conf, reply, store, values, wire>>
      /\ local'[k] = local[k] /\ (k \in late' <=> k \in late)
  BY ConfigStays DEF Note, ServiceStep, Config
<1>2. k \in reqs' <=> k \in reqs
  BY QueryConstants DEF Note
<1>3. (Works(k)' <=> Works(k)) /\ Worth' = Worth
  <2>1. ev.step = "note" /\ ev'.step = "idle"
    BY DEF Note, Done, Rest
  <2> QED
    BY <2>1 DEF Works, Worth, OfAll, OfKey
<1> QED
  BY <1>1, <1>2, <1>3, TrackQuiet

\* The steps of the service thread that only take an event further.
LEMMA FurtherTracked ==
    ASSUME Unlapsed, Judge \/ Ensure \/ Read \/ EnterService, NEW k \in Keys, Tracked(k)
    PROVE  Tracked(k)'
<1> USE DEF fields, image, peer, caller, calls, history
<1>1. ev \in Handlings /\ state # "disconnected"
  BY DEF Unlapsed, Held, Typed, Handled, Lapsed
<1>2. Doing' = Doing /\ UNCHANGED <<conf, reply, store, values, wire, local, late, reqs>>
  BY <1>1, ConfigStays DEF Judge, Ensure, Read, EnterService, ServiceStep, Config
<1>3. (Works(k)' <=> Works(k)) /\ Worth' = Worth
  <2>1. CASE Judge
    <3>1. ev' = [ev EXCEPT !.step = IF Unready THEN "defer" ELSE "settle"] /\ ev.step = "judge"
      BY <2>1 DEF Judge, Handles
    <3>2. ev'.step \in {"defer", "settle"} /\ ev'.key = ev.key /\ ev'.value = ev.value
      BY <1>1, <3>1 DEF Handlings
    <3> QED
      BY <3>1, <3>2 DEF Works, Worth, OfAll, OfKey
  <2>2. CASE Ensure
    <3>1. ev.step = "ensure" /\ ev'.step \in {"read", "enter"}
      BY <1>1, <2>2 DEF Ensure, Handles, Handlings
    <3> QED
      BY <3>1 DEF Works, Worth, OfAll, OfKey
  <2>3. CASE Read
    <3>1. ev.step = "read" /\ ev'.step \in {"weigh", "truncate"}
      BY <1>1, <2>3 DEF Read, Handlings
    <3> QED
      BY <3>1 DEF Works, Worth, OfAll, OfKey
  <2>4. CASE EnterService
    <3>1. ev.step = "enter" /\ ev'.step = "read"
      BY <1>1, <2>4 DEF EnterService, Handles, Handlings
    <3> QED
      BY <3>1 DEF Works, Worth, OfAll, OfKey
  <2> QED
    BY <2>1, <2>2, <2>3, <2>4
<1> QED
  BY <1>2, <1>3, TrackQuiet

\* A step of the configuration: the messages and the event are what they were.
LEMMA Moved ==
    ASSUME Typed, NEW k, Tracked(k), Known' => Known, ~ Loading, ~ Loading', UNCHANGED store,
           Keeping' \/ (values' = values /\ (~ values \/ ~ Keeping)),
           wire' = wire \/ \E m \in Messages : m.type = "reply" /\ wire' = Append(wire, m),
           ev'.step = ev.step /\ ev'.key = ev.key /\ ev'.value = ev.value,
           Known' /\ (Excused(k) \/ Rests(k)) => Excused(k)' \/ Rests(k)'
    PROVE  Tracked(k)'
<1>1. \A x : Right(k, x) => Right(k, x)'
  BY QueryStays, RightStays
<1>2. Words(k)' = Words(k) /\ \A i \in Words(k) : wire'[i] = wire[i]
  <2>1. CASE wire' = wire
    BY <2>1, WordsStay
  <2>2. ASSUME NEW m \in Messages, m.type = "reply", wire' = Append(wire, m)
        PROVE  Words(k)' = Words(k) /\ \A i \in Words(k) : wire'[i] = wire[i]
    <3>1. ~ Tells(m, k)
      BY <2>2 DEF Tells
    <3> QED
      BY <2>2, <3>1, WordsSent DEF Typed, Coming
  <2> QED
    BY <2>1, <2>2
<1>3. Pending(k)' = Words(k)' /\ Pending(k) = Words(k)
  BY DEF Pending
<1>4. (Works(k)' <=> Works(k)) /\ Worth' = Worth
  BY DEF Works, Worth
<1> QED
  BY <1>1, <1>2, <1>3, <1>4, TrackStays

\* Requests put a response on the wire.
LEMMA Requested ==
    ASSUME NEW d \in Contents, Request(d)
    PROVE  \E m \in Messages : m.type = "reply" /\ wire' = Append(wire, m)
<1>1. [type |-> "reply", data |-> d] \in Messages
  BY MessageParts
<1> QED
  BY <1>1 DEF Request

LEMMA BeginTracked ==
    ASSUME Unlapsed, NEW u \in Users, Enter(u) \/ Switch(u), NEW k \in Keys, Tracked(k)
    PROVE  Tracked(k)'
<1>1. Typed /\ ev \in Handlings
  BY DEF Unlapsed, Held, Typed, Handled
<1>2. owner = NoOne /\ Doing = "idle" /\ Ready /\ ~ Loading /\ ~ Keeping /\ ~ Filling /\ ~ Syncing /\ Known /\ reply = NoReply
  BY <1>1, Begins, Unasked DEF Unlapsed, Held, Ready, Loading, Keeping, Filling, Syncing, Known
<1>3. CASE Enter(u) /\ UNCHANGED <<fields, ev, conf, history, wire, image, peer, reply, disc, Doing>>
  BY <1>3, TrackQuiet DEF Works, Worth, fields, image, peer, history
<1>4. CASE /\ Doing' = (IF added = "none" THEN "register" ELSE "removes")
           /\ reqs' = {} /\ ev' = [ev EXCEPT !.current = FALSE]
           /\ UNCHANGED <<wire, peer, local, reply>>
           /\ (~ conf'.reload => late' = late)
  <2>1. ev'.step = ev.step /\ ev'.key = ev.key /\ ev'.value = ev.value
    BY <1>1, <1>4 DEF Handlings
  <2>2. ~ Loading' /\ ~ Filling' /\ ~ Syncing' /\ ~ Ready' /\ (Known' <=> Keeping') /\ (Keeping' => ~ conf'.reload)
    BY <1>4 DEF Loading, Filling, Syncing, Ready, Known, Keeping
  <2>3. CASE ~ Known'
    BY <2>3 DEF Tracked
  <2>4. CASE Keeping' /\ late' = late
    <3>1. Rests(k) => Rests(k)'
      <4>1. Right(k, local[k]) => Right(k, local[k])'
        <5>1. UNCHANGED store
          BY <1>4 DEF peer
        <5>2. PICK x : x = local[k]
          OBVIOUS
        <5>3. Right(k, x) => Right(k, x)'
          BY <2>4, <5>1, QueryStays, RightStays
        <5> QED
          BY <1>4, <5>2, <5>3 DEF Right
      <4> QED
        BY <1>2, <1>4, <4>1 DEF Rests
    <3>2. Excused(k) => Excused(k)'
      BY <1>2, <2>4 DEF Excused
    <3> QED
      BY <1>1, <1>2, <1>4, <2>1, <2>2, <2>4, <3>1, <3>2, Moved DEF peer
  <2> QED
    BY <1>4, <2>2, <2>3, <2>4
<1> QED
  BY <1>3, <1>4, <1>1, Begins

\* The requests for the listeners.
LEMMA ListenTracked ==
    ASSUME Unlapsed, NEW u \in Users, AskRemoves(u) \/ HasRemoves(u) \/ AskAdds(u) \/ HasAdds(u),
           NEW k \in Keys, Tracked(k)
    PROVE  Tracked(k)'
<1> USE DEF fields, image, peer, caller, history
<1>1. Typed /\ Empty \in Contents
  BY RestParts DEF Unlapsed, Held
<1>2. /\ Doing \in {"removes", "adds"} /\ Doing' \in {"removes", "adds", "load"}
      /\ Doing' = "load" => reply' = NoReply
      /\ reply # Failed /\ conf'.reload = conf.reload /\ UNCHANGED <<store, ev, values, local, reqs, late>>
      /\ wire' = wire \/ Request(Empty)
  <2>1. CASE AskRemoves(u)
    BY <1>1, <2>1, DoingSteps, ReplyParts DEF AskRemoves
  <2>2. CASE HasRemoves(u)
    <3>1. Doing = "removes" /\ Doing' = "adds"
      BY <1>1, <2>2, DoingSteps
    <3>2. reply # Failed
      BY <2>2, ReplyParts DEF HasRemoves, Answered
    <3> QED
      BY <2>2, <3>1, <3>2 DEF HasRemoves
  <2>3. CASE AskAdds(u)
    <3>1. Doing = "adds" /\ Doing' = IF Added THEN "load" ELSE "adds"
      BY <1>1, <2>3, DoingSteps
    <3>2. conf'.reload = conf.reload
      BY <1>1, <2>3 DEF AskAdds, Typed, Asks
    <3>3. reply # Failed
      BY <2>3, ReplyParts DEF AskAdds
    <3> QED
      BY <2>3, <3>1, <3>2, <3>3 DEF AskAdds
  <2>4. CASE HasAdds(u)
    BY <1>1, <2>4, DoingSteps, ReplyParts DEF HasAdds, Answered
  <2> QED
    BY <2>1, <2>2, <2>3, <2>4
<1>3. ~ Loading /\ ~ Loading' /\ (Known' => Keeping') /\ (Keeping' => Keeping)
  BY <1>2, ReplyParts DEF Loading, Known, Keeping, Filling, Syncing, Ready, Answered
<1>4. CASE ~ Known'
  BY <1>4 DEF Tracked
<1>5. CASE Known'
  <2>1. Keeping /\ Keeping' /\ Known
    BY <1>3, <1>5 DEF Known
  <2>2. Right(k, local[k]) => Right(k, local[k])'
    BY <1>2, <2>1, QueryStays DEF Right
  <2>3. Rests(k) => Rests(k)'
    BY <1>2, <2>2 DEF Rests
  <2>4. Excused(k) => Excused(k)'
    <3>1. ~ Loading /\ ~ Filling /\ ~ Syncing /\ ~ Ready
      BY <1>2 DEF Loading, Filling, Syncing, Ready
    <3> QED
      BY <1>2, <2>1, <3>1 DEF Excused
  <2>5. wire' = wire \/ \E m \in Messages : m.type = "reply" /\ wire' = Append(wire, m)
    BY <1>1, <1>2, Requested
  <2> QED
    BY <1>1, <1>2, <1>3, <2>1, <2>3, <2>4, <2>5, Moved
<1> QED
  BY <1>4, <1>5

\* The contents are asked for.
LEMMA AskLoadTracked ==
    ASSUME Unlapsed, NEW u \in Users, AskLoad(u), NEW k \in Keys, Tracked(k)
    PROVE  Tracked(k)'
<1> USE DEF fields, image, peer, history
<1>1. Typed /\ Doing = "load" /\ reply = NoReply /\ UNCHANGED <<store, ev, values, conf, reqs, late>>
  BY DoingSteps DEF AskLoad, Unlapsed, Held
<1>2. /\ store \in [Keys -> Values \cup {Absent}] /\ local \in Contents /\ ev \in Handlings /\ wire \in Seq(Messages)
      /\ reply = NoReply => Responses = {}
      /\ NoReply # Asked /\ NoReply.status = "none"
  BY <1>1, Unasked, ReplyParts DEF Unlapsed, Held, Typed, TypeOK, Handled, Contents, Coming
<1>3. ~ Loading /\ ~ Filling /\ ~ Syncing /\ ~ Ready /\ (Known <=> ~ conf.reload) /\ (Keeping <=> ~ conf.reload)
  BY <1>1, <1>2 DEF Loading, Filling, Syncing, Ready, Known, Keeping, Answered
<1>4. (Works(k)' <=> Works(k)) /\ Worth' = Worth
  BY <1>1 DEF Works, Worth
<1>5. CASE ~ (conf.reload \/ values)
  <2>1. /\ local' = [j \in Keys |-> IF j \in Present THEN Null ELSE Absent] /\ UNCHANGED <<wire, reply>>
        /\ Doing' \in {"setConfigured", "unexpected"}
    BY <1>1, <1>5, DoingSteps DEF AskLoad
  <2>2. ~ Loading' /\ ~ Keeping' /\ ~ Syncing' /\ ~ Ready' /\ (Filling' <=> Known')
    BY <2>1 DEF Loading, Keeping, Syncing, Ready, Filling, Known
  <2>3. Right(k, local[k]) => Right(k, local[k])'
    <3>1. local'[k] = Absent <=> local[k] = Absent
      BY <2>1, QueryConstants DEF Present
    <3>2. Query(k)' = Query(k)
      BY <1>1, QueryStays
    <3> QED
      BY <1>1, <1>5, <3>1, <3>2 DEF Right
  <2>4. Rests(k) => Rests(k)' \/ ~ Known'
    BY <1>1, <2>1, <2>2, <2>3 DEF Rests, Filling
  <2>5. Excused(k) /\ Known' => Excused(k)'
    BY <1>1, <1>3, <2>2 DEF Excused
  <2> QED
    BY <1>1, <1>3, <1>5, <2>1, <2>2, <2>4, <2>5, Moved
<1>6. CASE conf.reload \/ values
  <2> DEFINE d == IF conf.reload THEN Result ELSE Fetched(Present)
  <2>1. d \in Contents /\ Request(d) /\ local' = local /\ Doing' = "load"
    BY <1>1, <1>2, <1>6, DataParts, DoingSteps DEF AskLoad
  <2>2. reply' = Asked /\ Loading' /\ ~ Keeping' /\ reply' # NoReply
    BY <1>1, <1>2, <2>1 DEF Request, Loading, Keeping
  <2>3. Responses' = {Len(wire) + 1} /\ wire' = Append(wire, [type |-> "reply", data |-> d]) /\ Len(wire) \in Nat
    BY <1>1, <1>2, <2>1, ResponseSent DEF Request
  <2>4. wire'[Len(wire) + 1] = [type |-> "reply", data |-> d]
    BY <1>2, <2>1, <2>3, MessageParts, WordsSent
  <2>5. Data' = {d}
    <3>1. Data' = {wire'[i].data : i \in {Len(wire) + 1}}
      BY <2>2, <2>3 DEF Data
    <3>2. wire'[Len(wire) + 1].data = d
      BY <2>4
    <3> QED
      BY <3>1, <3>2
  <2>6. Words(k)' = Words(k) /\ Words(k) \subseteq 1..Len(wire)
    <3> DEFINE m == [type |-> "reply", data |-> d]
    <3>1. m \in Messages /\ ~ Tells(m, k)
      BY <2>1, MessageParts DEF Tells
    <3> HIDE DEF m
    <3>2. wire' = Append(wire, m)
      BY <2>3 DEF m
    <3> QED
      BY <1>2, <3>1, <3>2, WordsSent
  <2>7. Pending(k)' = {}
    <3>1. \A i \in Words(k)' : ~ (Len(wire) + 1 < i)
      BY <2>3, <2>6
    <3> QED
      BY <2>2, <2>3, <3>1 DEF Pending
  <2>8. Query(k)' = Query(k)
    BY <1>1, QueryStays
  <2> DEFINE y == IF conf.reload \/ d[k] # Absent THEN d[k] ELSE local[k]
  <2> HIDE DEF d
  <2>10. ASSUME y = Query(k) \/ (~ values /\ (y = Absent <=> Query(k) = Absent)) PROVE Rests(k)'
    <3>1. \A e : e = d => Final(e, k)' = y
      BY <1>1, <2>1 DEF Final
    <3>2. \A e : e = d => Right(k, Final(e, k))'
      BY <1>1, <2>2, <2>8, <2>10, <3>1 DEF Right
    <3> QED
      BY <2>1, <2>2, <2>5, <3>2 DEF Rests
  <2> HIDE DEF y
  <2>11. CASE conf.reload
    <3>1. d[k] = (IF ~ InQuery(store[k]) THEN Absent ELSE IF values THEN store[k] ELSE Null) /\ y = d[k]
      BY <2>11 DEF d, y, Result
    <3>2. y = Query(k) \/ (~ values /\ (y = Absent <=> Query(k) = Absent))
      BY <1>1, <3>1, RightParts, QueryConstants DEF Query
    <3> QED
      BY <2>2, <2>7, <2>10, <3>2 DEF Tracked
  <2>12. CASE ~ conf.reload
    <3>1. CASE Words(k) # {} \/ Works(k) \/ k \in reqs \cup late
      <4>1. Excused(k)'
        BY <1>1, <1>4, <2>2, <2>6, <2>12, <3>1 DEF Excused
      <4> QED
        BY <2>2, <2>7, <4>1 DEF Tracked
    <3>2. CASE ~ (Words(k) # {} \/ Works(k) \/ k \in reqs \cup late)
      <4>1. Pending(k) = {} /\ Known /\ Keeping /\ ~ Excused(k) /\ ~ Works(k)
        BY <1>3, <2>12, <3>2 DEF Pending, Excused
      <4>2. Right(k, local[k])
        BY <1>1, <4>1 DEF Tracked, Rests
      <4>3. local[k] = Absent <=> Query(k) = Absent
        BY <1>1, <4>2, RightParts
      <4>4. d[k] = IF local[k] # Absent THEN store[k] ELSE Absent
        BY <2>12 DEF d, Fetched, Present
      <4>5. Query(k) # Absent => store[k] = Query(k)
        BY DEF Query
      <4>6. y = Query(k)
        BY <2>12, <4>3, <4>4, <4>5 DEF y
      <4> QED
        BY <2>2, <2>7, <2>10, <4>6 DEF Tracked
    <3> QED
      BY <3>1, <3>2
  <2> QED
    BY <2>11, <2>12
<1> QED
  BY <1>5, <1>6

\* The image is filled and its deferred keys are read again.
LEMMA FillTracked ==
    ASSUME Unlapsed, NEW u \in Users, HasLoad(u) \/ SetConfigured(u) \/ Resolve(u), NEW k \in Keys, Tracked(k)
    PROVE  Tracked(k)'
<1> USE DEF fields, image, peer, history
<1>1. Typed /\ UNCHANGED <<store, ev, values, wire, reqs, late>>
  BY DEF HasLoad, SetConfigured, Resolve, Unlapsed, Held
<1>2. Filling /\ Known /\ ~ Loading /\ ~ Keeping /\ ~ Syncing /\ ~ Ready /\ reply' = NoReply
  <2>1. CASE HasLoad(u)
    BY <1>1, <2>1, DoingSteps, ReplyParts DEF HasLoad, Known, Filling, Loading, Keeping, Syncing, Ready, Answered
  <2>2. CASE SetConfigured(u) \/ Resolve(u)
    <3>1. Doing \in {"setConfigured", "resolve"} /\ pc[u] \in {"setConfigured", "resolve"} /\ reply' = reply
      BY <1>1, <2>2, DoingSteps DEF SetConfigured, Resolve
    <3>2. reply = NoReply
      BY <1>1, <3>1, Unasked DEF Unlapsed, Held, Asking
    <3> QED
      BY <3>1, <3>2 DEF Known, Filling, Loading, Keeping, Syncing, Ready
  <2> QED
    BY <2>1, <2>2
<1>3. ~ Keeping' /\ ~ Loading'
  <2>1. Doing' \in {"setConfigured", "resolve", "sync", "setSynchronized", "unexpected"}
    BY <1>1, DoingSteps
  <2> QED
    BY <2>1 DEF Keeping, Loading
<1>4. ASSUME NEW x, Right(k, x) PROVE Right(k, x)'
  BY <1>1, <1>2, <1>3, <1>4, QueryStays DEF Right
<1>5. CASE HasLoad(u)
  <2>1. Doing = "load" /\ Doing' \in {"setConfigured", "unexpected"} /\ reply.status = "ok" /\ reply # Asked /\ reply # NoReply
    BY <1>1, <1>5, DoingSteps, ReplyParts DEF HasLoad, Answered
  <2>2. local'[k] = Final(reply.data, k)
    BY <1>5, <2>1 DEF HasLoad, Final
  <2>3. Rests(k) => Right(k, local[k])'
    <3>1. Rests(k) => Right(k, Final(reply.data, k))
      BY <1>2, <2>1 DEF Rests, Data
    <3>2. PICK x : x = Final(reply.data, k)
      OBVIOUS
    <3> QED
      BY <1>4, <2>2, <3>1, <3>2 DEF Right
  <2>4. Rests(k) => Rests(k)'
    BY <2>1, <2>3 DEF Rests
  <2>5. Excused(k) /\ Known' => Excused(k)'
    BY <1>1, <1>2, <2>1 DEF Excused, Known, Keeping, Loading, Filling, Syncing, Ready
  <2> QED
    BY <1>1, <1>2, <1>3, <2>4, <2>5, Moved
<1>6. CASE SetConfigured(u) \/ Resolve(u)
  <2>1. Doing \in {"setConfigured", "resolve"} /\ local' = local
    BY <1>1, <1>6, DoingSteps DEF SetConfigured, Resolve
  <2>2. Rests(k) => Right(k, local[k])'
    <3>1. Rests(k) => Right(k, local[k])
      BY <2>1 DEF Rests
    <3>2. PICK x : x = local[k]
      OBVIOUS
    <3> QED
      BY <1>4, <2>1, <3>1, <3>2 DEF Right
  <2>3. CASE SetConfigured(u)
    <3>1. Doing' = "resolve" /\ Filling'
      BY <1>1, <2>3, DoingSteps DEF Filling
    <3>2. Rests(k) => Rests(k)'
      BY <2>2, <3>1 DEF Rests
    <3>3. Excused(k) => Excused(k)'
      BY <1>1, <1>2, <3>1 DEF Excused
    <3> QED
      BY <1>1, <1>2, <1>3, <3>2, <3>3, Moved
  <2>4. CASE Resolve(u) /\ reqs = {}
    <3>1. Doing' \in {"setSynchronized", "unexpected"}
      BY <1>1, <2>4, DoingSteps
    <3>2. Rests(k) => Rests(k)'
      BY <2>2, <3>1 DEF Rests
    <3>3. Excused(k) /\ Known' => Excused(k)'
      BY <1>1, <1>2, <2>4, <3>1 DEF Excused, Known, Keeping, Loading, Filling, Syncing, Ready
    <3> QED
      BY <1>1, <1>2, <1>3, <3>2, <3>3, Moved
  <2>5. CASE Resolve(u) /\ reqs # {}
    <3>1. Doing' = "sync" /\ Syncing' /\ conf'.keys = reqs
      <4>1. Doing' = "sync"
        BY <1>1, <2>5, DoingSteps
      <4>2. conf' = [conf EXCEPT !.keys = reqs] /\ conf \in [reload : BOOLEAN, had : Modes, keys : SUBSET SyncKeys]
        BY <1>1, <2>5 DEF Resolve, Typed, Asks
      <4>3. conf'.keys = reqs
        BY <4>2
      <4> QED
        BY <1>2, <4>1, <4>3, ReplyParts DEF Syncing
    <3>2. k \in reqs => Rests(k)'
      BY <1>1, <1>2, <3>1 DEF Rests
    <3>3. Rests(k) => Rests(k)'
      BY <1>1, <1>2, <2>2, <3>1 DEF Rests
    <3>4. Excused(k) => Rests(k)' \/ Excused(k)'
      BY <1>1, <1>2, <3>1, <3>2 DEF Excused
    <3> QED
      BY <1>1, <1>2, <1>3, <3>3, <3>4, Moved
  <2> QED
    BY <1>6, <2>3, <2>4, <2>5
<1> QED
  BY <1>5, <1>6

LEMMA AskSyncTracked ==
    ASSUME Unlapsed, NEW u \in Users, AskSync(u), NEW k \in Keys, Tracked(k)
    PROVE  Tracked(k)'
<1> USE DEF fields, image, peer, calls, history
<1>1. /\ Typed /\ UNCHANGED <<store, ev, values, reqs, late, local, conf>> /\ reply = NoReply /\ reply' = Asked
      /\ Doing = "sync" /\ Doing' = "sync" /\ Request(Fetched(conf.keys))
  BY DoingSteps DEF AskSync, Request, Unlapsed, Held
<1>2. /\ store \in [Keys -> Values \cup {Absent}] /\ local \in Contents /\ ev \in Handlings /\ wire \in Seq(Messages)
      /\ conf.keys \subseteq SyncKeys /\ Responses = {} /\ NoReply # Asked /\ Asked # Failed /\ NoReply # Failed
  BY <1>1, Unasked DEF Unlapsed, Held, Typed, TypeOK, Handled, Contents, Coming, Asks
<1>3. /\ Syncing /\ Syncing' /\ Known /\ ~ Loading /\ ~ Loading' /\ ~ Keeping /\ ~ Keeping'
      /\ ~ Filling /\ ~ Ready
  BY <1>1, <1>2 DEF Syncing, Known, Loading, Keeping, Filling, Ready
<1> DEFINE d == Fetched(conf.keys)
<1>4. d \in Contents
  BY <1>2, DataParts
<1>5. d[k] = IF k \in conf.keys THEN store[k] ELSE Absent
  BY DEF Fetched
<1> HIDE DEF d
<1>6. /\ Responses' = {Len(wire) + 1} /\ wire' = Append(wire, [type |-> "reply", data |-> d])
      /\ [type |-> "reply", data |-> d] \in Messages
  BY <1>1, <1>2, <1>4, ResponseSent, MessageParts DEF Request, d
<1>7. Data' = {d}
  <2>1. Data' = {wire'[i].data : i \in {Len(wire) + 1}}
    BY <1>1, <1>6 DEF Data
  <2>2. wire'[Len(wire) + 1] = [type |-> "reply", data |-> d]
    BY <1>2, <1>6, WordsSent
  <2>3. wire'[Len(wire) + 1].data = d
    BY <2>2
  <2> QED
    BY <2>1, <2>3
<1>8. Query(k)' = Query(k)
  BY <1>1, QueryStays
<1>9. ASSUME Rests(k) PROVE Rests(k)'
  <2>1. \A e : e = d => Final(e, k)' = (IF k \in reqs THEN Reread(d[k]) ELSE local[k])
    BY <1>1 DEF Final, Reread, InQuery
  <2>2. CASE k \in reqs
    <3>1. Reread(d[k]) = Query(k)
      BY <1>1, <1>5, <1>9, <2>2 DEF Rests, Reread, Query
    <3>2. \A e : e = d => Right(k, Final(e, k))'
      BY <1>8, <2>1, <2>2, <3>1 DEF Right
    <3> QED
      BY <1>1, <1>2, <1>7, <3>2 DEF Rests
  <2>3. CASE k \notin reqs
    <3>1. Right(k, local[k])
      BY <1>1, <1>9, <2>3 DEF Rests
    <3>2. \A e : e = d => Right(k, Final(e, k))'
      BY <1>1, <1>3, <1>8, <2>1, <2>3, <3>1 DEF Right
    <3> QED
      BY <1>1, <1>2, <1>7, <3>2 DEF Rests
  <2> QED
    BY <2>2, <2>3
<1>10. Excused(k) => Excused(k)'
  BY <1>1, <1>3 DEF Excused
<1>11. \E m \in Messages : m.type = "reply" /\ wire' = Append(wire, m)
  BY <1>6
<1> QED
  BY <1>1, <1>3, <1>9, <1>10, <1>11, Moved

LEMMA HasSyncTracked ==
    ASSUME Unlapsed, NEW u \in Users, HasSync(u), NEW k \in Keys, Tracked(k)
    PROVE  Tracked(k)'
<1> USE DEF fields, image, peer, history
<1>1. /\ Typed /\ UNCHANGED <<store, ev, values, late, wire>> /\ reply.status = "ok" /\ reply' = NoReply
      /\ Doing = "sync" /\ Doing' \in {"setSynchronized", "unexpected"}
  BY DoingSteps DEF HasSync, Answered, Unlapsed, Held
<1>2. reply # Asked /\ reply # NoReply /\ reply # Failed
  BY <1>1, ReplyParts
<1>3. /\ Syncing /\ Known /\ ~ Loading /\ ~ Loading' /\ ~ Keeping /\ ~ Keeping' /\ ~ Filling /\ ~ Ready
      /\ ~ Filling' /\ ~ Syncing' /\ (Known' => Ready')
  BY <1>1, <1>2 DEF Syncing, Known, Loading, Keeping, Filling, Ready
<1>4. local'[k] = Final(reply.data, k)
  BY <1>1 DEF HasSync, Final, Resolved, Reread
<1>5. Rests(k) => Rests(k)'
  <2>1. Rests(k) => Right(k, Final(reply.data, k))
    BY <1>1, <1>2, <1>3 DEF Rests, Data
  <2>2. PICK x : x = Final(reply.data, k)
    OBVIOUS
  <2>3. Right(k, x) => Right(k, x)'
    BY <1>1, <1>3, QueryStays DEF Right
  <2>4. Rests(k) => Right(k, local[k])'
    BY <1>4, <2>1, <2>2, <2>3 DEF Right
  <2> QED
    BY <1>1, <2>4 DEF Rests
<1>6. Excused(k) /\ Known' => Excused(k)'
  BY <1>1, <1>3 DEF Excused
<1> QED
  BY <1>1, <1>3, <1>5, <1>6, Moved

LEMMA SetSynchronizedTracked ==
    ASSUME Unlapsed, NEW u \in Users, SetSynchronized(u), NEW k \in Keys, Tracked(k)
    PROVE  Tracked(k)'
<1> USE DEF fields, image, peer, history
<1>1. /\ Typed /\ UNCHANGED <<store, ev, values, late, wire, local>>
      /\ Doing = "setSynchronized" /\ Doing' = "idle"
  BY DoingSteps DEF SetSynchronized, Unlapsed, Held
<1>2. /\ Ready /\ Ready' /\ Known /\ ~ Loading /\ ~ Loading' /\ ~ Keeping /\ ~ Keeping' /\ ~ Filling /\ ~ Syncing
  BY <1>1 DEF Syncing, Known, Loading, Keeping, Filling, Ready
<1>3. Right(k, local[k]) => Right(k, local[k])'
  BY <1>1, <1>2, QueryStays DEF Right
<1>4. Rests(k) => Rests(k)'
  BY <1>1, <1>3 DEF Rests
<1>5. Excused(k) => Excused(k)'
  BY <1>1, <1>2 DEF Excused
<1> QED
  BY <1>1, <1>2, <1>4, <1>5, Moved

-----------------------------------------------------------------------------
(***************************************************************************)
(* Every step keeps what is known of each key.                             *)
(***************************************************************************)
LEMMA StepTracked ==
    ASSUME Unlapsed, [Next]_vars, ~ Lapsed', NEW k \in Keys, Tracked(k)
    PROVE  Tracked(k)'
<1> USE DEF fields, image, peer, caller, calls, history
<1>1. Typed /\ Answers
  BY DEF Unlapsed, Held
<1>2. ASSUME NEW u \in Users, Catch(u) \/ Release(u) PROVE Tracked(k)'
  BY <1>2 DEF Catch, Release, Abandons, Lapsed
<1>3. CASE Die
  <2>1. ~ member /\ Doing' = Doing
    BY <1>1, <1>3, DieLapses, ConfigStays
  <2>2. Doing \notin Configures \cup {"idle"}
    BY <2>1, Lasting DEF Unlapsed
  <2>3. ~ Known'
    BY <2>1, <2>2 DEF Known, Keeping, Loading, Filling, Syncing, Ready, Configures
  <2> QED
    BY <2>3 DEF Tracked
<1>4. CASE Reconnect \/ NullCache
  BY <1>4, TrackQuiet, ConfigStays DEF Reconnect, NullCache, Works, Worth, Listener
<1>5. CASE Disconnect
  BY <1>5 DEF Disconnect, Lapsed
<1>6. ASSUME NEW u \in Users, Call(u) PROVE Tracked(k)'
  BY <1>1, <1>6, TrackQuiet, DoingSteps DEF Call, Works, Worth
<1>7. ASSUME NEW u \in Users, Timeout(u) PROVE Tracked(k)'
  <2>1. Doing' = Doing /\ Doing \in Asking /\ reply' = Failed
    <3>1. owner = u /\ reply = Asked /\ reply' = Failed
      BY <1>7 DEF Timeout, Awaits
    <3>2. pc[u] \in Asking
      BY <1>1, <3>1, Unasked, OneConfigures, DoingParts
    <3> QED
      BY <1>1, <1>7, <3>1, <3>2, DoingParts, DoingSteps
  <2>2. ~ Known'
    BY <2>1, ReplyParts DEF Known, Keeping, Loading, Filling, Syncing, Ready, Asking, Answered
  <2> QED
    BY <2>2 DEF Tracked
<1>8. ASSUME NEW u \in Users, Register(u) PROVE Tracked(k)'
  <2>1. Doing' = "removes" /\ conf'.reload
    BY <1>1, <1>8, DoingSteps DEF Register, Unlapsed, Held, Begun
  <2>2. ~ Known'
    BY <2>1 DEF Known, Keeping, Loading, Filling, Syncing, Ready
  <2> QED
    BY <2>2 DEF Tracked
<1>9. ASSUME NEW u \in Users, Enter(u) \/ Switch(u) PROVE Tracked(k)'
  BY <1>9, BeginTracked
<1>10. ASSUME NEW u \in Users, CallerStep(u) \/ Refused(u) PROVE Tracked(k)'
  BY <1>2, <1>8, <1>10, ListenTracked, AskLoadTracked, FillTracked, AskSyncTracked, HasSyncTracked, SetSynchronizedTracked
     DEF CallerStep, Unexpected, Throw, Refused
<1>11. ASSUME NEW c \in Keys, NEW v \in Values \cup {Absent}, Write(c, v) PROVE Tracked(k)'
  BY <1>11, WriteTracked
<1>12. CASE Truncate
  BY <1>12, TruncateTracked
<1>13. CASE Take
  BY <1>13, ReplyTracked, EventTracked
<1>14. CASE ServiceStep \/ EnterService
  BY <1>13, <1>14, DeferTracked, SettleTracked, ApplyTracked, WeighTracked, NoteTracked, FurtherTracked DEF ServiceStep
<1>15. CASE UNCHANGED vars
  BY <1>15, TrackQuiet, ConfigStays DEF vars, Works, Worth
<1> QED
  BY <1>2, <1>3, <1>4, <1>5, <1>6, <1>7, <1>9, <1>10, <1>11, <1>12, <1>14, <1>15 DEF Next, Listener

\* The image and what is on its way to it.
Imaged == ~ Lapsed => Placed /\ Fresh /\ \A k \in Keys : Tracked(k)

LEMMA StepImaged ==
    ASSUME Held, Imaged, [Next]_vars
    PROVE  Imaged'
<1>1. CASE Lapsed'
  BY <1>1 DEF Imaged
<1>2. CASE ~ Lapsed'
  <2>1. Placed' /\ Fresh'
    BY <1>2, StepPlaced, StepFresh DEF Imaged
  <2>2. ASSUME NEW k \in Keys PROVE Tracked(k)'
    <3>1. CASE Lapsed
      <4>1. Doing' \in {"register", "removes"} /\ conf'.reload
        BY <1>2, <3>1, StillLapsed DEF Held
      <4>2. ~ Known'
        BY <4>1 DEF Known, Keeping, Loading, Filling, Syncing, Ready
      <4> QED
        BY <4>2 DEF Tracked
    <3>2. CASE ~ Lapsed
      BY <1>2, <2>2, <3>2, StepTracked DEF Imaged, Unlapsed
    <3> QED
      BY <3>1, <3>2
  <2> QED
    BY <2>1, <2>2 DEF Imaged
<1> QED
  BY <1>1, <1>2

\* Once things are quiet, the image is what the query says, whatever the order of events,
\* responses, switches, releases and lost connections, except for a key whose event was
\* deferred too late and except after what the marks stand for (configureSynchronization,
\* isEventDeferred and the listeners).
THEOREM ExactHolds == Spec => []Exact
<1> DEFINE Inv == Held /\ Imaged
<1>1. Init => Inv
  <2> SUFFICES ASSUME Init PROVE Inv
    OBVIOUS
  <2>1. Staged /\ Attentive
    BY QueryConstants DEF Init, Staged, Early, Attentive, Configures
  <2>2. Answers /\ Registered
    BY QueryConstants DEF Init, Answers, Responses, Registered, Configures, Silent
  <2>3. Begun /\ Imaged
    BY DEF Init, Begun, Doing, NoConf, Imaged, Lapsed
  <2> QED
    BY <2>1, <2>2, <2>3, InitTyped DEF Held
<1>2. Inv /\ [Next]_vars => Inv'
  BY StepTyped, StepStaged, StepAnswers, StepRegistered, StepAttentive, StepBegun, StepImaged DEF Held
<1>3. Inv => Exact
  <2> SUFFICES ASSUME Held, Imaged, Quiet, marks = {}, NEW k \in Keys \ late PROVE Agrees(k)
    BY DEF Exact
  <2>1. ~ Lapsed /\ Doing = "idle" /\ Typed
    BY DEF Quiet, Lapsed, Doing, Held
  <2>2. Ready /\ Known /\ ~ Keeping /\ ~ Loading /\ ~ Filling /\ ~ Syncing
    BY <2>1 DEF Ready, Known, Keeping, Loading, Filling, Syncing
  <2>3. Pending(k) = {} /\ ~ Works(k)
    BY DEF Quiet, Pending, Words, Works, OfKey, OfAll
  <2>4. Excused(k) \/ Rests(k)
    BY <2>1, <2>2, <2>3 DEF Imaged, Tracked
  <2>5. Right(k, local[k])
    BY <2>1, <2>2, <2>4 DEF Excused, Rests
  <2> QED
    BY <2>1, <2>2, <2>5, RightParts DEF Right, Agrees, Query
<1> QED
  BY <1>1, <1>2, <1>3, PTL DEF Spec
=============================================================================
