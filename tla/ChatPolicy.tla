----------------------------- MODULE ChatPolicy -----------------------------
(***************************************************************************)
(* Sending chat messages: the slot a message takes before it is written    *)
(* (realtime/chat_policy.go, RoomRuntime.AppendChat), and the write with   *)
(* its retention (repository_playback_chat.go), while other messages of    *)
(* the same user are under way, requests end early and rooms are deleted.  *)
(* Public is the stream of no room.  Contents and broadcasts are left out, *)
(* and a restart, which forgets the slots.                                 *)
(***************************************************************************)
EXTENDS Naturals, FiniteSets, FiniteSetsExt

CONSTANTS
    Users, Rooms, Public,
    MinInterval,  \* ChatLimits.MinInterval
    MaxHistory,   \* ChatLimits.MaxHistorySize
    MaxSlots,     \* the 10000 slots of reserve
    MaxTime,      \* bounds the clock
    Senders, None

VARIABLES
    now,
    lastSent,  \* chatPolicy.lastSent: a time, or None
    sending,   \* per message under way, what it holds
    stored,    \* chat_message per stream: rows [user, time, row]
    active     \* the rooms not deleted

vars == <<now, lastSent, sending, stored, active>>

Streams == Rooms \cup {Public}
Keys == Streams \X Users
Idle == [op |-> "idle"]
Slots == {k \in Keys : lastSent[k] # None}

\* The lock is taken before the clock that was read goes on.
Tick ==
    /\ now < MaxTime /\ \A x \in Senders : sending[x].op # "reserve"
    /\ now' = now + 1
    /\ UNCHANGED <<lastSent, sending, stored, active>>

\* A message arrives; the clock is read before the policy's lock is taken.
Arrive(x, k) ==
    /\ sending[x] = Idle
    /\ sending' = [sending EXCEPT ![x] = [op |-> "reserve", key |-> k, time |-> now]]
    /\ UNCHANGED <<now, lastSent, stored, active>>

Lapsed(t) == {k \in Slots : t >= lastSent[k] + MinInterval}

\* The slots forgotten to make room for another.
Full(t) == IF Cardinality(Slots) < MaxSlots THEN {} ELSE Lapsed(t)

\* reserve
Reserve(x) ==
    LET k == sending[x].key  t == sending[x].time
        limited == lastSent[k] # None /\ t < lastSent[k] + MinInterval
        forgotten == Full(t)
        kept == [q \in Keys |-> IF q \in forgotten THEN None ELSE lastSent[q]]
        room == Cardinality(Slots \ forgotten) < MaxSlots
    IN  /\ sending[x].op = "reserve"
        /\ lastSent' = IF limited THEN lastSent ELSE IF room THEN [kept EXCEPT ![k] = t] ELSE kept
        /\ sending' = [sending EXCEPT ![x] = IF limited \/ ~room THEN Idle ELSE [@ EXCEPT !.op = "write"]]
        /\ UNCHANGED <<now, stored, active>>

\* Mutant: the slot is freed whoever holds it by now.
ReleasedAlways(k, t) == [lastSent EXCEPT ![k] = None]

\* release
Released(k, t) == IF lastSent[k] = t THEN [lastSent EXCEPT ![k] = None] ELSE lastSent

\* appendChatMessage: the new row follows every other.
Inserted(rows, u, t) == rows \cup {[user |-> u, time |-> t, row |-> 1 + Max({0} \cup {m.row : m \in rows})]}

\* AppendMessageRetaining: the newest by time and then by row stay.
Retained(rows) ==
    LET newer(m) == {n \in rows : n.time > m.time \/ (n.time = m.time /\ n.row > m.row)}
    IN  {m \in rows : Cardinality(newer(m)) < MaxHistory}

\* The request may have ended by then: the caller gets an error, and keeps
\* its slot.
Write(x) ==
    LET k == sending[x].key
    IN  /\ sending[x].op = "write" /\ k[1] \in active \cup {Public}
        /\ stored' = [stored EXCEPT ![k[1]] = Retained(Inserted(@, k[2], sending[x].time))]
        /\ sending' = [sending EXCEPT ![x] = Idle]
        /\ UNCHANGED <<now, lastSent, active>>

\* The write fails, or is refused as its room is gone; the slot is given
\* back, unless the request has ended or the store is closed.
WriteFails(x) ==
    /\ sending[x].op = "write"
    /\ \/ lastSent' = Released(sending[x].key, sending[x].time)
       \/ UNCHANGED lastSent
    /\ sending' = [sending EXCEPT ![x] = Idle]
    /\ UNCHANGED <<now, stored, active>>

\* room.Service.Delete
DeleteRoom(r) ==
    /\ r \in active
    /\ active' = active \ {r}
    /\ stored' = [stored EXCEPT ![r] = {}]
    /\ UNCHANGED <<now, lastSent, sending>>

Init ==
    /\ now = 0 /\ active = Rooms
    /\ lastSent = [k \in Keys |-> None]
    /\ sending = [x \in Senders |-> Idle]
    /\ stored = [s \in Streams |-> {}]

Next ==
    \/ Tick
    \/ \E x \in Senders, k \in Keys : Arrive(x, k)
    \/ \E x \in Senders : Reserve(x) \/ Write(x) \/ WriteFails(x)
    \/ \E r \in Rooms : DeleteRoom(r)

Spec == Init /\ [][Next]_vars

-----------------------------------------------------------------------------
(* Properties *)

\* Two messages of one user in one stream are MinInterval apart, whatever
\* order their clocks were read, their slots taken, their writes ended and
\* the slots of failed ones given back in, and with the slots all taken.
MessagesAreSpaced ==
    \A s \in Streams : \A m, n \in stored[s] :
        m # n /\ m.user = n.user =>
            m.time >= n.time + MinInterval \/ n.time >= m.time + MinInterval
=============================================================================
