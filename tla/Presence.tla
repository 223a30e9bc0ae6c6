------------------------------ MODULE Presence ------------------------------
(***************************************************************************)
(* Who is online in a room (ws/hub.go, websocket.go, roomPresenceStore.ts):*)
(* connections join and leave under the hub's lock, each with a revision;  *)
(* the snapshots are sent after the lock, each to the connections of that  *)
(* later moment and one by one; a waiting snapshot is replaced by the one  *)
(* sent after it; a browser shows only newer revisions.  One room; a       *)
(* rename is a revision with the same users, and other messages of the     *)
(* queues are left out.                                                    *)
(***************************************************************************)
EXTENDS Naturals, FiniteSets

CONSTANTS
    Browsers, Users,
    MaxRevision,    \* bounds the revisions
    MaxBroadcasts,  \* bounds the broadcasts under way
    None

VARIABLES
    rooms,      \* Hub.rooms: the user of each browser's connection, or None
    revision,   \* Hub.presenceRevisions
    sends,      \* broadcasts under way: [snapshot, to], to None until it is read
    waiting,    \* Client.queue per browser: the snapshot that waits, or None
    shown,      \* the presence store: [revision, users]
    happened    \* who was online at each revision of this process

vars == <<rooms, revision, sends, waiting, shown, happened>>

Revisions == 0..MaxRevision
Connected == {b \in Browsers : rooms[b] # None}
Online(r) == {r[b] : b \in {c \in Browsers : r[c] # None}}
Snapshot(r, n) == [revision |-> n, users |-> Online(r)]
Room == Cardinality(sends) < MaxBroadcasts

\* A change under the hub's lock.
Changed(next) ==
    /\ revision < MaxRevision
    /\ revision' = revision + 1
    /\ happened' = [happened EXCEPT ![revision + 1] = Online(next)]
    /\ rooms' = next

\* register, for a browser that enters the room and empties its store, or
\* that connects again and keeps it.
Register(b, u) ==
    /\ rooms[b] = None
    /\ Changed([rooms EXCEPT ![b] = u])
    /\ shown' \in {shown, [shown EXCEPT ![b] = [revision |-> 0, users |-> {}]]}
    /\ UNCHANGED <<sends, waiting>>

\* handle, after the state was sent: everyone gets a snapshot of now.
Announce(b) ==
    /\ rooms[b] # None /\ Room
    /\ sends' = sends \cup {[snapshot |-> Snapshot(rooms, revision), to |-> None]}
    /\ UNCHANGED <<rooms, revision, waiting, shown, happened>>

\* Unregister, and CloseSessionHashes for connections of one user.  A closed
\* connection takes no snapshot any more.
Leave(gone) ==
    LET next == [b \in Browsers |-> IF b \in gone THEN None ELSE rooms[b]]
        left == {s \in sends : s.to = None}
            \cup {[s EXCEPT !.to = @ \ gone] : s \in {t \in sends : t.to # None /\ t.to \ gone # {}}}
    IN  /\ gone # {} /\ gone \subseteq Connected /\ Room
        /\ Changed(next)
        /\ sends' = left \cup {[snapshot |-> Snapshot(next, revision + 1), to |-> None]}
        /\ waiting' = [b \in Browsers |-> IF b \in gone THEN None ELSE waiting[b]]
        /\ UNCHANGED shown

Unregister(b) == Leave({b})
CloseSessionHashes(u) == Leave({b \in Connected : rooms[b] = u})

\* UpdateUserSession
UpdateUserSession(u) ==
    /\ u \in Online(rooms) /\ Room
    /\ Changed(rooms)
    /\ sends' = sends \cup {[snapshot |-> Snapshot(rooms, revision + 1), to |-> None]}
    /\ UNCHANGED <<waiting, shown>>

\* BroadcastRoom reads the connections, then sends to each.
ReadTargets(s) ==
    /\ s.to = None
    /\ sends' = (sends \ {s}) \cup IF Connected = {} THEN {} ELSE {[s EXCEPT !.to = Connected]}
    /\ UNCHANGED <<rooms, revision, waiting, shown, happened>>

Send(s, b) ==
    /\ s.to # None /\ b \in s.to
    /\ sends' = (sends \ {s}) \cup IF s.to = {b} THEN {} ELSE {[s EXCEPT !.to = @ \ {b}]}
    /\ waiting' = [waiting EXCEPT ![b] = s.snapshot]
    /\ UNCHANGED <<rooms, revision, shown, happened>>

\* users.online, which a browser asks for as it connects again.
Ask(b) ==
    /\ rooms[b] # None
    /\ waiting' = [waiting EXCEPT ![b] = Snapshot(rooms, revision)]
    /\ UNCHANGED <<rooms, revision, sends, shown, happened>>

\* Mutant: a snapshot as old as the one shown, or older, is shown.
ApplyAny(b) ==
    /\ waiting[b] # None
    /\ waiting' = [waiting EXCEPT ![b] = None]
    /\ shown' = [shown EXCEPT ![b] = waiting[b]]
    /\ UNCHANGED <<rooms, revision, sends, happened>>

\* apply
Apply(b) ==
    /\ waiting[b] # None
    /\ waiting' = [waiting EXCEPT ![b] = None]
    /\ shown' = IF waiting[b].revision > shown[b].revision THEN [shown EXCEPT ![b] = waiting[b]] ELSE shown
    /\ UNCHANGED <<rooms, revision, sends, happened>>

Init ==
    /\ rooms = [b \in Browsers |-> None]
    /\ revision = 0 /\ happened = [n \in Revisions |-> {}]
    /\ sends = {} /\ waiting = [b \in Browsers |-> None]
    /\ shown = [b \in Browsers |-> [revision |-> 0, users |-> {}]]

Next ==
    \/ \E b \in Browsers, u \in Users : Register(b, u)
    \/ \E b \in Browsers : Announce(b) \/ Unregister(b) \/ Ask(b) \/ Apply(b)
    \/ \E u \in Users : CloseSessionHashes(u) \/ UpdateUserSession(u)
    \/ \E s \in sends : ReadTargets(s) \/ \E b \in Browsers : Send(s, b)

Spec == Init /\ [][Next]_vars

-----------------------------------------------------------------------------
(* Properties *)

\* What a browser shows under a revision is who was online at that revision,
\* and in one connection its revisions only grow, although snapshots are
\* sent in another order than they were taken in: nobody who was seen to
\* leave comes back by a late one.
MovesOn ==
    \A b \in Connected : b \in Connected' =>
        /\ shown'[b].revision >= shown[b].revision
        /\ shown'[b].users = happened'[shown'[b].revision]
PresenceMovesOn == [][MovesOn]_vars
=============================================================================
