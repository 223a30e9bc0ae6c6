----------------------------- MODULE RoomAccess -----------------------------
(***************************************************************************)
(* Rooms, their passwords, owners, members and invitations (domain/room,   *)
(* httpapi/rooms.go, httpapi/room_access.go).  Every write is one          *)
(* transaction of the single writer; what is decided before it, by         *)
(* UpdateDetails, asked for by Delete, or handed out after the read, by    *)
(* VerifyAccess, may meet any other write in between.  Which session a caller holds is the matter *)
(* of Sessions; here a caller is its user, and Admins are the users whose  *)
(* role is administrator.                                                  *)
(***************************************************************************)
EXTENDS Naturals, FiniteSets

CONSTANTS
    Users, Admins,   \* people; those who are administrators
    Rooms, Lounge,   \* room ids ever used; the system room among them
    Names,           \* room names
    Invites,         \* invitations ever made (bound)
    Callers,         \* requests in progress at once (bound)
    MaxPasswords,    \* room passwords ever set (bound)
    MaxVersion,      \* password_version stops here (bound)
    System, None

VARIABLES
    room,      \* per id: its row, or its absence
    member,    \* room_membership: per room and user, "none", "MEMBER" or "OWNER"
    invite,    \* room_invite: per invitation its room and state
    ticket,    \* per user: the room access cookie of the user's browser
    call,      \* per caller: what UpdateDetails or VerifyAccess read, what Delete was asked for
    passwords  \* how many room passwords were ever set

vars == <<room, member, invite, ticket, call, passwords>>

Idle == [op |-> "idle"]
Absent == [status |-> "none"]

Active(r) == room[r].status = "active"
Members(r) == {u \in Users : member[r][u] # "none"}
Owners(r) == {u \in Users : member[r][u] = "OWNER"}
OwnersIn(roles) == {u \in Users : roles[u] = "OWNER"}

NewRoom(name, owner, private, pw) ==
    [status |-> "active", name |-> name, owner |-> owner, private |-> private, pw |-> pw,
     ver |-> IF private THEN 1 ELSE 0]

\* ensureRoomNameAvailable
NameAvailable(name, except) == \A r \in Rooms : Active(r) /\ room[r].name = name => r = except

\* CanEdit, and canEditRoomTx inside the transaction.
CanEdit(u, r) ==
    /\ Active(r)
    /\ \/ u \in Admins
       \/ r # Lounge /\ (room[r].owner = u \/ u \in Owners(r))

\* roomAccessAllowed: who enters a room.
RoomAccessAllowed(u, r) ==
    /\ Active(r)
    /\ \/ ~room[r].private \/ u \in Admins \/ room[r].owner = u
       \/ ticket[u] # None /\ ticket[u].room = r /\ ticket[u].ver = room[r].ver

\* The lounge and, in a database of an earlier version, one room more: as
\* MigrateMemberAccountsToGuests leaves it, or with owners made before
\* SetOwner moved the pointer.
Init ==
    \E other \in Rooms \ {Lounge}, pointer \in Users, name \in Names, own \in SUBSET Users :
        LET lounge == NewRoom(CHOOSE n \in Names : TRUE, System, FALSE, 0)
        IN  /\ name # lounge.name
            /\ pointer \in (IF own = {} THEN Admins ELSE own)
            /\ \E old \in {NewRoom(name, pointer, FALSE, 0)} \cup (IF own = {} THEN {Absent} ELSE {}) :
                 room = [r \in Rooms |-> IF r = Lounge THEN lounge ELSE IF r = other THEN old ELSE Absent]
            /\ member = [r \in Rooms |-> [u \in Users |-> IF r = other /\ u \in own THEN "OWNER" ELSE "none"]]
            /\ invite = [i \in Invites |-> [status |-> "unused"]]
            /\ ticket = [u \in Users |-> None]
            /\ call = [c \in Callers |-> Idle]
            /\ passwords = 0

-----------------------------------------------------------------------------
(* Rooms *)

\* Administrators only (websocket.go createRoom).
Create(u, r, name, private) ==
    /\ u \in Admins /\ room[r] = Absent /\ NameAvailable(name, None)
    /\ private => passwords < MaxPasswords
    /\ passwords' = IF private THEN passwords + 1 ELSE passwords
    /\ room' = [room EXCEPT ![r] = NewRoom(name, u, private, IF private THEN passwords' ELSE 0)]
    /\ member' = [member EXCEPT ![r][u] = "OWNER"]
    /\ UNCHANGED <<invite, ticket, call>>

\* What a caller asks for: visibility TRUE, FALSE or None (leave it),
\* whether a password is given, and whether the present one is to be kept;
\* both are for private rooms.
Inputs == {input \in [name : Names, private : {TRUE, FALSE, None}, given : BOOLEAN, keep : BOOLEAN] :
             input.private = FALSE => ~input.given /\ ~input.keep}

UpdateRead(c, u, r, input) ==
    /\ call[c] = Idle /\ CanEdit(u, r)
    /\ call' = [call EXCEPT ![c] = [op |-> "update", user |-> u, room |-> r, input |-> input]]
    /\ UNCHANGED <<room, member, invite, ticket, passwords>>

\* Mutant: the version only counts replaced passwords, not a room's first one.
ResultingFirstUncounted(row, input, newPassword) ==
    LET private == IF input.private = None THEN row.private ELSE input.private
        kept == (input.keep \/ (input.private = None /\ ~input.given)) /\ row.private /\ row.pw # 0
    IN  CASE private /\ kept -> row
          [] private /\ ~kept /\ input.given ->
               [row EXCEPT !.private = TRUE, !.pw = newPassword, !.ver = IF row.private THEN @ + 1 ELSE @]
          [] private /\ ~kept /\ ~input.given -> None
          [] ~private -> [row EXCEPT !.private = FALSE, !.pw = 0, !.ver = IF row.private THEN @ + 1 ELSE @]

\* The visibility and password fields after an update with this input, or
\* None when a private room would be left without a password.
Resulting(row, input, newPassword) ==
    LET private == IF input.private = None THEN row.private ELSE input.private
        kept == (input.keep \/ (input.private = None /\ ~input.given)) /\ row.private /\ row.pw # 0
    IN  CASE private /\ kept -> row
          [] private /\ ~kept /\ input.given -> [row EXCEPT !.private = TRUE, !.pw = newPassword, !.ver = @ + 1]
          [] private /\ ~kept /\ ~input.given -> None
          [] ~private -> [row EXCEPT !.private = FALSE, !.pw = 0, !.ver = IF row.private THEN @ + 1 ELSE @]

\* Mutant: the transaction trusts the CanEdit that came before it.
UpdateUnchecked(c) ==
    /\ call[c].op = "update" /\ passwords < MaxPasswords
    /\ LET r == call[c].room  next == Resulting(room[r], call[c].input, passwords + 1)
       IN  IF Active(r) /\ next # None /\ NameAvailable(call[c].input.name, r)
           THEN /\ room' = [room EXCEPT ![r] = [next EXCEPT !.name = call[c].input.name]]
                /\ passwords' = IF next.pw > passwords THEN next.pw ELSE passwords
           ELSE UNCHANGED <<room, passwords>>
    /\ call' = [call EXCEPT ![c] = Idle]
    /\ UNCHANGED <<member, invite, ticket>>

\* The name is looked up only when it changes.
UpdateDetails(c) ==
    /\ call[c].op = "update" /\ passwords < MaxPasswords
    /\ room[call[c].room].status = "active" => room[call[c].room].ver < MaxVersion
    /\ LET r == call[c].room  name == call[c].input.name
           next == Resulting(room[r], call[c].input, passwords + 1)
       IN  IF CanEdit(call[c].user, r) /\ (name = room[r].name \/ NameAvailable(name, r)) /\ next # None
           THEN /\ room' = [room EXCEPT ![r] = [next EXCEPT !.name = name]]
                /\ passwords' = IF next.pw > passwords THEN next.pw ELSE passwords
           ELSE UNCHANGED <<room, passwords>>
    /\ call' = [call EXCEPT ![c] = Idle]
    /\ UNCHANGED <<member, invite, ticket>>

\* Delete resolves the session, looks at nothing else, and queues its write.
DeleteRequest(c, u, r) ==
    /\ call[c] = Idle
    /\ call' = [call EXCEPT ![c] = [op |-> "delete", user |-> u, room |-> r]]
    /\ UNCHANGED <<room, member, invite, ticket, passwords>>

\* Deletion marks the row; what hangs on the room goes with it.
Unroom(r) ==
    /\ room' = [room EXCEPT ![r].status = "deleted"]
    /\ member' = [member EXCEPT ![r] = [v \in Users |-> "none"]]
    /\ invite' = [i \in Invites |-> IF invite[i].status # "unused" /\ invite[i].room = r
                                    THEN [invite[i] EXCEPT !.status = "gone"] ELSE invite[i]]

\* Mutant: the transaction does not look at who asked.
DeleteUnchecked(c) ==
    /\ call[c].op = "delete"
    /\ IF Active(call[c].room) /\ call[c].room # Lounge
       THEN Unroom(call[c].room) ELSE UNCHANGED <<room, member, invite>>
    /\ call' = [call EXCEPT ![c] = Idle]
    /\ UNCHANGED <<ticket, passwords>>

\* The transaction asks canEditRoomTx of its caller.  The hook that follows is
\* RoomLifecycle's.
Delete(c) ==
    /\ call[c].op = "delete"
    /\ IF CanEdit(call[c].user, call[c].room) /\ call[c].room # Lounge
       THEN Unroom(call[c].room) ELSE UNCHANGED <<room, member, invite>>
    /\ call' = [call EXCEPT ![c] = Idle]
    /\ UNCHANGED <<ticket, passwords>>

-----------------------------------------------------------------------------
(* Passwords of private rooms *)

\* VerifyAccess: one read of the row; a public room asks for nothing.
\* (An administrator needs no ticket.)
VerifyAccess(c, u, r) ==
    /\ call[c] = Idle /\ Active(r) /\ u \notin Admins
    /\ call' = [call EXCEPT ![c] = [op |-> "verified", user |-> u,
                                    ticket |-> [room |-> r, ver |-> room[r].ver, pw |-> room[r].pw]]]
    /\ UNCHANGED <<room, member, invite, ticket, passwords>>

\* The answer sets the one cookie the browser keeps for this.
EstablishRoomAccess(c) ==
    /\ call[c].op = "verified"
    /\ ticket' = [ticket EXCEPT ![call[c].user] = call[c].ticket]
    /\ call' = [call EXCEPT ![c] = Idle]
    /\ UNCHANGED <<room, member, invite, passwords>>

\* The ticket expires, or the server restarts with a secret of its own.
TicketLapses(u) ==
    /\ ticket[u] # None
    /\ ticket' = [ticket EXCEPT ![u] = None]
    /\ UNCHANGED <<room, member, invite, call, passwords>>

-----------------------------------------------------------------------------
(* Members and owners; administrators only *)

\* syncOwnerPointer after the membership of u became roles[u].
SyncOwnerPointer(r, u, roles) ==
    IF Active(r) /\ room[r].owner = u
    THEN \E next \in (IF OwnersIn(roles) = {} THEN {None} ELSE OwnersIn(roles)) :
            room' = [room EXCEPT ![r].owner = next]
    ELSE UNCHANGED room

\* Mutant: only a removal moves the pointer away, not the loss of the role.
ChangeUnsynced(r, u, role) ==
    /\ member[r][u] # "none"
    /\ ~(member[r][u] = "OWNER" /\ Cardinality(Owners(r)) <= 1)
    /\ member' = [member EXCEPT ![r][u] = role]
    /\ IF role = "none" THEN SyncOwnerPointer(r, u, member'[r]) ELSE UNCHANGED room
    /\ UNCHANGED <<invite, ticket, call, passwords>>

\* RemoveMember (role "none") and SetOwner(false) (role "MEMBER"); the last owner stays.
ChangeMembership(r, u, role) ==
    /\ member[r][u] # "none"
    /\ ~(member[r][u] = "OWNER" /\ Cardinality(Owners(r)) <= 1)
    /\ member' = [member EXCEPT ![r][u] = role]
    /\ SyncOwnerPointer(r, u, member'[r])
    /\ UNCHANGED <<invite, ticket, call, passwords>>

\* SetOwner(true): the pointer moves, its previous user steps down.
GrantOwner(r, u) ==
    LET previous == room[r].owner
    IN  /\ member[r][u] # "none" /\ Active(r)
        /\ member' = [member EXCEPT ![r] =
              [v \in Users |-> IF v = u THEN "OWNER"
                               ELSE IF v = previous /\ @[v] = "OWNER" THEN "MEMBER" ELSE @[v]]]
        /\ room' = [room EXCEPT ![r].owner = u]
        /\ UNCHANGED <<invite, ticket, call, passwords>>

-----------------------------------------------------------------------------
(* Invitations *)

CreateInvite(r, i) ==
    /\ Active(r) /\ invite[i].status = "unused"
    /\ invite' = [invite EXCEPT ![i] = [status |-> "open", room |-> r]]
    /\ UNCHANGED <<room, member, ticket, call, passwords>>

\* A used invitation is revoked already.
RevokeInvite(i) ==
    /\ invite[i].status = "open"
    /\ invite' = [invite EXCEPT ![i].status = "revoked"]
    /\ UNCHANGED <<room, member, ticket, call, passwords>>

\* RedeemInvite and UpgradeGuestToUser: who redeems has no account yet, and so
\* neither a membership nor an earlier invitation.
RedeemInvite(u, i) ==
    /\ invite[i].status = "open" /\ u \notin Admins
    /\ \A r \in Rooms : member[r][u] = "none" /\ (room[r] # Absent => room[r].owner # u)
    /\ \A j \in Invites : invite[j].status \in {"used", "gone"} /\ "by" \in DOMAIN invite[j] => invite[j].by # u
    /\ invite' = [invite EXCEPT ![i] = [status |-> "used", room |-> @.room, by |-> u]]
    /\ member' = [member EXCEPT ![invite[i].room][u] = "MEMBER"]
    /\ UNCHANGED <<room, ticket, call, passwords>>

-----------------------------------------------------------------------------
Next ==
    \/ \E u \in Users, r \in Rooms, name \in Names, private \in BOOLEAN : Create(u, r, name, private)
    \/ \E c \in Callers, u \in Users, r \in Rooms, input \in Inputs : UpdateRead(c, u, r, input)
    \/ \E c \in Callers : UpdateDetails(c)
    \/ \E c \in Callers, u \in Users, r \in Rooms : DeleteRequest(c, u, r)
    \/ \E c \in Callers : Delete(c)
    \/ \E c \in Callers, u \in Users, r \in Rooms : VerifyAccess(c, u, r)
    \/ \E c \in Callers : EstablishRoomAccess(c)
    \/ \E u \in Users : TicketLapses(u)
    \/ \E r \in Rooms, u \in Users, role \in {"none", "MEMBER"} : ChangeMembership(r, u, role)
    \/ \E r \in Rooms, u \in Users : GrantOwner(r, u)
    \/ \E r \in Rooms, i \in Invites : CreateInvite(r, i)
    \/ \E i \in Invites : RevokeInvite(i)
    \/ \E u \in Users, i \in Invites : RedeemInvite(u, i)

Spec == Init /\ [][Next]_vars

-----------------------------------------------------------------------------
(* Properties *)

\* Who enters a private room with a ticket gave the password the room has
\* now: a ticket handed out while the room was public, or for a password
\* that was replaced, is worth nothing, however late it arrives.
TicketsProvePassword ==
    \A r \in Rooms, u \in Users :
        RoomAccessAllowed(u, r) /\ room[r].private /\ u \notin Admins /\ room[r].owner # u =>
            ticket[u].pw = room[r].pw

\* The owner a room points at is one of its OWNER members; a room without
\* any points at an administrator or the system.  So it never loses its last.
OwnersAgree ==
    \A r \in Rooms : Active(r) =>
        IF Owners(r) = {} THEN room[r].owner \in Admins \cup {System} ELSE room[r].owner \in Owners(r)

\* A room's name, visibility and password change, and a room is deleted,
\* only by the end of a call for just that whose caller may edit the room in
\* the state the change is made in: a right lost after the call was made is
\* of no use.  The lounge is not deleted.
EditIsAuthorised ==
    \A r \in Rooms : Active(r) /\ [room'[r] EXCEPT !.owner = room[r].owner] # room[r] =>
        /\ \E c \in Callers :
              /\ call[c].op = IF Active(r)' THEN "update" ELSE "delete"
              /\ call'[c] = Idle /\ call[c].room = r /\ CanEdit(call[c].user, r)
        /\ r = Lounge => Active(r)'
EditsAreAuthorised == [][EditIsAuthorised]_vars
=============================================================================
