---------------------------- MODULE Catalog_proofs ----------------------------
(***************************************************************************)
(* That rooms, playlists and music sources keep what they promise in every *)
(* instance: for each part an invariant that its Init establishes and each *)
(* of its actions keeps, and at the end their composition.  What the local *)
(* library promises is proved in LocalLibrary_proofs.                      *)
(***************************************************************************)
EXTENDS Catalog, FiniteSetTheorems, WellFoundedInduction, TLAPS

-----------------------------------------------------------------------------
(* Rooms, owners and tickets *)

AccessRow ==
    [status : {"active", "deleted"}, name : Names, owner : Users \cup {System, None},
     private : BOOLEAN, pw : Nat, ver : Nat]
AccessTicket == [room : Rooms, ver : Nat, pw : Nat]
AccessCall ==
    [op : {"idle"}]
    \cup [op : {"update"}, user : Users, room : Rooms, input : Room!Inputs]
    \cup [op : {"delete"}, user : Users, room : Rooms]
    \cup [op : {"verified"}, user : Users, ticket : AccessTicket]
AccessInvite ==
    [status : {"unused"}]
    \cup [status : {"open", "revoked", "gone"}, room : Rooms]
    \cup [status : {"used", "gone"}, room : Rooms, by : Users]

AccessTypeOK ==
    /\ room \in [Rooms -> AccessRow \cup {Room!Absent}]
    /\ member \in [Rooms -> [Users -> {"none", "MEMBER", "OWNER"}]]
    /\ invite \in [Invites -> AccessInvite]
    /\ ticket \in [Users -> AccessTicket \cup {None}]
    /\ roomCall \in [Requesters -> AccessCall]
    /\ passwords \in Nat

\* A public room has no password.
AccessPublic == \A r \in Rooms : Room!Active(r) /\ ~room[r].private => room[r].pw = 0

\* A ticket is of a room that was made, and at most as new as its password.
AccessProves(t) ==
    LET record == room[t.room]
    IN  record # Room!Absent /\ t.ver <= record.ver /\ (t.ver = record.ver => t.pw = record.pw)

AccessTickets ==
    /\ \A u \in Users : ticket[u] # None => AccessProves(ticket[u])
    /\ \A c \in Requesters : roomCall[c].op = "verified" => AccessProves(roomCall[c].ticket)

\* Whom a room without owners points at is no member of it.
AccessOwners ==
    /\ Room!OwnersAgree
    /\ \A r \in Rooms, u \in Users :
         Room!Active(r) /\ Room!Owners(r) = {} /\ room[r].owner = u => member[r][u] = "none"

AccessInv == AccessTypeOK /\ AccessPublic /\ AccessTickets /\ AccessOwners

LEMMA AccessActive ==
    ASSUME AccessTypeOK, NEW r \in Rooms, Room!Active(r)
    PROVE  room[r] \in AccessRow /\ room[r] # Room!Absent
BY DEF AccessTypeOK, Room!Active, Room!Absent, AccessRow

LEMMA AccessMade ==
    ASSUME AccessTypeOK, NEW r \in Rooms, room[r] # Room!Absent
    PROVE  room[r] \in AccessRow
BY DEF AccessTypeOK

LEMMA AccessInit == Room!Init => AccessInv
<1> SUFFICES ASSUME Room!Init PROVE AccessInv
  OBVIOUS
<1>1. PICK other \in Rooms \ {Lounge}, pointer \in Users, name \in Names, own \in SUBSET Users :
        LET lounge == Room!NewRoom(CHOOSE n \in Names : TRUE, System, FALSE, 0)
        IN  /\ name # lounge.name
            /\ pointer \in (IF own = {} THEN Admins ELSE own)
            /\ \E old \in {Room!NewRoom(name, pointer, FALSE, 0)}
                          \cup (IF own = {} THEN {Room!Absent} ELSE {}) :
                 room = [r \in Rooms |-> IF r = Lounge THEN lounge
                                         ELSE IF r = other THEN old ELSE Room!Absent]
            /\ member = [r \in Rooms |-> [u \in Users |-> IF r = other /\ u \in own
                                                         THEN "OWNER" ELSE "none"]]
            /\ invite = [i \in Invites |-> [status |-> "unused"]]
            /\ ticket = [u \in Users |-> None]
            /\ roomCall = [c \in Requesters |-> Room!Idle]
            /\ passwords = 0
  BY Zenon DEF Room!Init
<1> DEFINE lounge == Room!NewRoom(CHOOSE n \in Names : TRUE, System, FALSE, 0)
<1>2. PICK old \in {Room!NewRoom(name, pointer, FALSE, 0)} \cup (IF own = {} THEN {Room!Absent} ELSE {}) :
        room = [r \in Rooms |-> IF r = Lounge THEN lounge ELSE IF r = other THEN old ELSE Room!Absent]
  BY <1>1
<1>3. lounge \in AccessRow /\ lounge.pw = 0 /\ lounge.owner = System
  BY DEF Room!NewRoom, AccessRow
<1>4. old = Room!Absent \/ (old \in AccessRow /\ old.pw = 0 /\ old.owner = pointer)
  <2> DEFINE record == Room!NewRoom(name, pointer, FALSE, 0)
  <2>1. record \in AccessRow /\ record.pw = 0 /\ record.owner = pointer
    BY DEF Room!NewRoom, AccessRow
  <2> HIDE DEF record
  <2>2. old = record \/ old = Room!Absent
    BY DEF record
  <2>3. QED
    BY <2>1, <2>2
<1> HIDE DEF lounge
<1>5. AccessTypeOK
  <2>1. room \in [Rooms -> AccessRow \cup {Room!Absent}]
    BY <1>2, <1>3, <1>4
  <2>2. Room!Idle \in AccessCall /\ [status |-> "unused"] \in AccessInvite
    BY DEF Room!Idle, AccessCall, AccessInvite
  <2>3. QED
    BY <1>1, <2>1, <2>2 DEF AccessTypeOK
<1>6. AccessPublic
  BY <1>2, <1>3, <1>4 DEF AccessPublic, Room!Active, Room!Absent
<1>7. AccessTickets
  BY <1>1 DEF AccessTickets, Room!Idle
<1>8. ASSUME NEW r \in Rooms, Room!Active(r)
      PROVE  /\ IF Room!Owners(r) = {} THEN room[r].owner \in Admins \cup {System}
                ELSE room[r].owner \in Room!Owners(r)
             /\ Room!Owners(r) = {} => \A u \in Users : member[r][u] = "none"
  <2>1. Room!Owners(r) = IF r = other THEN own ELSE {}
    BY <1>1 DEF Room!Owners
  <2>2. r = Lounge \/ (r = other /\ old # Room!Absent)
    BY <1>2, <1>8 DEF Room!Active, Room!Absent
  <2>3. CASE r = Lounge
    BY <1>1, <1>2, <1>3, <2>1, <2>3
  <2>4. CASE r = other /\ old # Room!Absent
    <3>1. room[r].owner = pointer
      BY <1>2, <1>4, <2>4
    <3>2. QED
      BY <1>1, <2>1, <2>4, <3>1
  <2>5. QED
    BY <2>2, <2>3, <2>4
<1>9. AccessOwners
  BY <1>8 DEF AccessOwners, Room!OwnersAgree
<1>10. QED
  BY <1>5, <1>6, <1>7, <1>9 DEF AccessInv

-----------------------------------------------------------------------------
(* What an action may do to a row, and what follows for tickets *)

\* A row is made, left, or moves on: a new password raises its version.
AccessMoves(r) ==
    \/ room[r] = Room!Absent
    \/ /\ room'[r] # Room!Absent /\ room[r].ver <= room'[r].ver
       /\ room[r].ver = room'[r].ver => room[r].pw = room'[r].pw

LEMMA AccessStillProves ==
    ASSUME AccessTypeOK, AccessTypeOK', \A r \in Rooms : AccessMoves(r),
           NEW t \in AccessTicket, AccessProves(t)
    PROVE  /\ room'[t.room] # Room!Absent /\ t.ver <= room'[t.room].ver
           /\ t.ver = room'[t.room].ver => t.pw = room'[t.room].pw
<1> DEFINE q == t.room
<1>1. q \in Rooms /\ t.ver \in Nat
  BY DEF AccessTicket
<1>2. room[q] # Room!Absent /\ t.ver <= room[q].ver /\ (t.ver = room[q].ver => t.pw = room[q].pw)
  BY DEF AccessProves
<1>3. /\ room'[q] # Room!Absent /\ room[q].ver <= room'[q].ver
      /\ room[q].ver = room'[q].ver => room[q].pw = room'[q].pw
  BY <1>1, <1>2 DEF AccessMoves
<1>4. room[q] \in AccessRow /\ room'[q] \in AccessRow
  BY <1>1, <1>2, <1>3 DEF AccessTypeOK
<1>5. room[q].ver \in Nat /\ room'[q].ver \in Nat
  BY <1>4 DEF AccessRow
<1> HIDE DEF q
<1>6. t.ver <= room'[q].ver /\ (t.ver = room'[q].ver => t.pw = room'[q].pw)
  BY <1>1, <1>2, <1>3, <1>5
<1>7. QED
  BY <1>3, <1>6 DEF q

\* Tickets neither made nor handed out: those there are stay good.
LEMMA AccessTicketsStay ==
    ASSUME AccessTypeOK, AccessTypeOK', AccessTickets, \A r \in Rooms : AccessMoves(r),
           \A u \in Users : ticket'[u] = None \/ ticket'[u] = ticket[u],
           \A c \in Requesters : roomCall'[c].op = "verified" => roomCall'[c] = roomCall[c]
    PROVE  AccessTickets'
<1>1. ASSUME NEW u \in Users, ticket'[u] # None PROVE AccessProves(ticket[u])'
  <2>1. ticket'[u] = ticket[u] /\ AccessProves(ticket[u])
    BY <1>1 DEF AccessTickets
  <2>2. ticket[u] \in AccessTicket
    BY <1>1, <2>1 DEF AccessTypeOK
  <2>3. QED
    BY <2>1, <2>2, AccessStillProves DEF AccessProves
<1>2. ASSUME NEW c \in Requesters, roomCall'[c].op = "verified" PROVE AccessProves(roomCall[c].ticket)'
  <2>1. roomCall'[c] = roomCall[c] /\ AccessProves(roomCall[c].ticket)
    BY <1>2 DEF AccessTickets
  <2>2. roomCall[c].ticket \in AccessTicket
    BY <1>2, <2>1 DEF AccessTypeOK, AccessCall
  <2>3. QED
    BY <2>1, <2>2, AccessStillProves DEF AccessProves
<1>3. QED
  BY <1>1, <1>2 DEF AccessTickets

\* Rows that differ in nothing but name, visibility and password keep their owners.
LEMMA AccessOwnersStay ==
    ASSUME AccessTypeOK, AccessOwners, member' = member,
           \A r \in Rooms : room'[r].status = "active" =>
              Room!Active(r) /\ room'[r].owner = room[r].owner
    PROVE  AccessOwners'
BY DEF AccessOwners, Room!OwnersAgree, Room!Active, Room!Owners

\* Actions that touch neither rows nor members.
LEMMA AccessRowsStay ==
    ASSUME AccessInv, AccessTypeOK', UNCHANGED <<room, member>>, AccessTickets'
    PROVE  AccessInv'
BY DEF AccessInv, AccessPublic, AccessOwners, Room!OwnersAgree, Room!Active, Room!Owners

-----------------------------------------------------------------------------
(* The actions *)

LEMMA AccessCreate ==
    ASSUME AccessInv, NEW u \in Users, NEW r \in Rooms, NEW name \in Names, NEW private \in BOOLEAN,
           Room!Create(u, r, name, private)
    PROVE  AccessInv'
<1> USE DEF AccessInv
<1> DEFINE pw == IF private THEN passwords' ELSE 0
           record == Room!NewRoom(name, u, private, pw)
<1>1. /\ room[r] = Room!Absent
      /\ passwords' = IF private THEN passwords + 1 ELSE passwords
      /\ room' = [room EXCEPT ![r] = record]
      /\ member' = [member EXCEPT ![r][u] = "OWNER"]
      /\ UNCHANGED <<invite, ticket, roomCall>>
  BY DEF Room!Create
<1>2. passwords' \in Nat /\ pw \in Nat
  BY <1>1 DEF AccessTypeOK
<1> HIDE DEF pw
<1>3. /\ record \in AccessRow /\ record.owner = u /\ record.private = private
  BY <1>2 DEF Room!NewRoom, AccessRow
<1>4. record.pw = pw
  BY DEF Room!NewRoom
<1> HIDE DEF record
<1>5. AccessTypeOK'
  BY <1>1, <1>2, <1>3 DEF AccessTypeOK
<1>6. \A q \in Rooms \ {r} : room'[q] = room[q] /\ member'[q] = member[q]
  BY <1>1 DEF AccessTypeOK
<1>7. room'[r] = record /\ member'[r][u] = "OWNER"
  BY <1>1 DEF AccessTypeOK
<1>8. AccessPublic'
  BY <1>3, <1>4, <1>6, <1>7 DEF AccessPublic, Room!Active, pw
<1>9. \A q \in Rooms : AccessMoves(q)
  <2>1. ASSUME NEW q \in Rooms, room[q] # Room!Absent PROVE AccessMoves(q)
    <3>1. room'[q] = room[q] /\ room[q].ver \in Nat
      BY <1>1, <1>6, <2>1, AccessMade DEF AccessRow
    <3>2. QED
      BY <2>1, <3>1 DEF AccessMoves
  <2>2. QED
    BY <2>1 DEF AccessMoves
<1>10. AccessTickets'
  BY <1>1, <1>5, <1>9, AccessTicketsStay
<1>11. AccessOwners'
  <2>1. \A q \in Rooms \ {r} : Room!Active(q)' = Room!Active(q) /\ Room!Owners(q)' = Room!Owners(q)
    BY <1>6 DEF Room!Active, Room!Owners
  <2>2. u \in Room!Owners(r)' /\ room'[r].owner = u
    BY <1>3, <1>7 DEF Room!Owners
  <2>3. QED
    BY <1>6, <2>1, <2>2 DEF AccessOwners, Room!OwnersAgree
<1>12. QED
  BY <1>5, <1>8, <1>10, <1>11

\* What UpdateDetails makes of an active row.
LEMMA AccessResulting ==
    ASSUME NEW record \in AccessRow, NEW input \in Room!Inputs, NEW pw \in Nat,
           ~record.private => record.pw = 0, Room!Resulting(record, input, pw) # None
    PROVE  LET next == Room!Resulting(record, input, pw)
           IN  /\ next \in AccessRow /\ next.status = record.status /\ next.owner = record.owner
               /\ ~next.private => next.pw = 0
               /\ record.ver <= next.ver
               /\ record.ver = next.ver => record.pw = next.pw
<1> DEFINE private == IF input.private = None THEN record.private ELSE input.private
           kept == (input.keep \/ (input.private = None /\ ~input.given)) /\ record.private /\ record.pw # 0
           next == Room!Resulting(record, input, pw)
           given == [record EXCEPT !.private = TRUE, !.pw = pw, !.ver = @ + 1]
           public == [record EXCEPT !.private = FALSE, !.pw = 0, !.ver = IF record.private THEN @ + 1 ELSE @]
<1>1. private \in BOOLEAN /\ input.given \in BOOLEAN /\ record.ver \in Nat /\ record.private \in BOOLEAN
  BY DEF Room!Inputs, AccessRow
<1>2. next = CASE private /\ kept -> record
               [] private /\ ~kept /\ input.given -> given
               [] private /\ ~kept /\ ~input.given -> None
               [] ~private -> public
  BY DEF Room!Resulting
<1>3. CASE private /\ kept
  <2>1. next = record
    BY <1>2, <1>3
  <2>2. QED
    BY <1>1, <2>1
<1>4. CASE private /\ ~kept /\ input.given
  <2>1. next = given
    BY <1>2, <1>4
  <2> DEFINE ver == record.ver + 1
  <2>2. ver \in Nat /\ record.ver <= ver /\ record.ver # ver
    BY <1>1
  <2>3. given = [record EXCEPT !.private = TRUE, !.pw = pw, !.ver = ver]
    OBVIOUS
  <2> HIDE DEF given, ver
  <2>4. given = [status |-> record.status, name |-> record.name, owner |-> record.owner,
                 private |-> TRUE, pw |-> pw, ver |-> ver]
    BY <2>3 DEF AccessRow
  <2>5. given \in AccessRow
    BY <2>4, <2>2 DEF AccessRow
  <2>6. QED
    BY <2>1, <2>4, <2>2, <2>5
<1>5. CASE private /\ ~kept /\ ~input.given
  BY <1>2, <1>5
<1>6. CASE ~private
  <2>1. next = public
    BY <1>2, <1>6
  <2> DEFINE ver == IF record.private THEN record.ver + 1 ELSE record.ver
  <2>2. ver \in Nat /\ record.ver <= ver /\ (record.ver = ver => ~record.private)
    BY <1>1
  <2>3. public = [record EXCEPT !.private = FALSE, !.pw = 0, !.ver = ver]
    OBVIOUS
  <2> HIDE DEF public, ver
  <2>4. public = [status |-> record.status, name |-> record.name, owner |-> record.owner,
                  private |-> FALSE, pw |-> 0, ver |-> ver]
    BY <2>3 DEF AccessRow
  <2>5. public \in AccessRow
    BY <2>4, <2>2 DEF AccessRow
  <2>6. QED
    BY <2>1, <2>4, <2>2, <2>5
<1>7. QED
  BY <1>1, <1>3, <1>4, <1>5, <1>6

LEMMA AccessUpdate ==
    ASSUME AccessInv, NEW c \in Requesters, Room!UpdateDetails(c)
    PROVE  AccessInv'
<1> USE DEF AccessInv
<1> DEFINE r == roomCall[c].room
           name == roomCall[c].input.name
           next == Room!Resulting(room[r], roomCall[c].input, passwords + 1)
<1>1. /\ roomCall[c].op = "update"
      /\ roomCall' = [roomCall EXCEPT ![c] = Room!Idle]
      /\ UNCHANGED <<member, invite, ticket>>
  BY DEF Room!UpdateDetails
<1>2. r \in Rooms /\ roomCall[c].input \in Room!Inputs /\ name \in Names
  BY <1>1 DEF AccessTypeOK, AccessCall, Room!Inputs
<1>3. Room!Idle \in AccessCall
  BY DEF Room!Idle, AccessCall
<1>4. roomCall' \in [Requesters -> AccessCall]
  BY <1>1, <1>3 DEF AccessTypeOK
<1>5. \A d \in Requesters : roomCall'[d].op = "verified" => roomCall'[d] = roomCall[d]
  BY <1>1 DEF AccessTypeOK, Room!Idle
<1>6. CASE UNCHANGED <<room, passwords>>
  <2>1. AccessTypeOK'
    BY <1>1, <1>4, <1>6 DEF AccessTypeOK
  <2>2. AccessTickets'
    BY <1>1, <1>5, <1>6 DEF AccessTickets, AccessProves
  <2>3. QED
    BY <1>1, <1>6, <2>1, <2>2, AccessRowsStay
<1>7. CASE /\ Room!CanEdit(roomCall[c].user, r) /\ next # None
           /\ room' = [room EXCEPT ![r] = [next EXCEPT !.name = name]]
           /\ passwords' = IF next.pw > passwords THEN next.pw ELSE passwords
  <2> DEFINE record == room[r]
             new == [next EXCEPT !.name = name]
  <2>1. Room!Active(r) /\ record \in AccessRow /\ record # Room!Absent
    BY <1>2, <1>7, AccessActive DEF Room!CanEdit
  <2>2. ~record.private => record.pw = 0
    BY <1>2, <2>1 DEF AccessPublic
  <2>3. passwords + 1 \in Nat
    BY DEF AccessTypeOK
  <2>4. /\ next \in AccessRow /\ next.status = record.status /\ next.owner = record.owner
        /\ ~next.private => next.pw = 0
        /\ record.ver <= next.ver
        /\ record.ver = next.ver => record.pw = next.pw
    BY <1>2, <1>7, <2>1, <2>2, <2>3, AccessResulting
  <2> HIDE DEF next, record, name
  <2>5. /\ new \in AccessRow /\ new.status = next.status /\ new.owner = next.owner
        /\ new.private = next.private /\ new.pw = next.pw /\ new.ver = next.ver
    BY <1>2, <2>4 DEF AccessRow
  <2> HIDE DEF new
  <2>6. room' = [room EXCEPT ![r] = new]
    BY <1>7 DEF new
  <2>7. passwords' \in Nat
    BY <1>7, <2>4 DEF AccessTypeOK, AccessRow
  <2>8. AccessTypeOK'
    BY <1>1, <1>4, <2>5, <2>6, <2>7 DEF AccessTypeOK
  <2>9. \A q \in Rooms : q # r => room'[q] = room[q]
    BY <2>6 DEF AccessTypeOK
  <2>10. room'[r] = new
    BY <1>2, <2>6 DEF AccessTypeOK
  <2>11. AccessPublic'
    BY <2>4, <2>5, <2>9, <2>10 DEF AccessPublic, Room!Active
  <2>12. ASSUME NEW q \in Rooms PROVE AccessMoves(q)
    <3>1. CASE q = r
      <4>1. new # Room!Absent
        BY <2>5 DEF AccessRow, Room!Absent
      <4>2. QED
        BY <2>4, <2>5, <2>10, <3>1, <4>1 DEF AccessMoves, record
    <3>2. CASE q # r /\ room[q] # Room!Absent
      <4>1. room[q] \in AccessRow
        BY <3>2, AccessMade
      <4>2. room[q].ver \in Nat
        BY <4>1 DEF AccessRow
      <4>3. QED
        BY <2>9, <3>2, <4>2 DEF AccessMoves
    <3>3. QED
      BY <3>1, <3>2 DEF AccessMoves
  <2>13. AccessTickets'
    BY <1>1, <1>5, <2>8, <2>12, AccessTicketsStay
  <2>14. AccessOwners'
    <3>1. ASSUME NEW q \in Rooms, room'[q].status = "active"
          PROVE  Room!Active(q) /\ room'[q].owner = room[q].owner
      BY <2>1, <2>4, <2>5, <2>9, <2>10, <3>1 DEF Room!Active, record
    <3>2. QED
      BY <1>1, <3>1, AccessOwnersStay
  <2>15. QED
    BY <2>8, <2>11, <2>13, <2>14
<1>8. QED
  BY <1>6, <1>7 DEF Room!UpdateDetails

LEMMA AccessDelete ==
    ASSUME AccessInv, NEW c \in Requesters, Room!Delete(c)
    PROVE  AccessInv'
<1> USE DEF AccessInv
<1>1. roomCall[c].op = "delete" /\ roomCall' = [roomCall EXCEPT ![c] = Room!Idle]
  BY DEF Room!Delete
<1>2. PICK r \in Rooms : r = roomCall[c].room
  BY <1>1 DEF AccessTypeOK, AccessCall
<1> DEFINE new == [room[r] EXCEPT !.status = "deleted"]
<1>3. Room!Idle \in AccessCall
  BY DEF Room!Idle, AccessCall
<1>4. roomCall' \in [Requesters -> AccessCall]
  BY <1>1, <1>3 DEF AccessTypeOK
<1>5. \A d \in Requesters : roomCall'[d].op = "verified" => roomCall'[d] = roomCall[d]
  BY <1>1 DEF AccessTypeOK, Room!Idle
<1>6. CASE UNCHANGED <<room, member, invite, ticket, passwords>>
  <2>1. AccessTypeOK'
    BY <1>4, <1>6 DEF AccessTypeOK
  <2>2. AccessTickets'
    BY <1>5, <1>6 DEF AccessTickets, AccessProves
  <2>3. QED
    BY <1>6, <2>1, <2>2, AccessRowsStay
<1>7. SUFFICES ASSUME Room!CanEdit(roomCall[c].user, r), Room!Unroom(r), UNCHANGED <<ticket, passwords>>
               PROVE  AccessInv'
  BY <1>2, <1>6 DEF Room!Delete
<1>8. /\ Room!Active(r)
      /\ room' = [room EXCEPT ![r] = new]
      /\ member' = [member EXCEPT ![r] = [v \in Users |-> "none"]]
      /\ invite' = [i \in Invites |-> IF invite[i].status # "unused" /\ invite[i].room = r
                                      THEN [invite[i] EXCEPT !.status = "gone"] ELSE invite[i]]
      /\ UNCHANGED <<ticket, passwords>>
  BY <1>7 DEF Room!Unroom, Room!CanEdit
<1>9. room[r] \in AccessRow
  BY <1>8, AccessActive
<1>10. /\ new \in AccessRow /\ new.status = "deleted" /\ new.ver = room[r].ver /\ new.pw = room[r].pw
      /\ room[r].ver \in Nat
  BY <1>9 DEF AccessRow
<1> HIDE DEF new
<1>11. \A i \in Invites : invite'[i] \in AccessInvite
  <2>1. ASSUME NEW x \in AccessInvite, x.status # "unused" PROVE [x EXCEPT !.status = "gone"] \in AccessInvite
    BY <2>1 DEF AccessInvite
  <2>2. QED
    BY <1>8, <2>1 DEF AccessTypeOK
<1>12. invite' \in [Invites -> AccessInvite]
  BY <1>8, <1>11
<1>13. member' \in [Rooms -> [Users -> {"none", "MEMBER", "OWNER"}]]
  BY <1>8 DEF AccessTypeOK
<1>14. AccessTypeOK'
  BY <1>8, <1>10, <1>12, <1>13, <1>4 DEF AccessTypeOK
<1>15. /\ \A q \in Rooms \ {r} : room'[q] = room[q] /\ member'[q] = member[q]
      /\ room'[r] = new
  BY <1>8, <1>2 DEF AccessTypeOK
<1>16. AccessPublic'
  BY <1>10, <1>15 DEF AccessPublic, Room!Active
<1>17. ASSUME NEW q \in Rooms, room[q] # Room!Absent PROVE AccessMoves(q)
  <2>1. room[q] \in AccessRow /\ new # Room!Absent
    BY <1>10, <1>17, AccessMade DEF AccessRow, Room!Absent
  <2>2. room[q].ver \in Nat
    BY <2>1 DEF AccessRow
  <2>3. QED
    BY <1>10, <1>15, <1>17, <2>1, <2>2 DEF AccessMoves
<1>18. AccessTickets'
  <2>1. \A q \in Rooms : AccessMoves(q)
    BY <1>17 DEF AccessMoves
  <2>2. QED
    BY <1>8, <1>14, <1>5, <2>1, AccessTicketsStay
<1>19. AccessOwners'
  <2>1. ~Room!Active(r)'
    BY <1>10, <1>15 DEF Room!Active
  <2>2. \A q \in Rooms \ {r} : Room!Active(q)' = Room!Active(q) /\ Room!Owners(q)' = Room!Owners(q)
    BY <1>15 DEF Room!Active, Room!Owners
  <2>3. QED
    BY <1>15, <2>1, <2>2 DEF AccessOwners, Room!OwnersAgree
<1>20. QED
  BY <1>14, <1>16, <1>18, <1>19

\* Changes of members and of the pointer alone.
LEMMA AccessPointer ==
    ASSUME AccessInv, AccessTypeOK', UNCHANGED <<invite, ticket, roomCall, passwords>>,
           NEW r \in Rooms, NEW o \in Users \cup {System, None},
           room' = room \/ (Room!Active(r) /\ room' = [room EXCEPT ![r].owner = o])
    PROVE  AccessPublic' /\ AccessTickets' /\ \A q \in Rooms : Room!Active(q)' = Room!Active(q)
<1> USE DEF AccessInv
<1>1. ASSUME NEW q \in Rooms, room[q] # Room!Absent
      PROVE  /\ room'[q] # Room!Absent /\ room'[q].ver = room[q].ver /\ room'[q].pw = room[q].pw
             /\ room'[q].private = room[q].private /\ room'[q].status = room[q].status
             /\ room[q].ver \in Nat
  <2>1. room[q] \in AccessRow
    BY <1>1, AccessMade
  <2>2. room'[q] = room[q] \/ room'[q] = [room[q] EXCEPT !.owner = o]
    BY DEF AccessTypeOK
  <2>3. QED
    BY <2>1, <2>2 DEF AccessRow, Room!Absent
<1>2. ASSUME NEW q \in Rooms, room[q] = Room!Absent PROVE room'[q] = Room!Absent
  <2>1. ~Room!Active(q)
    BY <1>2 DEF Room!Active, Room!Absent
  <2>2. QED
    BY <1>2, <2>1 DEF AccessTypeOK
<1>3. \A q \in Rooms : AccessMoves(q)
  BY <1>1 DEF AccessMoves
<1>4. AccessTickets'
  BY <1>3, AccessTicketsStay
<1>5. \A q \in Rooms : Room!Active(q)' = Room!Active(q)
  BY <1>1, <1>2 DEF Room!Active
<1>6. AccessPublic'
  BY <1>1, <1>2, <1>5 DEF AccessPublic, Room!Active, Room!Absent
<1>7. QED
  BY <1>4, <1>5, <1>6

LEMMA AccessCardinality == \A r : Room!Cardinality(Room!Owners(r)) = Cardinality(Room!Owners(r))
BY DEF Room!Cardinality, Cardinality, Room!IsFiniteSet, IsFiniteSet

LEMMA AccessOthersLeft ==
    ASSUME NEW r, NEW u \in Room!Owners(r), ~(Cardinality(Room!Owners(r)) <= 1)
    PROVE  \E v \in Room!Owners(r) : v # u
<1>1. SUFFICES ASSUME Room!Owners(r) = {u} PROVE FALSE
  OBVIOUS
<1>2. \A x : IsFiniteSet({x}) /\ Cardinality({x}) = 1
  BY FS_Singleton
<1>3. Cardinality({u}) = 1
  BY <1>2
<1>4. QED
  BY <1>1, <1>3

LEMMA AccessChange ==
    ASSUME AccessInv, NEW r \in Rooms, NEW u \in Users, NEW role \in {"none", "MEMBER"},
           Room!ChangeMembership(r, u, role)
    PROVE  AccessInv'
<1> USE DEF AccessInv
<1>1. /\ member[r][u] # "none"
      /\ ~(member[r][u] = "OWNER" /\ Cardinality(Room!Owners(r)) <= 1)
      /\ member' = [member EXCEPT ![r][u] = role]
      /\ Room!SyncOwnerPointer(r, u, member'[r])
      /\ UNCHANGED <<invite, ticket, roomCall, passwords>>
  BY AccessCardinality DEF Room!ChangeMembership
<1>2. /\ \A q \in Rooms \ {r} : member'[q] = member[q]
      /\ member'[r][u] = role
      /\ \A v \in Users \ {u} : member'[r][v] = member[r][v]
      /\ member' \in [Rooms -> [Users -> {"none", "MEMBER", "OWNER"}]]
  BY <1>1 DEF AccessTypeOK
<1> DEFINE left == Room!OwnersIn(member'[r])
<1>3. left = Room!Owners(r) \ {u} /\ left = Room!Owners(r)'
  BY <1>2 DEF Room!OwnersIn, Room!Owners
<1>4. Room!Owners(r) # {} => left # {}
  <2>1. CASE u \in Room!Owners(r)
    <3>1. member[r][u] = "OWNER"
      BY <2>1 DEF Room!Owners
    <3>2. ~(Cardinality(Room!Owners(r)) <= 1)
      BY <1>1, <3>1
    <3>3. PICK v \in Room!Owners(r) : v # u
      BY <2>1, <3>2, AccessOthersLeft
    <3>4. QED
      BY <1>3, <3>3
  <2>2. CASE u \notin Room!Owners(r)
    BY <1>3, <2>2
  <2>3. QED
    BY <2>1, <2>2
<1>5. left \subseteq Users
  BY DEF Room!OwnersIn
<1>6. \A q \in Rooms \ {r} : Room!Owners(q)' = Room!Owners(q)
  BY <1>2 DEF Room!Owners
<1> HIDE DEF left
<1>7. CASE Room!Active(r) /\ room[r].owner = u
  <2>1. PICK next \in (IF left = {} THEN {None} ELSE left) : room' = [room EXCEPT ![r].owner = next]
    BY <1>1, <1>7 DEF Room!SyncOwnerPointer, left
  <2>2. left # {}
    <3>1. Room!Owners(r) # {}
      BY <1>1, <1>7 DEF AccessOwners
    <3>2. QED
      BY <1>4, <3>1
  <2>3. next \in left /\ next \in Users
    BY <1>5, <2>1, <2>2
  <2>4. room[r] \in AccessRow
    BY <1>7, AccessActive
  <2>5. [room[r] EXCEPT !.owner = next] \in AccessRow /\ [room[r] EXCEPT !.owner = next].owner = next
    BY <2>3, <2>4 DEF AccessRow
  <2>6. AccessTypeOK'
    BY <1>1, <1>2, <2>1, <2>5 DEF AccessTypeOK
  <2>7. AccessPublic' /\ AccessTickets' /\ \A q \in Rooms : Room!Active(q)' = Room!Active(q)
    <3>1. next \in Users \cup {System, None}
      BY <2>3
    <3>2. QED
      BY <1>1, <1>7, <2>1, <2>6, <3>1, AccessPointer
  <2>8. room'[r].owner = next /\ \A q \in Rooms \ {r} : room'[q] = room[q]
    BY <2>1, <2>5 DEF AccessTypeOK
  <2>9. AccessOwners'
    BY <1>2, <1>3, <1>6, <2>2, <2>3, <2>7, <2>8 DEF AccessOwners, Room!OwnersAgree
  <2>10. QED
    BY <2>6, <2>7, <2>9
<1>8. CASE ~(Room!Active(r) /\ room[r].owner = u)
  <2>1. room' = room
    BY <1>1, <1>8 DEF Room!SyncOwnerPointer
  <2>2. AccessTypeOK'
    BY <1>1, <1>2, <2>1 DEF AccessTypeOK
  <2>3. AccessPublic' /\ AccessTickets' /\ \A q \in Rooms : Room!Active(q)' = Room!Active(q)
    BY <1>1, <2>1, <2>2, AccessPointer
  <2>4. ASSUME Room!Active(r)
        PROVE  /\ IF left = {} THEN room[r].owner \in Admins \cup {System} ELSE room[r].owner \in left
               /\ left = {} => \A v \in Users : room[r].owner = v => member'[r][v] = "none"
    <3>1. CASE Room!Owners(r) = {}
      BY <1>2, <1>3, <1>8, <2>4, <3>1 DEF AccessOwners, Room!OwnersAgree
    <3>2. CASE Room!Owners(r) # {}
      BY <1>3, <1>4, <1>8, <2>4, <3>2 DEF AccessOwners, Room!OwnersAgree
    <3>3. QED
      BY <3>1, <3>2
  <2>5. AccessOwners'
    BY <1>2, <1>3, <1>6, <2>1, <2>3, <2>4 DEF AccessOwners, Room!OwnersAgree
  <2>6. QED
    BY <2>2, <2>3, <2>5
<1>9. QED
  BY <1>7, <1>8

LEMMA AccessGrant ==
    ASSUME AccessInv, NEW r \in Rooms, NEW u \in Users, Room!GrantOwner(r, u)
    PROVE  AccessInv'
<1> USE DEF AccessInv
<1> DEFINE roles == [v \in Users |-> IF v = u THEN "OWNER"
                                     ELSE IF v = room[r].owner /\ member[r][v] = "OWNER"
                                          THEN "MEMBER" ELSE member[r][v]]
<1>1. /\ Room!Active(r)
      /\ member' = [member EXCEPT ![r] = roles]
      /\ room' = [room EXCEPT ![r].owner = u]
      /\ UNCHANGED <<invite, ticket, roomCall, passwords>>
  BY DEF Room!GrantOwner
<1>2. roles \in [Users -> {"none", "MEMBER", "OWNER"}] /\ roles[u] = "OWNER"
  BY DEF AccessTypeOK
<1> HIDE DEF roles
<1>3. /\ member' \in [Rooms -> [Users -> {"none", "MEMBER", "OWNER"}]]
      /\ member'[r][u] = "OWNER"
      /\ \A q \in Rooms \ {r} : member'[q] = member[q]
  BY <1>1, <1>2 DEF AccessTypeOK
<1>4. room[r] \in AccessRow
  BY <1>1, AccessActive
<1>5. [room[r] EXCEPT !.owner = u] \in AccessRow /\ [room[r] EXCEPT !.owner = u].owner = u
  BY <1>4 DEF AccessRow
<1>6. AccessTypeOK'
  BY <1>1, <1>3, <1>5 DEF AccessTypeOK
<1>7. AccessPublic' /\ AccessTickets' /\ \A q \in Rooms : Room!Active(q)' = Room!Active(q)
  <2>1. u \in Users \cup {System, None}
    OBVIOUS
  <2>2. QED
    BY <1>1, <1>6, <2>1, AccessPointer
<1>8. room'[r].owner = u /\ \A q \in Rooms \ {r} : room'[q] = room[q]
  BY <1>1, <1>5 DEF AccessTypeOK
<1>9. u \in Room!Owners(r)' /\ \A q \in Rooms \ {r} : Room!Owners(q)' = Room!Owners(q)
  BY <1>3 DEF Room!Owners
<1>10. AccessOwners'
  BY <1>3, <1>7, <1>8, <1>9 DEF AccessOwners, Room!OwnersAgree
<1>11. QED
  BY <1>6, <1>7, <1>10

LEMMA AccessRedeem ==
    ASSUME AccessInv, NEW u \in Users, NEW i \in Invites, Room!RedeemInvite(u, i)
    PROVE  AccessInv'
<1> USE DEF AccessInv
<1> DEFINE q == invite[i].room
<1>1. /\ invite[i].status = "open"
      /\ \A r \in Rooms : member[r][u] = "none" /\ (room[r] # Room!Absent => room[r].owner # u)
      /\ invite' = [invite EXCEPT ![i] = [status |-> "used", room |-> q, by |-> u]]
      /\ member' = [member EXCEPT ![q][u] = "MEMBER"]
      /\ UNCHANGED <<room, ticket, roomCall, passwords>>
  BY DEF Room!RedeemInvite
<1>2. q \in Rooms
  BY <1>1 DEF AccessTypeOK, AccessInvite
<1> HIDE DEF q
<1>3. [status |-> "used", room |-> q, by |-> u] \in AccessInvite
  BY <1>2 DEF AccessInvite
<1>4. AccessTypeOK'
  BY <1>1, <1>2, <1>3 DEF AccessTypeOK
<1>5. AccessPublic' /\ AccessTickets' /\ \A r \in Rooms : Room!Active(r)' = Room!Active(r)
  BY <1>1 DEF AccessPublic, AccessTickets, AccessProves, Room!Active
<1>6. \A r \in Rooms, v \in Users : v # u => member'[r][v] = member[r][v]
  BY <1>1 DEF AccessTypeOK
<1>7. \A r \in Rooms : member'[r][u] # "OWNER" /\ member[r][u] # "OWNER"
  BY <1>1, <1>2 DEF AccessTypeOK
<1>8. \A r \in Rooms : Room!Owners(r)' = Room!Owners(r)
  BY <1>6, <1>7 DEF Room!Owners
<1>9. \A r \in Rooms : Room!Active(r) => room[r].owner # u
  BY <1>1, AccessActive
<1>10. AccessOwners'
  BY <1>1, <1>5, <1>6, <1>8, <1>9 DEF AccessOwners, Room!OwnersAgree
<1>11. QED
  BY <1>4, <1>5, <1>10

LEMMA AccessNext ==
    ASSUME AccessInv, Room!Next
    PROVE  AccessInv'
<1> USE DEF AccessInv
<1>1. ASSUME NEW c \in Requesters, NEW u \in Users, NEW r \in Rooms, NEW input \in Room!Inputs,
             Room!UpdateRead(c, u, r, input)
      PROVE  AccessInv'
  <2> DEFINE e == [op |-> "update", user |-> u, room |-> r, input |-> input]
  <2>1. roomCall' = [roomCall EXCEPT ![c] = e] /\ UNCHANGED <<room, member, invite, ticket, passwords>>
    BY <1>1 DEF Room!UpdateRead
  <2>2. e \in AccessCall /\ e.op = "update"
    BY DEF AccessCall
  <2> HIDE DEF e
  <2>3. AccessTypeOK'
    BY <2>1, <2>2 DEF AccessTypeOK
  <2>4. AccessTickets'
    BY <2>1, <2>2 DEF AccessTypeOK, AccessTickets, AccessProves
  <2>5. QED
    BY <2>1, <2>3, <2>4, AccessRowsStay
<1>9. ASSUME NEW c \in Requesters, NEW u \in Users, NEW r \in Rooms, Room!DeleteRequest(c, u, r)
      PROVE  AccessInv'
  <2> DEFINE e == [op |-> "delete", user |-> u, room |-> r]
  <2>1. roomCall' = [roomCall EXCEPT ![c] = e] /\ UNCHANGED <<room, member, invite, ticket, passwords>>
    BY <1>9 DEF Room!DeleteRequest
  <2>2. e \in AccessCall /\ e.op = "delete"
    BY DEF AccessCall
  <2> HIDE DEF e
  <2>3. AccessTypeOK'
    BY <2>1, <2>2 DEF AccessTypeOK
  <2>4. AccessTickets'
    BY <2>1, <2>2 DEF AccessTypeOK, AccessTickets, AccessProves
  <2>5. QED
    BY <2>1, <2>3, <2>4, AccessRowsStay
<1>2. ASSUME NEW c \in Requesters, NEW u \in Users, NEW r \in Rooms, Room!VerifyAccess(c, u, r)
      PROVE  AccessInv'
  <2> DEFINE t == [room |-> r, ver |-> room[r].ver, pw |-> room[r].pw]
             e == [op |-> "verified", user |-> u, ticket |-> t]
  <2>1. /\ Room!Active(r) /\ roomCall' = [roomCall EXCEPT ![c] = e]
        /\ UNCHANGED <<room, member, invite, ticket, passwords>>
    BY <1>2 DEF Room!VerifyAccess
  <2>2. room[r] \in AccessRow /\ room[r] # Room!Absent
    BY <2>1, AccessActive
  <2>3. t \in AccessTicket /\ AccessProves(t)
    BY <2>2 DEF AccessRow, AccessTicket, AccessProves
  <2>4. t.room = r /\ t.ver = room[r].ver /\ t.pw = room[r].pw
    OBVIOUS
  <2> HIDE DEF t
  <2>5. e \in AccessCall /\ e.ticket = t
    BY <2>3 DEF AccessCall
  <2> HIDE DEF e
  <2>6. AccessTypeOK'
    BY <2>1, <2>5 DEF AccessTypeOK
  <2>7. ASSUME NEW d \in Requesters, roomCall'[d].op = "verified" PROVE AccessProves(roomCall[d].ticket)'
    <3>1. CASE d = c
      <4>1. roomCall'[d] = e
        BY <2>1, <3>1 DEF AccessTypeOK
      <4>2. QED
        BY <2>1, <2>3, <2>5, <4>1 DEF AccessProves
    <3>2. CASE d # c
      <4>1. roomCall'[d] = roomCall[d]
        BY <2>1, <3>2 DEF AccessTypeOK
      <4>2. QED
        BY <2>1, <2>7, <4>1 DEF AccessTickets, AccessProves
    <3>3. QED
      BY <3>1, <3>2
  <2>8. AccessTickets'
    BY <2>1, <2>7 DEF AccessTickets, AccessProves
  <2>9. QED
    BY <2>1, <2>6, <2>8, AccessRowsStay
<1>3. ASSUME NEW c \in Requesters, Room!EstablishRoomAccess(c) PROVE AccessInv'
  <2> DEFINE t == roomCall[c].ticket
             u == roomCall[c].user
  <2>1. /\ roomCall[c].op = "verified"
        /\ ticket' = [ticket EXCEPT ![u] = t]
        /\ roomCall' = [roomCall EXCEPT ![c] = Room!Idle]
        /\ UNCHANGED <<room, member, invite, passwords>>
    BY <1>3 DEF Room!EstablishRoomAccess
  <2>2. t \in AccessTicket /\ u \in Users /\ AccessProves(t)
    BY <2>1 DEF AccessTypeOK, AccessCall, AccessTickets
  <2>3. Room!Idle \in AccessCall /\ Room!Idle.op # "verified"
    BY DEF Room!Idle, AccessCall
  <2>4. AccessTypeOK'
    BY <2>1, <2>2, <2>3 DEF AccessTypeOK
  <2>5. ASSUME NEW v \in Users, ticket'[v] # None PROVE AccessProves(ticket[v])'
    <3>1. CASE v = u
      <4>1. ticket'[v] = t
        BY <2>1, <2>2, <3>1 DEF AccessTypeOK
      <4>2. QED
        BY <2>1, <2>2, <4>1 DEF AccessProves
    <3>2. CASE v # u
      <4>1. ticket'[v] = ticket[v]
        BY <2>1, <3>2 DEF AccessTypeOK
      <4>2. QED
        BY <2>1, <2>5, <4>1 DEF AccessTickets, AccessProves
    <3>3. QED
      BY <3>1, <3>2
  <2>6. ASSUME NEW d \in Requesters, roomCall'[d].op = "verified" PROVE AccessProves(roomCall[d].ticket)'
    <3>1. roomCall'[d] = roomCall[d]
      BY <2>1, <2>3, <2>6 DEF AccessTypeOK
    <3>2. QED
      BY <2>1, <2>6, <3>1 DEF AccessTickets, AccessProves
  <2>7. AccessTickets'
    BY <2>5, <2>6 DEF AccessTickets
  <2>8. QED
    BY <2>1, <2>4, <2>7, AccessRowsStay
<1>4. ASSUME NEW u \in Users, Room!TicketLapses(u) PROVE AccessInv'
  <2>1. ticket' = [ticket EXCEPT ![u] = None] /\ UNCHANGED <<room, member, invite, roomCall, passwords>>
    BY <1>4 DEF Room!TicketLapses
  <2>2. AccessTypeOK'
    BY <2>1 DEF AccessTypeOK
  <2>3. AccessTickets'
    BY <2>1 DEF AccessTypeOK, AccessTickets, AccessProves
  <2>4. QED
    BY <2>1, <2>2, <2>3, AccessRowsStay
<1>5. ASSUME invite' \in [Invites -> AccessInvite], UNCHANGED <<room, member, ticket, roomCall, passwords>>
      PROVE  AccessInv'
  <2>1. AccessTypeOK' /\ AccessTickets'
    BY <1>5 DEF AccessTypeOK, AccessTickets, AccessProves
  <2>2. QED
    BY <1>5, <2>1, AccessRowsStay
<1>6. ASSUME NEW r \in Rooms, NEW i \in Invites, Room!CreateInvite(r, i) PROVE AccessInv'
  <2>1. [status |-> "open", room |-> r] \in AccessInvite
    BY DEF AccessInvite
  <2>2. invite' \in [Invites -> AccessInvite]
    BY <1>6, <2>1 DEF AccessTypeOK, Room!CreateInvite
  <2>3. QED
    BY <1>5, <1>6, <2>2 DEF Room!CreateInvite
<1>7. ASSUME NEW i \in Invites, Room!RevokeInvite(i) PROVE AccessInv'
  <2>1. invite[i].status = "open" /\ invite' = [invite EXCEPT ![i].status = "revoked"]
    BY <1>7 DEF Room!RevokeInvite
  <2>2. [invite[i] EXCEPT !.status = "revoked"] \in AccessInvite
    BY <2>1 DEF AccessTypeOK, AccessInvite
  <2>3. invite' \in [Invites -> AccessInvite]
    BY <2>1, <2>2 DEF AccessTypeOK
  <2>4. QED
    BY <1>5, <1>7, <2>3 DEF Room!RevokeInvite
<1>8. QED
  BY <1>1, <1>2, <1>3, <1>4, <1>6, <1>7, <1>9, AccessCreate, AccessUpdate, AccessDelete, AccessChange,
     AccessGrant, AccessRedeem DEF Room!Next

LEMMA AccessTicketsProve ==
    ASSUME AccessInv
    PROVE  Room!TicketsProvePassword
BY DEF AccessInv, AccessTickets, AccessProves, Room!TicketsProvePassword, Room!RoomAccessAllowed

\* Every step of a room's row is one its present editor asked for.
LEMMA AccessEdits ==
    ASSUME AccessInv, Room!Next
    PROVE  Room!EditIsAuthorised
<1> DEFINE Same(r) == [room'[r] EXCEPT !.owner = room[r].owner] = room[r]
<1>1. SUFFICES ASSUME NEW r \in Rooms, Room!Active(r), ~Same(r)
               PROVE  /\ \E c \in Requesters :
                           /\ roomCall[c].op = IF Room!Active(r)' THEN "update" ELSE "delete"
                           /\ roomCall'[c] = Room!Idle /\ roomCall[c].room = r
                           /\ Room!CanEdit(roomCall[c].user, r)
                      /\ r = Lounge => Room!Active(r)'
  BY DEF Room!EditIsAuthorised
<1>2. room[r] \in AccessRow /\ room[r] # Room!Absent
  BY <1>1, AccessActive DEF AccessInv
<1>3. room'[r] # room[r] /\ \A o : room'[r] # [room[r] EXCEPT !.owner = o]
  BY <1>1, <1>2 DEF AccessRow
<1>4. room' # room /\ room \in [Rooms -> AccessRow \cup {Room!Absent}]
  BY <1>3 DEF AccessInv, AccessTypeOK
<1> HIDE DEF Same
<1>5. ASSUME NEW u \in Users, NEW q \in Rooms, NEW name \in Names, NEW private \in BOOLEAN,
             Room!Create(u, q, name, private)
      PROVE  FALSE
  BY <1>2, <1>3, <1>4, <1>5 DEF Room!Create
<1>6. CASE \E q \in Rooms, u \in Users, role \in {"none", "MEMBER"} : Room!ChangeMembership(q, u, role)
  BY <1>3, <1>4, <1>6 DEF Room!ChangeMembership, Room!SyncOwnerPointer
<1>7. CASE \E q \in Rooms, u \in Users : Room!GrantOwner(q, u)
  BY <1>3, <1>4, <1>7 DEF Room!GrantOwner
<1>8. ASSUME NEW c \in Requesters, Room!UpdateDetails(c)
      PROVE  /\ Room!Active(r)'
             /\ roomCall[c].op = "update" /\ roomCall'[c] = Room!Idle /\ roomCall[c].room = r
             /\ Room!CanEdit(roomCall[c].user, r)
  <2> DEFINE q == roomCall[c].room
             name == roomCall[c].input.name
             next == Room!Resulting(room[q], roomCall[c].input, passwords + 1)
  <2>1. /\ Room!CanEdit(roomCall[c].user, q) /\ next # None
        /\ room' = [room EXCEPT ![q] = [next EXCEPT !.name = name]]
    BY <1>4, <1>8 DEF Room!UpdateDetails
  <2>2. q = r
    BY <1>3, <1>4, <2>1
  <2>3. roomCall[c].op = "update" /\ roomCall'[c] = Room!Idle
    BY <1>8 DEF Room!UpdateDetails, AccessInv, AccessTypeOK
  <2>4. roomCall[c].input \in Room!Inputs /\ passwords + 1 \in Nat /\ (~room[r].private => room[r].pw = 0)
    BY <1>1, <2>3 DEF AccessInv, AccessTypeOK, AccessCall, AccessPublic
  <2>5. next \in AccessRow /\ next.status = room[r].status
    BY <1>2, <2>1, <2>2, <2>4, AccessResulting
  <2> HIDE DEF next
  <2>6. room'[r] = [next EXCEPT !.name = name]
    BY <1>4, <2>1, <2>2
  <2>7. room'[r].status = "active"
    BY <1>1, <2>5, <2>6 DEF AccessRow, Room!Active
  <2>8. QED
    BY <2>1, <2>2, <2>3, <2>7 DEF Room!Active
<1>9. ASSUME NEW c \in Requesters, Room!Delete(c)
      PROVE  /\ ~Room!Active(r)' /\ r # Lounge
             /\ roomCall[c].op = "delete" /\ roomCall'[c] = Room!Idle /\ roomCall[c].room = r
             /\ Room!CanEdit(roomCall[c].user, r)
  <2> DEFINE q == roomCall[c].room
  <2>1. /\ Room!CanEdit(roomCall[c].user, q) /\ q # Lounge
        /\ room' = [room EXCEPT ![q].status = "deleted"]
    BY <1>4, <1>9 DEF Room!Delete, Room!Unroom
  <2>2. q = r
    BY <1>3, <1>4, <2>1
  <2>3. room'[r] = [room[r] EXCEPT !.status = "deleted"]
    BY <1>4, <2>1, <2>2
  <2>4. room'[r].status = "deleted"
    BY <1>2, <2>3 DEF AccessRow
  <2>5. roomCall[c].op = "delete" /\ roomCall'[c] = Room!Idle
    BY <1>9 DEF Room!Delete, AccessInv, AccessTypeOK
  <2>6. QED
    BY <2>1, <2>2, <2>4, <2>5 DEF Room!Active
<1>10. QED
  BY <1>4, <1>5, <1>6, <1>7, <1>8, <1>9 DEF Room!Next, Room!UpdateRead, Room!DeleteRequest,
     Room!VerifyAccess, Room!EstablishRoomAccess, Room!TicketLapses, Room!CreateInvite, Room!RevokeInvite, Room!RedeemInvite

-----------------------------------------------------------------------------
(* Playlists: least and greatest numbers first *)

LEMMA LeastNatural ==
    ASSUME NEW T, T \subseteq Nat, T # {}
    PROVE  \E n \in T : \A m \in T : n <= m
<1>1. IsWellFoundedOn(OpToRel(<, Nat), Nat)
  BY NatLessThanWellFounded
<1>2. PICK n \in T : \A m \in T : <<m, n>> \notin OpToRel(<, Nat)
  BY <1>1, WFMin
<1>3. \A i, j \in Nat : i < j => <<i, j>> \in OpToRel(<, Nat)
  BY DEF OpToRel
<1>4. ASSUME NEW m \in T PROVE n <= m
  <2>1. m \in Nat /\ n \in Nat
    OBVIOUS
  <2>2. ~(m < n)
    BY <1>2, <1>3, <2>1
  <2>3. QED
    BY <2>1, <2>2
<1>5. QED
  BY <1>4

\* Of finitely many numbers one is greatest: otherwise take the shortest
\* prefix without a greatest.
LEMMA GreatestOf ==
    ASSUME NEW N \in Nat, NEW S, S \subseteq 1..N, S # {}, NEW f, \A t \in S : f[t] \in Nat
    PROVE  \E t \in S : \A s \in S : f[s] <= f[t]
<1> DEFINE Upto(k) == {t \in S : t <= k}
           Has(k) == Upto(k) = {} \/ \E t \in Upto(k) : \A s \in Upto(k) : f[s] <= f[t]
           B == {k \in 0..N : ~Has(k)}
<1>0. \A t \in S : t \in Nat /\ 1 <= t /\ t <= N
  OBVIOUS
<1>1. Has(N) => \E t \in S : \A s \in S : f[s] <= f[t]
  <2>1. Upto(N) = S
    BY <1>0
  <2>2. QED
    BY <2>1
<1>2. \A k \in 1..N : Upto(k) = IF k \in S THEN Upto(k - 1) \cup {k} ELSE Upto(k - 1)
  <2>1. \A k \in 1..N, t \in S : t <= k <=> t <= k - 1 \/ t = k
    BY <1>0
  <2>2. \A k \in 1..N : k <= k
    OBVIOUS
  <2>3. QED
    BY <2>1, <2>2
<1>3. Upto(0) = {}
  <2>1. \A t \in S : ~(t <= 0)
    BY <1>0
  <2>2. QED
    BY <2>1
<1>4. \A k : Upto(k) \subseteq S
  OBVIOUS
<1> HIDE DEF Upto
<1>5. SUFFICES ASSUME B # {} PROVE FALSE
  <2>1. N \in 0..N
    OBVIOUS
  <2>2. B = {} => Has(N)
    BY <2>1
  <2>3. QED
    BY <1>1, <2>2
<1>6. PICK k \in B : \A m \in B : k <= m
  <2>1. B \subseteq Nat
    OBVIOUS
  <2> HIDE DEF B
  <2>2. QED
    BY <1>5, <2>1, LeastNatural
<1>7. k \in 0..N /\ ~Has(k) /\ k # 0
  BY <1>3
<1>8. k \in 1..N /\ k - 1 \in 0..N /\ ~(k <= k - 1)
  BY <1>7
<1>9. Has(k - 1)
  BY <1>6, <1>8
<1>10. CASE k \notin S
  BY <1>2, <1>7, <1>8, <1>9, <1>10
<1>11. CASE k \in S /\ Upto(k - 1) = {}
  <2>1. Upto(k) = {k} /\ f[k] \in Nat
    BY <1>2, <1>8, <1>11
  <2>2. QED
    BY <1>7, <2>1
<1>12. CASE k \in S /\ Upto(k - 1) # {}
  <2>1. PICK t \in Upto(k - 1) : \A s \in Upto(k - 1) : f[s] <= f[t]
    BY <1>9, <1>12
  <2>2. Upto(k) = Upto(k - 1) \cup {k} /\ f[k] \in Nat /\ f[t] \in Nat
    BY <1>2, <1>4, <1>8, <1>12, <2>1
  <2>3. \A s \in Upto(k - 1) : f[s] \in Nat
    BY <1>4
  <2>4. CASE f[t] <= f[k]
    <3>1. \A s \in Upto(k) : f[s] <= f[k]
      BY <2>1, <2>2, <2>3, <2>4
    <3>2. QED
      BY <1>7, <2>2, <3>1
  <2>5. CASE ~(f[t] <= f[k])
    <3>1. \A s \in Upto(k) : f[s] <= f[t]
      BY <2>1, <2>2, <2>3, <2>5
    <3>2. QED
      BY <1>7, <2>1, <2>2, <3>1
  <2>6. QED
    BY <2>4, <2>5
<1>13. QED
  BY <1>10, <1>11, <1>12

-----------------------------------------------------------------------------
(* The rows of lists and tracks, and what requests hold of them *)

ListAlive(l) == list[l] \notin {None, Gone}

ListRows ==
    /\ list = [l \in List!Lists |-> list[l]]
    /\ \A l \in List!Lists : ListAlive(l) =>
         list[l] \in [owner : ListUsers \cup ListRooms, liked : BOOLEAN]
    /\ track = [t \in List!Tracks |-> track[t]]
    /\ \A t \in List!Tracks : track[t] # None =>
         /\ track[t] = [list |-> track[t].list, song |-> track[t].song, order |-> track[t].order]
         /\ track[t].list \in List!Lists /\ track[t].order \in Nat
    /\ listActive \subseteq ListRooms

ListHolds(c) ==
    LET mine == listCall[c]
    IN  \/ mine.op = "idle"
        \/ mine.op = "room" /\ mine.owner \in ListRooms
        \/ mine.op = "make" /\ mine.owner \in ListUsers /\ mine.then \in {"like", "unlike"}
        \/ mine.op \in {"like", "unlike", "delete", "add"} /\ mine.list \in List!Lists
        \/ /\ mine.op = "remove" /\ mine.list \in List!Lists
           /\ mine = [op |-> mine.op, owner |-> mine.owner, list |-> mine.list, todo |-> mine.todo]

ListCalls ==
    /\ listCall = [c \in Requesters |-> listCall[c]]
    /\ \A c \in Requesters : ListHolds(c)

ListTables == ListRows /\ List!PositionsAreDistinct /\ List!NothingOutlivesItsOwner
ListInv == ListTables /\ ListCalls

LEMMA ListInit == List!Init => ListInv
<1> SUFFICES ASSUME List!Init PROVE ListInv
  OBVIOUS
<1>1. ListRows
  BY DEF List!Init, ListRows, ListAlive
<1>2. List!PositionsAreDistinct /\ List!NothingOutlivesItsOwner
  BY DEF List!Init, List!PositionsAreDistinct, List!NothingOutlivesItsOwner, List!In
<1>3. ListCalls
  BY DEF List!Init, ListCalls, ListHolds, List!Idle
<1>4. QED
  BY <1>1, <1>2, <1>3 DEF ListInv, ListTables

\* A new list is empty: no track is of a list that does not live.
LEMMA ListCreated ==
    ASSUME ListTables, NEW l \in List!Lists, NEW o \in ListUsers \cup listActive, NEW liked \in BOOLEAN,
           List!NextList(l, o, liked), UNCHANGED <<track, listActive>>
    PROVE  ListTables'
<1> USE DEF ListTables
<1> DEFINE new == [owner |-> o, liked |-> liked]
<1>1. list[l] = None /\ list' = [list EXCEPT ![l] = new]
  BY DEF List!NextList, List!NewList
<1>2. new \in [owner : ListUsers \cup ListRooms, liked : BOOLEAN] /\ new.owner = o
  BY DEF ListRows
<1> HIDE DEF new
<1>3. list'[l] = new /\ \A m \in List!Lists : m # l => list'[m] = list[m]
  BY <1>1 DEF ListRows
<1>4. ListRows'
  BY <1>1, <1>2, <1>3 DEF ListRows, ListAlive
<1>5. \A m : List!In(m)' = List!In(m)
  BY DEF List!In
<1>6. List!In(l) = {}
  BY <1>1 DEF List!In, List!NothingOutlivesItsOwner
<1>7. List!PositionsAreDistinct'
  BY <1>3, <1>5, <1>6 DEF List!PositionsAreDistinct
<1>8. List!NothingOutlivesItsOwner'
  <2>1. \A m \in List!Lists : ListAlive(m)' => list'[m].owner \in ListUsers \cup listActive
    BY <1>2, <1>3 DEF ListAlive, List!NothingOutlivesItsOwner
  <2>2. \A t \in List!Tracks : track[t] # None =>
          track[t].list \in List!Lists /\ track[t].list # l /\ list[track[t].list] \notin {None, Gone}
    BY <1>1 DEF ListRows, List!NothingOutlivesItsOwner
  <2>3. QED
    BY <1>3, <2>1, <2>2 DEF ListAlive, List!NothingOutlivesItsOwner
<1>9. QED
  BY <1>4, <1>7, <1>8

\* Tracks go, and with a list all that it has.
LEMMA ListDropped ==
    ASSUME ListTables, NEW gone, track' = List!Drop(gone),
           list' = [l \in List!Lists |-> list'[l]],
           \A l \in List!Lists : list'[l] = list[l] \/ (list'[l] = Gone /\ List!In(l) \subseteq gone),
           listActive' \subseteq listActive,
           \A l \in List!Lists : list'[l] \notin {None, Gone} => list[l].owner \in ListUsers \cup listActive'
    PROVE  ListTables'
<1> USE DEF ListTables
<1>1. /\ track' = [t \in List!Tracks |-> track'[t]]
      /\ \A t \in List!Tracks : track'[t] # None => track'[t] = track[t] /\ t \notin gone /\ track[t] # None
  BY DEF List!Drop
<1>2. ListRows'
  BY <1>1 DEF ListRows, ListAlive
<1>3. \A l : List!In(l)' \subseteq List!In(l) \ gone
  BY <1>1 DEF List!In
<1>4. \A l \in List!Lists : list'[l] = list[l] \/ List!In(l)' = {}
  BY <1>3
<1>5. \A l : \A t \in List!In(l)' : track'[t] = track[t]
  BY <1>1 DEF List!In
<1>6. List!PositionsAreDistinct'
  BY <1>3, <1>4, <1>5 DEF List!PositionsAreDistinct
<1>7. \A l \in List!Lists : list'[l] \notin {None, Gone} => list'[l].owner \in ListUsers \cup listActive'
  OBVIOUS
<1>8. ASSUME NEW t \in List!Tracks, track'[t] # None PROVE list'[track'[t].list] \notin {None, Gone}
  <2>1. track'[t] = track[t] /\ t \notin gone /\ track[t] # None
    BY <1>1, <1>8
  <2>2. t \in List!In(track[t].list) /\ track[t].list \in List!Lists
    BY <2>1 DEF List!In, ListRows
  <2>3. list'[track[t].list] = list[track[t].list]
    BY <2>1, <2>2
  <2>4. QED
    BY <2>1, <2>3 DEF List!NothingOutlivesItsOwner
<1>9. List!NothingOutlivesItsOwner'
  BY <1>7, <1>8 DEF List!NothingOutlivesItsOwner
<1>10. QED
  BY <1>2, <1>6, <1>9

LEMMA ListDeleted ==
    ASSUME ListTables, NEW l \in List!Lists, NEW o, List!Deleted(o, l), listActive' = listActive
    PROVE  ListTables'
<1>1. list' = [list EXCEPT ![l] = Gone] /\ track' = List!Drop(List!In(l))
  BY DEF List!Deleted
<1>2. list' = [m \in List!Lists |-> list'[m]] /\ list'[l] = Gone
      /\ \A m \in List!Lists : m # l => list'[m] = list[m]
  BY <1>1 DEF ListTables, ListRows
<1>3. \A m \in List!Lists : list'[m] \notin {None, Gone} => list[m].owner \in ListUsers \cup listActive
  BY <1>2 DEF ListTables, List!NothingOutlivesItsOwner
<1>4. \A m \in List!Lists : list'[m] = list[m] \/ (list'[m] = Gone /\ List!In(m) \subseteq List!In(l))
  BY <1>2
<1> DEFINE gone == List!In(l)
<1>5. track' = List!Drop(gone)
  BY <1>1
<1>6. \A m \in List!Lists : list'[m] = list[m] \/ (list'[m] = Gone /\ List!In(m) \subseteq gone)
  BY <1>4
<1> HIDE DEF gone
<1>7. QED
  BY <1>2, <1>3, <1>5, <1>6, ListDropped

-----------------------------------------------------------------------------
(* New tracks are put behind those there are *)

LEMMA ListNextOrder ==
    ASSUME ListRows, NEW l
    PROVE  /\ List!NextOrder(l) \in Nat
           /\ \A t \in List!In(l) : track[t].order < List!NextOrder(l)
<1>1. CASE List!In(l) = {}
  BY <1>1 DEF List!NextOrder
<1>2. CASE List!In(l) # {}
  <2> DEFINE orders == {track[t].order : t \in List!In(l)}
             f == [t \in List!Tracks |-> track[t].order]
  <2>1. List!In(l) \subseteq 1..MaxTracks /\ \A t \in List!In(l) : track[t].order \in Nat /\ f[t] = track[t].order
    BY DEF List!In, List!Tracks, ListRows
  <2> HIDE DEF f
  <2>2. PICK t \in List!In(l) : \A s \in List!In(l) : f[s] <= f[t]
    BY <1>2, <2>1, GreatestOf, CatalogAssumption
  <2>3. \A n \in orders : track[t].order >= n
    BY <2>1, <2>2
  <2>4. track[t].order \in orders
    OBVIOUS
  <2> HIDE DEF orders
  <2>5. List!Max(orders) \in orders /\ \A n \in orders : List!Max(orders) >= n
    BY <2>3, <2>4 DEF List!Max
  <2>6. List!NextOrder(l) = List!Max(orders) + 1
    BY <1>2 DEF List!NextOrder, orders
  <2>7. orders \subseteq Nat /\ \A s \in List!In(l) : track[s].order \in orders
    BY <2>1 DEF orders
  <2> DEFINE top == List!Max(orders)
  <2>8. top \in Nat /\ List!NextOrder(l) = top + 1
    BY <2>5, <2>6, <2>7
  <2>9. \A s \in List!In(l) : track[s].order \in Nat /\ top >= track[s].order
    BY <2>1, <2>5, <2>7
  <2> HIDE DEF top
  <2>10. QED
    BY <2>8, <2>9
<1>3. QED
  BY <1>1, <1>2

LEMMA ListCardinality == \A S : List!Cardinality(S) = Cardinality(S)
BY DEF List!Cardinality, Cardinality, List!IsFiniteSet, IsFiniteSet

\* Different rows that are free have different ranks, from 1 on.
LEMMA ListNth ==
    ASSUME NEW s \in List!Unused, NEW t \in List!Unused
    PROVE  /\ List!Nth(s) \in Nat /\ List!Nth(s) >= 1
           /\ List!Nth(s) = List!Nth(t) => s = t
<1> DEFINE Low(x) == {y \in List!Unused : y <= x}
<1>1. List!Unused \subseteq 1..MaxTracks /\ 1..MaxTracks \subseteq Nat
  BY DEF List!Unused, List!Tracks
<1>2. IsFiniteSet(1..MaxTracks)
  BY FS_Interval, CatalogAssumption
<1>3. \A x : IsFiniteSet(Low(x))
  <2>1. ASSUME NEW x PROVE IsFiniteSet(Low(x))
    <3>1. Low(x) \in SUBSET (1..MaxTracks)
      BY <1>1
    <3> HIDE DEF Low
    <3>2. QED
      BY <1>2, <3>1, FS_Subset
  <2>2. QED
    BY <2>1
<1>4. \A x \in List!Unused : x \in Low(x)
  BY <1>1
<1>5. \A x, y \in List!Unused : x <= y => Low(x) \in SUBSET Low(y)
  <2>1. \A x, y, z \in List!Unused : z <= x /\ x <= y => z <= y
    <3>1. \A x \in List!Unused : x \in Nat
      BY <1>1
    <3>2. QED
      BY <3>1
  <2>2. QED
    BY <2>1
<1>6. \A x, y \in List!Unused : Low(x) = Low(y) => x = y
  <2>1. ASSUME NEW x \in List!Unused, NEW y \in List!Unused, Low(x) = Low(y) PROVE x = y
    <3>1. x <= y /\ y <= x /\ x \in Nat /\ y \in Nat
      BY <1>1, <1>4, <2>1
    <3>2. QED
      BY <3>1
  <2>2. QED
    BY <2>1
<1>7. \A x : List!Nth(x) = Cardinality(Low(x))
  BY ListCardinality DEF List!Nth
<1> HIDE DEF Low
<1>8. \A x : Cardinality(Low(x)) \in Nat
  BY <1>3, FS_CardinalityType
<1>9. Cardinality(Low(s)) # 0
  BY <1>3, <1>4, FS_EmptySet
<1>10. \A x, y \in List!Unused : x <= y /\ Cardinality(Low(x)) = Cardinality(Low(y)) => x = y
  BY <1>3, <1>5, <1>6, FS_Subset
<1>11. s <= t \/ t <= s
  BY <1>1
<1>12. QED
  BY <1>7, <1>8, <1>9, <1>10, <1>11

LEMMA ListAppended ==
    ASSUME ListTables, NEW l \in List!Lists, ListAlive(l), NEW songs, Len(songs) \in Nat,
           list[l].owner \in ListUsers =>
              /\ \A n \in 1..Len(songs) : List!Absent(l, songs[n])
              /\ \A m, n \in 1..Len(songs) : songs[m] = songs[n] => m = n,
           List!AppendTo(l, songs), UNCHANGED <<list, listActive>>
    PROVE  ListTables'
<1> USE DEF ListTables
<1> DEFINE Fresh(t) == t \in List!Unused /\ List!Nth(t) <= Len(songs)
           order(t) == List!NextOrder(l) + List!Nth(t) - 1
           new(t) == [list |-> l, song |-> songs[List!Nth(t)], order |-> order(t)]
<1>1. track' = [t \in List!Tracks |-> IF Fresh(t) THEN new(t) ELSE track[t]]
  BY DEF List!AppendTo
<1>2. \A t \in List!Tracks : Fresh(t) => List!Nth(t) \in 1..Len(songs) /\ track[t] = None
  BY ListNth DEF List!Unused
<1>3. \A t \in List!Tracks : Fresh(t) => order(t) \in Nat /\ order(t) >= List!NextOrder(l)
  BY <1>2, ListNextOrder
<1>4. \A s, t \in List!Tracks : Fresh(s) /\ Fresh(t) /\ s # t => order(s) # order(t) /\ List!Nth(s) # List!Nth(t)
  <2>1. ASSUME NEW s \in List!Tracks, NEW t \in List!Tracks, Fresh(s), Fresh(t), s # t
        PROVE  order(s) # order(t) /\ List!Nth(s) # List!Nth(t)
    <3>1. List!Nth(s) # List!Nth(t)
      BY <2>1, ListNth
    <3>2. List!Nth(s) \in Nat /\ List!Nth(t) \in Nat /\ List!NextOrder(l) \in Nat
      BY <1>2, <2>1, ListNextOrder
    <3>3. QED
      BY <3>1, <3>2
  <2>2. QED
    BY <2>1
<1>5. \A t : new(t) = [list |-> l, song |-> songs[List!Nth(t)], order |-> order(t)]
             /\ new(t).list = l /\ new(t).song = songs[List!Nth(t)] /\ new(t).order = order(t)
  OBVIOUS
<1> HIDE DEF Fresh, order, new
<1>6. \A t \in List!Tracks : track'[t] = IF Fresh(t) THEN new(t) ELSE track[t]
  BY <1>1
<1>7. ListRows'
  <2>1. track' = [t \in List!Tracks |-> track'[t]]
    BY <1>1
  <2>2. ASSUME NEW t \in List!Tracks, track'[t] # None
        PROVE  /\ track'[t] = [list |-> track'[t].list, song |-> track'[t].song, order |-> track'[t].order]
               /\ track'[t].list \in List!Lists /\ track'[t].order \in Nat
    <3>1. CASE Fresh(t)
      <4>1. track'[t] = new(t)
        BY <1>6, <3>1
      <4>2. order(t) \in Nat
        BY <1>3, <3>1
      <4>3. QED
        BY <1>5, <4>1, <4>2
    <3>2. CASE ~Fresh(t)
      BY <1>6, <2>2, <3>2 DEF ListRows
    <3>3. QED
      BY <3>1, <3>2
  <2>3. QED
    BY <2>1, <2>2 DEF ListRows, ListAlive
<1>8. \A m : \A t \in List!In(m)' : (Fresh(t) /\ m = l) \/ (~Fresh(t) /\ t \in List!In(m))
  BY <1>5, <1>6 DEF List!In
<1>9. \A m : \A t \in List!In(m)' : t \in List!Tracks
  BY DEF List!In
<1>10. ASSUME NEW m \in List!Lists, NEW s \in List!In(m)', NEW t \in List!In(m)', s # t, Fresh(s)
       PROVE  /\ track'[s].order # track'[t].order
              /\ list[m].owner \in ListUsers => track'[s].song # track'[t].song
  <2>1. m = l /\ s \in List!Tracks /\ t \in List!Tracks
    BY <1>8, <1>9, <1>10
  <2>2. track'[s].order = order(s) /\ track'[s].song = songs[List!Nth(s)] /\ List!Nth(s) \in 1..Len(songs)
    BY <1>2, <1>5, <1>6, <1>10, <2>1
  <2>3. CASE Fresh(t)
    <3>1. track'[t].order = order(t) /\ track'[t].song = songs[List!Nth(t)] /\ List!Nth(t) \in 1..Len(songs)
      BY <1>2, <1>5, <1>6, <2>1, <2>3
    <3>2. order(s) # order(t) /\ List!Nth(s) # List!Nth(t)
      BY <1>4, <1>10, <2>1, <2>3
    <3>3. QED
      BY <2>1, <2>2, <3>1, <3>2
  <2>4. CASE ~Fresh(t)
    <3>1. t \in List!In(l) /\ track'[t] = track[t]
      BY <1>6, <1>8, <2>1, <2>4
    <3>2. track[t].order < List!NextOrder(l) /\ order(s) >= List!NextOrder(l)
          /\ order(s) \in Nat /\ List!NextOrder(l) \in Nat /\ track[t].order \in Nat
      BY <1>3, <1>10, <2>1, <3>1, ListNextOrder DEF ListRows, List!In
    <3>3. track'[s].order # track'[t].order
      BY <2>2, <3>1, <3>2
    <3>4. list[l].owner \in ListUsers => songs[List!Nth(s)] # track[t].song
      BY <2>2, <3>1 DEF List!Absent
    <3>5. QED
      BY <2>1, <2>2, <3>1, <3>3, <3>4
  <2>5. QED
    BY <2>3, <2>4
<1>11. List!PositionsAreDistinct'
  <2>1. ASSUME NEW m \in List!Lists, NEW s \in List!In(m)', NEW t \in List!In(m)', s # t
        PROVE  /\ track'[s].order # track'[t].order
               /\ list[m].owner \in ListUsers => track'[s].song # track'[t].song
    <3>1. CASE Fresh(s)
      BY <1>10, <2>1, <3>1
    <3>2. CASE Fresh(t)
      BY <1>10, <2>1, <3>2
    <3>3. CASE ~Fresh(s) /\ ~Fresh(t)
      <4>1. s \in List!In(m) /\ t \in List!In(m) /\ track'[s] = track[s] /\ track'[t] = track[t]
        BY <1>6, <1>8, <1>9, <3>3
      <4>2. QED
        BY <2>1, <4>1 DEF List!PositionsAreDistinct
    <3>4. QED
      BY <3>1, <3>2, <3>3
  <2>2. QED
    BY <2>1 DEF List!PositionsAreDistinct
<1>12. List!NothingOutlivesItsOwner'
  <2>1. ASSUME NEW t \in List!Tracks, track'[t] # None PROVE list[track'[t].list] \notin {None, Gone}
    <3>1. CASE Fresh(t)
      BY <1>5, <1>6, <3>1 DEF ListAlive
    <3>2. CASE ~Fresh(t)
      BY <1>6, <2>1, <3>2 DEF List!NothingOutlivesItsOwner
    <3>3. QED
      BY <3>1, <3>2
  <2>2. QED
    BY <2>1 DEF List!NothingOutlivesItsOwner
<1>13. QED
  BY <1>7, <1>11, <1>12

\* Rewriting a list gives its kept tracks different positions.
LEMMA ListRewritten ==
    ASSUME ListTables, NEW l \in List!Lists, NEW kept, kept \subseteq List!In(l), NEW order,
           List!Ranked(l, kept, order), UNCHANGED <<list, listActive>>
    PROVE  ListTables'
<1> USE DEF ListTables
<1> DEFINE top == List!Cardinality(kept) - 1
<1>1. PICK rank \in [kept -> 0..top] :
        /\ \A s, t \in kept : s # t => rank[s] # rank[t]
        /\ track' = [t \in List!Tracks |-> IF t \in kept THEN [track[t] EXCEPT !.order = rank[t]]
                                           ELSE IF t \in List!In(l) THEN None ELSE track[t]]
  BY DEF List!Ranked
<1>2. List!In(l) \subseteq List!Tracks
  BY DEF List!In
<1>3. \A t \in kept : rank[t] \in Nat
  <2>1. kept \in SUBSET (1..MaxTracks)
    BY <1>2 DEF List!Tracks
  <2>2. IsFiniteSet(1..MaxTracks)
    BY FS_Interval, CatalogAssumption
  <2>3. IsFiniteSet(kept)
    BY <2>1, <2>2, FS_Subset
  <2>4. Cardinality(kept) \in Nat
    BY <2>3, FS_CardinalityType
  <2>5. top \in Int
    BY <2>4, ListCardinality
  <2> HIDE DEF top
  <2>6. 0..top \subseteq Nat
    BY <2>5
  <2>7. QED
    BY <2>6
<1> HIDE DEF top
<1>4. ASSUME NEW t \in kept
      PROVE  /\ track'[t] = [list |-> l, song |-> track[t].song, order |-> rank[t]]
             /\ track'[t].list = l /\ track'[t].order = rank[t] /\ track'[t].song = track[t].song
             /\ track[t] # None
  <2>1. t \in List!Tracks /\ track[t] # None /\ track[t].list = l
    BY DEF List!In
  <2>2. track[t] = [list |-> l, song |-> track[t].song, order |-> track[t].order]
    BY <2>1 DEF ListRows
  <2>3. track'[t] = [track[t] EXCEPT !.order = rank[t]]
    BY <1>1, <2>1
  <2>4. track'[t] = [list |-> l, song |-> track[t].song, order |-> rank[t]]
    BY <2>2, <2>3
  <2>5. QED
    BY <2>1, <2>4
<1>5. \A t \in List!Tracks : t \notin kept => track'[t] = None \/ (track'[t] = track[t] /\ t \notin List!In(l))
  BY <1>1
<1>6. ListRows'
  <2>1. track' = [t \in List!Tracks |-> track'[t]]
    BY <1>1
  <2>2. ASSUME NEW t \in List!Tracks, track'[t] # None
        PROVE  /\ track'[t] = [list |-> track'[t].list, song |-> track'[t].song, order |-> track'[t].order]
               /\ track'[t].list \in List!Lists /\ track'[t].order \in Nat
    <3>1. CASE t \in kept
      BY <1>3, <1>4, <3>1
    <3>2. CASE t \notin kept
      BY <1>5, <2>2, <3>2 DEF ListRows
    <3>3. QED
      BY <3>1, <3>2
  <2>3. QED
    BY <2>1, <2>2 DEF ListRows, ListAlive
<1>7. List!In(l)' \subseteq kept
  <2>1. ASSUME NEW t \in List!In(l)', t \notin kept PROVE FALSE
    <3>1. t \in List!Tracks /\ track'[t] # None /\ track'[t].list = l
      BY DEF List!In
    <3>2. track'[t] = track[t] /\ t \notin List!In(l)
      BY <1>5, <2>1, <3>1
    <3>3. QED
      BY <3>1, <3>2 DEF List!In
  <2>2. QED
    BY <2>1
<1>8. ASSUME NEW m \in List!Lists, m # l, NEW t \in List!In(m)' PROVE t \in List!In(m) /\ track'[t] = track[t]
  <2>1. t \in List!Tracks /\ track'[t] # None /\ track'[t].list = m
    BY DEF List!In
  <2>2. t \notin kept
    BY <1>4, <1>8, <2>1
  <2>3. track'[t] = track[t]
    BY <1>5, <2>1, <2>2
  <2>4. QED
    BY <2>1, <2>3 DEF List!In
<1>9. List!PositionsAreDistinct'
  <2>1. ASSUME NEW s \in List!In(l)', NEW t \in List!In(l)', s # t
        PROVE  /\ track'[s].order # track'[t].order
               /\ list[l].owner \in ListUsers => track'[s].song # track'[t].song
    <3>1. s \in kept /\ t \in kept
      BY <1>7
    <3>2. track'[s].order = rank[s] /\ track'[t].order = rank[t] /\ rank[s] # rank[t]
      BY <1>1, <1>4, <2>1, <3>1
    <3>3. list[l].owner \in ListUsers => track[s].song # track[t].song
      BY <2>1, <3>1 DEF List!PositionsAreDistinct
    <3>4. track'[s].song = track[s].song /\ track'[t].song = track[t].song
      BY <1>4, <3>1
    <3>5. QED
      BY <3>2, <3>3, <3>4
  <2>2. ASSUME NEW m \in List!Lists, m # l, NEW s \in List!In(m)', NEW t \in List!In(m)', s # t
        PROVE  /\ track'[s].order # track'[t].order
               /\ list[m].owner \in ListUsers => track'[s].song # track'[t].song
    BY <1>8, <2>2 DEF List!PositionsAreDistinct
  <2>3. QED
    BY <2>1, <2>2 DEF List!PositionsAreDistinct
<1>10. List!NothingOutlivesItsOwner'
  <2>1. ASSUME NEW t \in List!Tracks, track'[t] # None PROVE list[track'[t].list] \notin {None, Gone}
    <3>1. CASE t \in kept
      <4>1. track'[t].list = l /\ track[t] # None /\ track[t].list = l
        BY <1>4, <3>1 DEF List!In
      <4>2. QED
        BY <4>1 DEF List!NothingOutlivesItsOwner
    <3>2. CASE t \notin kept
      BY <1>5, <2>1, <3>2 DEF List!NothingOutlivesItsOwner
    <3>3. QED
      BY <3>1, <3>2
  <2>2. QED
    BY <2>1 DEF List!NothingOutlivesItsOwner
<1>11. QED
  BY <1>6, <1>9, <1>10

-----------------------------------------------------------------------------
(* Requests: each is some of these changes *)

LEMMA ListSongs ==
    ASSUME NEW songs \in List!SongSeqs
    PROVE  /\ Len(songs) \in Nat /\ DOMAIN songs = 1..Len(songs)
           /\ \A m, n \in 1..Len(songs) : songs[m] = songs[n] => m = n
<1>1. PICK k \in 0..2 : songs \in [1..k -> Songs]
  BY DEF List!SongSeqs, List!SeqOf
<1>2. songs \in Seq(Songs) /\ Len(songs) = k
  BY <1>1
<1>3. DOMAIN songs = 1..Len(songs) /\ Len(songs) \in Nat
  BY <1>1, <1>2
<1>4. \A m, n \in DOMAIN songs : songs[m] = songs[n] => m = n
  BY DEF List!SongSeqs, List!IsInjective
<1>5. QED
  BY <1>3, <1>4

LEMMA ListOneAdded ==
    ASSUME ListTables, NEW l \in List!Lists, NEW o, List!Exists(l, o), NEW song,
           o \in ListUsers => List!Absent(l, song),
           List!AppendTo(l, <<song>>), UNCHANGED <<list, listActive>>
    PROVE  ListTables'
<1> DEFINE songs == <<song>>
<1>1. Len(songs) = 1 /\ songs[1] = song
  OBVIOUS
<1>2. List!AppendTo(l, songs)
  OBVIOUS
<1>3. ListAlive(l) /\ list[l].owner = o
  BY DEF ListAlive, List!Exists
<1> HIDE DEF songs
<1>4. \A n \in 1..Len(songs) : n = 1
  BY <1>1
<1>5. Len(songs) \in Nat
  BY <1>1
<1>6. list[l].owner \in ListUsers =>
        /\ \A n \in 1..Len(songs) : List!Absent(l, songs[n])
        /\ \A m, n \in 1..Len(songs) : songs[m] = songs[n] => m = n
  BY <1>1, <1>3, <1>4
<1>7. QED
  BY <1>2, <1>3, <1>5, <1>6, ListAppended

LEMMA ListUserAdded ==
    ASSUME ListTables, NEW l \in List!Lists, NEW u, NEW song,
           List!UserAddTrack(u, l, song), UNCHANGED <<list, listActive>>
    PROVE  ListTables'
<1>1. CASE List!Absent(l, song)
  BY <1>1, ListOneAdded DEF List!UserAddTrack
<1>2. CASE ~List!Absent(l, song)
  <2>1. UNCHANGED <<list, track, listActive>>
    BY <1>2 DEF List!UserAddTrack
  <2>2. QED
    BY <2>1 DEF ListTables, ListRows, ListAlive, List!PositionsAreDistinct,
       List!NothingOutlivesItsOwner, List!In
<1>3. QED
  BY <1>1, <1>2

LEMMA ListUserAddedMany ==
    ASSUME ListTables, NEW l \in List!Lists, NEW u, NEW songs,
           List!UserAddTracks(u, l, songs), UNCHANGED <<list, listActive>>
    PROVE  ListTables'
<1>1. PICK new \in List!SongSeqs :
        /\ List!ToSet(new) = {song \in List!ToSet(songs) : List!Absent(l, song)}
        /\ List!AppendTo(l, new)
  BY DEF List!UserAddTracks
<1>2. /\ Len(new) \in Nat /\ DOMAIN new = 1..Len(new)
      /\ \A m, n \in 1..Len(new) : new[m] = new[n] => m = n
  BY ListSongs
<1>3. \A n \in 1..Len(new) : new[n] \in List!ToSet(new)
  BY <1>2 DEF List!ToSet
<1>4. \A n \in 1..Len(new) : List!Absent(l, new[n])
  BY <1>1, <1>3
<1>5. ListAlive(l)
  BY DEF List!UserAddTracks, List!Exists, ListAlive
<1>6. QED
  BY <1>1, <1>2, <1>4, <1>5, ListAppended

LEMMA ListRoomAdded ==
    ASSUME ListTables, NEW l \in List!Lists, NEW r \in ListRooms, NEW songs \in List!Requested,
           List!RoomAddTracks(r, l, songs), UNCHANGED <<list, listActive>>
    PROVE  ListTables'
<1>1. Len(songs) \in Nat
  BY ListSongs DEF List!Requested
<1>2. ListAlive(l) /\ list[l].owner \notin ListUsers /\ List!AppendTo(l, songs)
  BY CatalogAssumption DEF List!RoomAddTracks, List!Exists, ListAlive
<1>3. QED
  BY <1>1, <1>2, ListAppended

LEMMA ListTrackDeleted ==
    ASSUME ListTables, NEW l \in List!Lists, NEW o, NEW t,
           List!DeleteTrack(o, l, t), UNCHANGED <<list, listActive>>
    PROVE  ListTables'
<1> DEFINE kept == List!In(l) \ {t}
           order == List!Orders(l)
<1>1. List!Ranked(l, kept, order)
  BY DEF List!DeleteTrack, List!UserDeleteTrack, List!RoomDeleteTrack,
     List!RewriteUserPlaylistOrder, List!RewriteRoomPlaylistOrder
<1>2. kept \subseteq List!In(l)
  OBVIOUS
<1> HIDE DEF kept, order
<1>3. QED
  BY <1>1, <1>2, ListRewritten

LEMMA ListReordered ==
    ASSUME ListTables, NEW l \in List!Lists, NEW o, NEW ids,
           List!UserReorderTracks(o, l, ids) \/ List!RoomReorderTracks(o, l, ids),
           UNCHANGED <<list, listActive>>
    PROVE  ListTables'
<1> DEFINE kept == List!In(l)
           order == List!Reordered(l, ids)
<1>1. List!Ranked(l, kept, order)
  BY DEF List!UserReorderTracks, List!RoomReorderTracks,
     List!RewriteUserPlaylistOrder, List!RewriteRoomPlaylistOrder
<1>2. kept \subseteq List!In(l)
  OBVIOUS
<1> HIDE DEF kept, order
<1>3. QED
  BY <1>1, <1>2, ListRewritten

LEMMA ListSame ==
    ASSUME ListTables, UNCHANGED <<list, track, listActive>>
    PROVE  ListTables'
BY DEF ListTables, ListRows, ListAlive, List!PositionsAreDistinct, List!NothingOutlivesItsOwner, List!In

LEMMA ListUserRequest ==
    ASSUME ListTables, NEW u \in ListUsers, List!UserRequest(u)
    PROVE  ListTables' /\ listCall' = listCall
<1>1. UNCHANGED <<listActive, listCall>>
  BY DEF List!UserRequest
<1>2. ASSUME List!CreateUserPlaylist(u, FALSE), UNCHANGED track PROVE ListTables'
  BY <1>1, <1>2, ListCreated DEF List!CreateUserPlaylist
<1>3. ASSUME NEW l \in List!Lists, List!DeleteUserPlaylist(u, l) PROVE ListTables'
  BY <1>1, <1>3, ListDeleted DEF List!DeleteUserPlaylist
<1>4. ASSUME NEW l \in List!Lists, NEW songs, List!UserAddTracks(u, l, songs), UNCHANGED list PROVE ListTables'
  BY <1>1, <1>4, ListUserAddedMany
<1>5. ASSUME NEW l \in List!Lists, NEW t, List!UserDeleteTrack(u, l, t), UNCHANGED list PROVE ListTables'
  BY <1>1, <1>5, ListTrackDeleted DEF List!DeleteTrack
<1>6. ASSUME NEW l \in List!Lists, NEW ids, List!UserReorderTracks(u, l, ids), UNCHANGED list PROVE ListTables'
  BY <1>1, <1>6, ListReordered
<1>7. QED
  BY <1>1, <1>2, <1>3, <1>4, <1>5, <1>6 DEF List!UserRequest, List!UserListRequest, List!UserTrackRequest

\* What a caller holds changes with its own step only.
LEMMA ListCallSet ==
    ASSUME ListCalls, NEW c \in Requesters, NEW e, listCall' = [listCall EXCEPT ![c] = e],
           ListHolds(c)'
    PROVE  ListCalls'
<1>1. \A d \in Requesters : d # c => listCall'[d] = listCall[d]
  BY DEF ListCalls
<1>2. \A d \in Requesters : d # c => ListHolds(d)'
  BY <1>1 DEF ListCalls, ListHolds
<1>3. listCall' = [d \in Requesters |-> listCall'[d]]
  BY DEF ListCalls
<1>4. QED
  BY <1>2, <1>3 DEF ListCalls

LEMMA ListCallDone ==
    ASSUME ListCalls, NEW c \in Requesters, listCall' = [listCall EXCEPT ![c] = List!Idle]
    PROVE  ListCalls'
<1>1. listCall'[c] = List!Idle
  BY DEF ListCalls
<1>2. ListHolds(c)'
  BY <1>1 DEF ListHolds, List!Idle
<1>3. QED
  BY <1>2, ListCallSet

LEMMA ListLiked ==
    ASSUME ListInv, NEW c \in Requesters, NEW u \in ListUsers, NEW op \in {"like", "unlike"}, NEW song,
           List!LikedSongs(c, u, op, song)
    PROVE  ListInv'
<1> USE DEF ListInv
<1> DEFINE make == [op |-> "make", owner |-> u, then |-> op, song |-> song]
           go == [op |-> op, owner |-> u, list |-> List!Min(List!Liked(u)), song |-> song]
           e == IF List!Liked(u) = {} THEN make ELSE go
<1>1. listCall' = [listCall EXCEPT ![c] = e] /\ UNCHANGED <<list, track, listActive>>
  BY DEF List!LikedSongs
<1>2. List!Liked(u) # {} => List!Min(List!Liked(u)) \in List!Lists
  <2>1. List!Liked(u) \subseteq List!Lists /\ List!Lists \subseteq Nat
    BY DEF List!Liked, List!Lists
  <2>2. List!Liked(u) # {} => \E n \in List!Liked(u) : \A m \in List!Liked(u) : n <= m
    BY <2>1, LeastNatural
  <2>3. List!Liked(u) # {} => List!Min(List!Liked(u)) \in List!Liked(u)
    BY <2>2 DEF List!Min
  <2>4. QED
    BY <2>1, <2>3
<1>3. make.op = "make" /\ make.owner = u /\ make.then = op
  OBVIOUS
<1>4. go.op = op /\ go.list = List!Min(List!Liked(u))
  OBVIOUS
<1> HIDE DEF make, go
<1>5. listCall'[c] = e
  BY <1>1 DEF ListCalls
<1>6. ListHolds(c)'
  BY <1>2, <1>3, <1>4, <1>5 DEF ListHolds
<1>7. ListCalls'
  <2> HIDE DEF e
  <2>1. QED
    BY <1>1, <1>6, ListCallSet
<1>8. QED
  BY <1>1, <1>7, ListSame

LEMMA ListMakeLiked ==
    ASSUME ListInv, NEW c \in Requesters, List!MakeLiked(c)
    PROVE  ListInv'
<1> USE DEF ListInv
<1> DEFINE u == listCall[c].owner
<1>1. listCall[c].op = "make" /\ UNCHANGED <<track, listActive>>
  BY DEF List!MakeLiked
<1>2. u \in ListUsers /\ listCall[c].then \in {"like", "unlike"}
  BY <1>1 DEF ListCalls, ListHolds
<1>3. ListTables'
  <2>1. CASE List!Liked(u) # {}
    BY <1>1, <2>1, ListSame DEF List!MakeLiked
  <2>2. CASE List!Liked(u) = {}
    <3>1. PICK l \in List!Lists : List!NextList(l, u, TRUE)
      BY <2>2 DEF List!MakeLiked, List!CreateUserPlaylist
    <3>2. QED
      BY <1>1, <1>2, <3>1, ListCreated
  <2>3. QED
    BY <2>1, <2>2
<1>4. PICK l \in List!Lists :
        listCall' = [listCall EXCEPT ![c] = [op |-> @.then, owner |-> u, list |-> l, song |-> @.song]]
  BY DEF List!MakeLiked
<1> DEFINE e == [op |-> listCall[c].then, owner |-> u, list |-> l, song |-> listCall[c].song]
<1>5. listCall' = [listCall EXCEPT ![c] = e]
  BY <1>4
<1>6. e.op \in {"like", "unlike"} /\ e.list = l
  BY <1>2
<1> HIDE DEF e
<1>7. listCall'[c] = e
  BY <1>5 DEF ListCalls
<1>8. ListHolds(c)'
  BY <1>6, <1>7 DEF ListHolds
<1>9. QED
  BY <1>3, <1>5, <1>8, ListCallSet

LEMMA ListLike ==
    ASSUME ListInv, NEW c \in Requesters, List!Like(c)
    PROVE  ListInv'
<1> USE DEF ListInv
<1> DEFINE u == listCall[c].owner
           l == listCall[c].list
           song == listCall[c].song
<1>1. /\ listCall[c].op \in {"like", "unlike"}
      /\ listCall' = [listCall EXCEPT ![c] = List!Idle]
      /\ UNCHANGED <<list, listActive>>
  BY DEF List!Like
<1>2. l \in List!Lists
  BY <1>1 DEF ListCalls, ListHolds
<1>3. \/ List!UserAddTrack(u, l, song)
      \/ \E t \in List!In(l) : List!UserDeleteTrack(u, l, t)
      \/ UNCHANGED track
  BY DEF List!Like
<1> HIDE DEF u, l, song
<1>4. CASE List!UserAddTrack(u, l, song)
  BY <1>1, <1>2, <1>4, ListUserAdded, ListCallDone
<1>5. CASE \E t \in List!In(l) : List!UserDeleteTrack(u, l, t)
  BY <1>1, <1>2, <1>5, ListTrackDeleted, ListCallDone DEF List!DeleteTrack
<1>6. CASE UNCHANGED track
  BY <1>1, <1>6, ListSame, ListCallDone
<1>7. QED
  BY <1>3, <1>4, <1>5, <1>6

LEMMA ListRoomRequest ==
    ASSUME ListInv, NEW c \in Requesters, List!RoomRequest(c)
    PROVE  ListInv'
<1> USE DEF ListInv
<1> DEFINE r == listCall[c].owner
<1>1. /\ listCall[c].op = "room" /\ UNCHANGED listActive
      /\ listCall' = [listCall EXCEPT ![c] = List!Idle]
      /\ List!RoomListRequest(r) \/ List!RoomTrackRequest(r) \/ UNCHANGED <<list, track>>
  BY DEF List!RoomRequest
<1>2. r \in ListRooms
  BY <1>1 DEF ListCalls, ListHolds
<1> HIDE DEF r
<1>3. ListCalls'
  BY <1>1, ListCallDone
<1>4. CASE List!RoomListRequest(r)
  <2>1. ASSUME List!CreateRoomPlaylist(r), UNCHANGED track PROVE ListTables'
    BY <1>1, <2>1, ListCreated DEF List!CreateRoomPlaylist
  <2>2. ASSUME NEW l \in List!Lists, List!DeleteRoomPlaylist(r, l) PROVE ListTables'
    BY <1>1, <2>2, ListDeleted DEF List!DeleteRoomPlaylist
  <2>3. QED
    BY <1>3, <1>4, <2>1, <2>2 DEF List!RoomListRequest
<1>5. CASE List!RoomTrackRequest(r)
  <2>1. PICK l \in List!Lists :
          \/ \E song \in Songs : List!RoomAddTrack(r, l, song)
          \/ \E songs \in List!Requested : List!RoomAddTracks(r, l, songs)
          \/ \E t \in List!Tracks : List!RoomDeleteTrack(r, l, t)
          \/ \E ids \in List!TrackSeqs : List!RoomReorderTracks(r, l, ids)
    BY <1>5 DEF List!RoomTrackRequest
  <2>2. UNCHANGED list
    BY <1>5 DEF List!RoomTrackRequest
  <2>3. ASSUME NEW song \in Songs, List!RoomAddTrack(r, l, song) PROVE ListTables'
    <3>1. List!Exists(l, r) /\ List!AppendTo(l, <<song>>) /\ r \notin ListUsers
      BY <1>2, <2>3, CatalogAssumption DEF List!RoomAddTrack
    <3>2. QED
      BY <1>1, <2>2, <3>1, ListOneAdded
  <2>4. ASSUME NEW songs \in List!Requested, List!RoomAddTracks(r, l, songs) PROVE ListTables'
    BY <1>1, <1>2, <2>2, <2>4, ListRoomAdded
  <2>5. ASSUME NEW t, List!RoomDeleteTrack(r, l, t) PROVE ListTables'
    BY <1>1, <2>2, <2>5, ListTrackDeleted DEF List!DeleteTrack
  <2>6. ASSUME NEW ids, List!RoomReorderTracks(r, l, ids) PROVE ListTables'
    BY <1>1, <2>2, <2>6, ListReordered
  <2>7. QED
    BY <1>3, <2>1, <2>3, <2>4, <2>5, <2>6
<1>6. CASE UNCHANGED <<list, track>>
  BY <1>1, <1>3, <1>6, ListSame
<1>7. QED
  BY <1>1, <1>4, <1>5, <1>6

LEMMA ListCommandWrite ==
    ASSUME ListInv, NEW c \in Requesters, List!CommandWrite(c)
    PROVE  ListInv'
<1> USE DEF ListInv
<1> DEFINE o == listCall[c].owner
           l == listCall[c].list
<1>1. /\ listCall[c].op \in {"delete", "add"} /\ UNCHANGED listActive
      /\ listCall' = [listCall EXCEPT ![c] = List!Idle]
      /\ \/ List!DeletePlaylist(o, l)
         \/ UNCHANGED list /\ \E songs \in List!Requested : List!AddTracks(o, l, songs)
         \/ UNCHANGED <<list, track>>
  BY DEF List!CommandWrite
<1>2. l \in List!Lists
  BY <1>1 DEF ListCalls, ListHolds
<1> HIDE DEF o, l
<1>3. ListCalls'
  BY <1>1, ListCallDone
<1>4. CASE List!DeletePlaylist(o, l)
  BY <1>1, <1>2, <1>3, <1>4, ListDeleted
     DEF List!DeletePlaylist, List!DeleteUserPlaylist, List!DeleteRoomPlaylist
<1>5. ASSUME UNCHANGED list, NEW songs \in List!Requested, List!AddTracks(o, l, songs) PROVE ListTables'
  <2>1. CASE List!UserAddTracks(o, l, songs)
    BY <1>1, <1>2, <1>5, <2>1, ListUserAddedMany
  <2>2. CASE o \in ListRooms /\ List!RoomAddTracks(o, l, songs)
    BY <1>1, <1>2, <1>5, <2>2, ListRoomAdded
  <2>3. QED
    BY <1>5, <2>1, <2>2 DEF List!AddTracks
<1>6. CASE UNCHANGED <<list, track>>
  BY <1>1, <1>3, <1>6, ListSame
<1>7. QED
  BY <1>1, <1>3, <1>4, <1>5, <1>6

LEMMA ListCommandRemove ==
    ASSUME ListInv, NEW c \in Requesters, List!CommandRemove(c)
    PROVE  ListInv'
<1> USE DEF ListInv
<1> DEFINE o == listCall[c].owner
           l == listCall[c].list
           t == Head(listCall[c].todo)
           rest == Tail(listCall[c].todo)
           more == [listCall[c] EXCEPT !.todo = rest]
<1>1. /\ listCall[c].op = "remove" /\ UNCHANGED <<list, listActive>>
      /\ List!DeleteTrack(o, l, t) \/ UNCHANGED track
  BY DEF List!CommandRemove
<1>2. PICK failed \in {Len(listCall[c].todo) = 1, TRUE} :
        listCall' = [listCall EXCEPT ![c] = IF failed THEN List!Idle ELSE more]
  BY DEF List!CommandRemove
<1> HIDE DEF more
<1>3. \/ listCall' = [listCall EXCEPT ![c] = List!Idle]
      \/ listCall' = [listCall EXCEPT ![c] = more]
  <2>1. CASE failed
    BY <1>2, <2>1
  <2>2. CASE ~failed
    BY <1>2, <2>2
  <2>3. QED
    BY <2>1, <2>2
<1>4. /\ l \in List!Lists
      /\ listCall[c] = [op |-> "remove", owner |-> o, list |-> l, todo |-> listCall[c].todo]
  BY <1>1 DEF ListCalls, ListHolds
<1> DEFINE now == listCall[c].todo
<1> HIDE DEF o, l, t, rest, now
<1>5. listCall[c] = [op |-> "remove", owner |-> o, list |-> l, todo |-> now]
  BY <1>4 DEF now
<1>6. more = [op |-> "remove", owner |-> o, list |-> l, todo |-> rest]
  BY <1>5 DEF more
<1>7. ListTables'
  BY <1>1, <1>4, ListTrackDeleted, ListSame
<1>8. CASE listCall' = [listCall EXCEPT ![c] = more]
  <2>1. listCall'[c] = more
    BY <1>8 DEF ListCalls
  <2>2. ListHolds(c)'
    BY <1>4, <1>6, <2>1 DEF ListHolds
  <2>3. QED
    BY <1>7, <1>8, <2>2, ListCallSet
<1>9. CASE listCall' = [listCall EXCEPT ![c] = List!Idle]
  BY <1>7, <1>9, ListCallDone
<1>10. QED
  BY <1>3, <1>8, <1>9

LEMMA ListCommand ==
    ASSUME ListInv, NEW c \in Requesters, NEW o, NEW l \in List!Lists,
           NEW op \in {"delete", "add", "remove"}, NEW ids, List!Command(c, o, l, op, ids)
    PROVE  ListInv'
<1> USE DEF ListInv
<1> DEFINE e == [op |-> op, owner |-> o, list |-> l, todo |-> ids]
<1>1. listCall' = [listCall EXCEPT ![c] = e] /\ UNCHANGED <<list, track, listActive>>
  BY DEF List!Command
<1>2. e.op = op /\ e.list = l /\ e = [op |-> e.op, owner |-> e.owner, list |-> e.list, todo |-> e.todo]
  OBVIOUS
<1> HIDE DEF e
<1>3. listCall'[c] = e
  BY <1>1 DEF ListCalls
<1>4. ListHolds(c)'
  BY <1>2, <1>3 DEF ListHolds
<1>5. QED
  BY <1>1, <1>4, ListSame, ListCallSet

LEMMA ListRoomDeleted ==
    ASSUME ListInv, NEW r \in ListRooms, List!DeleteRoom(r)
    PROVE  ListInv'
<1> USE DEF ListInv
<1> DEFINE lists == {l \in List!Lists : List!Exists(l, r)}
           gone == UNION {List!In(l) : l \in lists}
<1>1. /\ listActive' = listActive \ {r}
      /\ list' = [l \in List!Lists |-> IF l \in lists THEN Gone ELSE list[l]]
      /\ track' = List!Drop(gone)
      /\ listCall' = listCall
  BY DEF List!DeleteRoom
<1>2. \A l \in List!Lists : list'[l] = list[l] \/ (list'[l] = Gone /\ List!In(l) \subseteq gone)
  BY <1>1
<1>3. \A l \in List!Lists : list'[l] \notin {None, Gone} => list[l].owner \in ListUsers \cup listActive'
  <2>1. ASSUME NEW l \in List!Lists, list'[l] \notin {None, Gone}
        PROVE  list[l].owner \in ListUsers \cup listActive'
    <3>1. list[l] \notin {None, Gone} /\ ~List!Exists(l, r)
      BY <1>1, <2>1
    <3>2. list[l].owner # r /\ list[l].owner \in ListUsers \cup listActive
      BY <3>1 DEF List!Exists, ListTables, List!NothingOutlivesItsOwner
    <3>3. QED
      BY <1>1, <3>2
  <2>2. QED
    BY <2>1
<1>4. list' = [l \in List!Lists |-> list'[l]] /\ listActive' \subseteq listActive
  BY <1>1
<1> HIDE DEF gone, lists
<1>5. ListTables'
  BY <1>1, <1>2, <1>3, <1>4, ListDropped
<1>6. ListCalls'
  BY <1>1 DEF ListCalls, ListHolds
<1>7. QED
  BY <1>5, <1>6

LEMMA ListLocalDeleted ==
    ASSUME ListInv, NEW song, List!DeleteLocalReferences(song)
    PROVE  ListInv'
<1> USE DEF ListInv
<1> DEFINE gone == {t \in List!Tracks : track[t] # None /\ track[t].song = song}
<1>1. track' = List!Drop(gone) /\ UNCHANGED <<list, listActive, listCall>>
  BY DEF List!DeleteLocalReferences
<1> HIDE DEF gone
<1>2. /\ list' = [l \in List!Lists |-> list'[l]] /\ listActive' \subseteq listActive
      /\ \A l \in List!Lists : list'[l] \notin {None, Gone} => list[l].owner \in ListUsers \cup listActive'
      /\ \A l \in List!Lists : list'[l] = list[l] \/ (list'[l] = Gone /\ List!In(l) \subseteq gone)
  BY <1>1 DEF ListTables, ListRows, List!NothingOutlivesItsOwner
<1>3. ListTables'
  BY <1>1, <1>2, ListDropped
<1>4. ListCalls'
  BY <1>1 DEF ListCalls, ListHolds
<1>5. QED
  BY <1>3, <1>4

LEMMA ListNext ==
    ASSUME ListInv, List!Next
    PROVE  ListInv'
<1> USE DEF ListInv
<1>1. ASSUME NEW u \in ListUsers, List!UserRequest(u) PROVE ListInv'
  <2>1. ListTables' /\ listCall' = listCall
    BY <1>1, ListUserRequest
  <2>2. QED
    BY <2>1 DEF ListCalls, ListHolds
<1>2. ASSUME NEW c \in Requesters, NEW r \in ListRooms, List!RoomAccess(c, r) PROVE ListInv'
  <2> DEFINE e == [op |-> "room", owner |-> r]
  <2>1. listCall' = [listCall EXCEPT ![c] = e] /\ UNCHANGED <<list, track, listActive>>
    BY <1>2 DEF List!RoomAccess
  <2>2. e.op = "room" /\ e.owner = r
    OBVIOUS
  <2> HIDE DEF e
  <2>3. listCall'[c] = e
    BY <2>1 DEF ListCalls
  <2>4. ListHolds(c)'
    BY <2>2, <2>3 DEF ListHolds
  <2>5. QED
    BY <2>1, <2>4, ListSame, ListCallSet
<1>3. ASSUME NEW o \in List!Owners, List!CommandCreate(o) PROVE ListInv'
  <2>1. UNCHANGED <<track, listActive, listCall>> /\ List!Create(o)
    BY <1>3 DEF List!CommandCreate
  <2>2. PICK l \in List!Lists : List!NextList(l, o, FALSE) /\ o \in ListUsers \cup listActive
    BY <2>1 DEF List!Create, List!CreateUserPlaylist, List!CreateRoomPlaylist
  <2>3. ListTables'
    BY <2>1, <2>2, ListCreated
  <2>4. QED
    BY <2>1, <2>3 DEF ListCalls, ListHolds
<1>4. ASSUME NEW c \in Requesters, NEW o \in List!Owners, NEW l \in List!Lists,
             NEW op \in {"delete", "add", "remove"},
             NEW ids \in IF op = "remove" THEN List!TrackSeqs ELSE {<<>>}, List!Command(c, o, l, op, ids)
      PROVE  ListInv'
  BY <1>4, ListCommand
<1>5. QED
  BY <1>1, <1>2, <1>3, <1>4, ListLiked, ListMakeLiked, ListLike, ListRoomRequest, ListCommandWrite,
     ListCommandRemove, ListRoomDeleted, ListLocalDeleted DEF List!Next

-----------------------------------------------------------------------------
(* Music sources *)

\* What a restart would register of a source in a room.
MusicRow(s, r) ==
    IF binding[r][s] # None THEN [cred |-> source[s], policy |-> binding[r][s]]
    ELSE IF s = EnvSource /\ r = Lounge /\ source[s] = None
         THEN [cred |-> EnvCred, policy |-> CHOOSE p \in Policies \ {Off} : TRUE]
    ELSE None

MusicServed(s, r) ==
    \/ registry[s][r] = MusicRow(s, r)
    \/ s = EnvSource /\ r = Lounge /\ source[s] = None /\ registry[s][r] = None

MusicTypeOK ==
    /\ source \in [Sources -> Creds \cup {None}]
    /\ binding \in [Rooms -> [Sources -> Policies \cup {None}]]
    /\ musicActive \subseteq Rooms
    /\ registry = [s \in Sources |-> [r \in Rooms |-> registry[s][r]]]
    /\ admin \in Music!AdminStep \cup {None}

\* A room that is gone has no bindings, what is bound has its source.
MusicBound ==
    /\ \A r \in Rooms \ musicActive, s \in Sources : binding[r][s] = None
    /\ Lounge \in Rooms => Lounge \in musicActive
    /\ \A r \in Rooms, s \in Sources : binding[r][s] # None => source[s] # None

\* Where the registry may be behind the rows, and what the step at work holds.
MusicStep ==
    /\ admin = None => \A s \in Sources, r \in musicActive : MusicServed(s, r)
    /\ admin # None /\ admin.op = "clear" => \A s \in Sources, r \in musicActive : MusicServed(s, r)
    /\ admin # None /\ admin.op = "order" =>
         /\ \A s \in Sources, r \in musicActive : MusicServed(s, r)
         /\ admin.room \in musicActive => admin.policy = binding[admin.room][admin.source]
    /\ admin # None /\ admin.op = "publish" =>
         /\ \A s \in Sources \ {admin.source}, r \in musicActive : MusicServed(s, r)
         /\ admin.cred = source[admin.source] /\ admin.cred # None
         /\ \A r \in musicActive : admin.rooms[r] = binding[r][admin.source]
    /\ admin # None /\ admin.op = "unregister" =>
         /\ \A s \in Sources, r \in musicActive : <<s, r>> # <<admin.source, admin.room>> => MusicServed(s, r)
         /\ binding[admin.room][admin.source] = None

MusicCached == \A e \in cache : e.cred = e.key.namespace

MusicInv == MusicTypeOK /\ MusicBound /\ MusicStep /\ MusicCached

LEMMA MusicLoaded ==
    ASSUME NEW s \in Sources, NEW r \in Rooms
    PROVE  Music!Loaded(source, binding)[s][r] = MusicRow(s, r)
BY DEF Music!Loaded, MusicRow

LEMMA MusicInit == Music!Init => MusicInv
<1> SUFFICES ASSUME Music!Init PROVE MusicInv
  OBVIOUS
<1>1. MusicTypeOK /\ MusicBound /\ MusicCached
  BY DEF Music!Init, Music!Loaded, MusicTypeOK, MusicBound, MusicCached
<1>2. \A s \in Sources, r \in musicActive : MusicServed(s, r)
  BY MusicLoaded DEF Music!Init, MusicServed
<1>3. QED
  BY <1>1, <1>2 DEF Music!Init, MusicInv, MusicStep

LEMMA MusicNext ==
    ASSUME MusicInv, Music!Next
    PROVE  MusicInv'
<1> USE DEF MusicInv
<1>1. ASSUME NEW s \in Sources, NEW r \in Rooms, NEW cred \in Creds, NEW policy \in Policies,
             Music!SaveSource(s, r, cred, policy)
      PROVE  MusicInv'
  <2> DEFINE rooms == [q \in Rooms |-> binding'[q][s]]
  <2>1. /\ admin = None /\ r \in musicActive
        /\ source' = [source EXCEPT ![s] = cred]
        /\ binding' = [binding EXCEPT ![r][s] = policy]
        /\ admin' = [op |-> "publish", source |-> s, cred |-> cred, rooms |-> rooms]
        /\ UNCHANGED <<musicActive, registry, cache, resolving>>
    BY <1>1 DEF Music!SaveSource, Music!cacheVars
  <2>2. binding' \in [Rooms -> [Sources -> Policies \cup {None}]]
    BY <2>1 DEF MusicTypeOK
  <2>3. rooms \in [Rooms -> Policies \cup {None}]
    BY <2>2
  <2>4. admin' \in Music!AdminStep /\ admin' # None
    <3> HIDE DEF rooms
    <3>1. QED
      BY <2>1, <2>3, CatalogAssumption DEF Music!AdminStep
  <2>5. MusicTypeOK'
    BY <2>1, <2>2, <2>4 DEF MusicTypeOK
  <2>6. MusicBound'
    BY <2>1, CatalogAssumption DEF MusicBound, MusicTypeOK
  <2>7. MusicCached'
    BY <2>1 DEF MusicCached
  <2>8. ASSUME NEW z \in Sources \ {s}, NEW q \in musicActive PROVE MusicServed(z, q)'
    <3>1. MusicServed(z, q)
      BY <2>1 DEF MusicStep
    <3>2. binding'[q][z] = binding[q][z] /\ source'[z] = source[z] /\ registry' = registry
      BY <2>1 DEF MusicTypeOK
    <3>3. QED
      BY <3>1, <3>2 DEF MusicServed, MusicRow
  <2>9. \A q \in musicActive : rooms[q] = binding'[q][s]
    BY <2>5 DEF MusicTypeOK
  <2>10. cred # None /\ source'[s] = cred
    BY <2>1, CatalogAssumption DEF MusicTypeOK
  <2>11. MusicStep'
    <3> HIDE DEF rooms
    <3>1. admin'.op = "publish" /\ admin'.source = s /\ admin'.cred = cred /\ admin'.rooms = rooms
      BY <2>1
    <3>2. QED
      BY <2>1, <2>4, <2>8, <2>9, <2>10, <3>1 DEF MusicStep
  <2>12. QED
    BY <2>5, <2>6, <2>7, <2>11
<1>2. ASSUME Music!Publish PROVE MusicInv'
  <2> DEFINE z == admin.source
             published == [q \in Rooms |-> IF admin.rooms[q] = None THEN None
                                          ELSE [cred |-> admin.cred, policy |-> admin.rooms[q]]]
  <2>1. /\ admin # None /\ admin.op = "publish"
        /\ registry' = [registry EXCEPT ![z] = published]
        /\ admin' = [op |-> "clear", source |-> z]
        /\ UNCHANGED <<source, binding, musicActive, cache, resolving>>
    BY <1>2 DEF Music!Publish, Music!cacheVars
  <2>2. z \in Sources
    BY <2>1 DEF MusicTypeOK, Music!AdminStep
  <2>3. admin' \in Music!AdminStep /\ admin' # None
    BY <2>1, <2>2, CatalogAssumption DEF Music!AdminStep
  <2>4. MusicTypeOK' /\ MusicBound' /\ MusicCached'
    BY <2>1, <2>2, <2>3 DEF MusicTypeOK, MusicBound, MusicCached
  <2>5. ASSUME NEW s \in Sources, NEW r \in musicActive PROVE MusicServed(s, r)'
    <3>1. CASE s = z
      <4>1. registry'[s][r] = IF admin.rooms[r] = None THEN None
                              ELSE [cred |-> admin.cred, policy |-> admin.rooms[r]]
        BY <2>1, <2>2, <3>1 DEF MusicTypeOK
      <4>2. admin.cred = source[s] /\ admin.cred # None /\ admin.rooms[r] = binding[r][s]
        BY <2>1, <3>1 DEF MusicStep
      <4>3. registry'[s][r] = MusicRow(s, r)'
        BY <2>1, <4>1, <4>2 DEF MusicRow
      <4>4. QED
        BY <4>3 DEF MusicServed
    <3>2. CASE s # z
      <4>1. MusicServed(s, r)
        BY <2>1, <3>2 DEF MusicStep
      <4>2. registry'[s][r] = registry[s][r]
        BY <2>1, <3>2 DEF MusicTypeOK
      <4>3. QED
        BY <2>1, <4>1, <4>2 DEF MusicServed, MusicRow
    <3>3. QED
      BY <3>1, <3>2
  <2>6. admin'.op = "clear"
    BY <2>1
  <2>7. QED
    BY <2>1, <2>3, <2>4, <2>5, <2>6 DEF MusicStep
<1>3. ASSUME Music!ClearCache PROVE MusicInv'
  <2>1. /\ admin # None /\ admin.op = "clear" /\ admin' = None /\ cache' \subseteq cache
        /\ UNCHANGED <<source, binding, musicActive, registry>>
    BY <1>3 DEF Music!ClearCache
  <2>2. MusicTypeOK' /\ MusicBound' /\ MusicCached'
    BY <2>1 DEF MusicTypeOK, MusicBound, MusicCached
  <2>3. \A s \in Sources, r \in musicActive : MusicServed(s, r)'
    BY <2>1 DEF MusicStep, MusicServed, MusicRow
  <2>4. QED
    BY <2>1, <2>2, <2>3 DEF MusicStep
<1>4. ASSUME Music!Unregister PROVE MusicInv'
  <2>1. /\ admin # None /\ admin.op = "unregister" /\ admin' = None
        /\ registry' = [registry EXCEPT ![admin.source][admin.room] = None]
        /\ UNCHANGED <<source, binding, musicActive, cache, resolving>>
    BY <1>4 DEF Music!Unregister, Music!cacheVars
  <2>2. admin.source \in Sources /\ admin.room \in Rooms
    BY <2>1 DEF MusicTypeOK, Music!AdminStep
  <2>3. MusicTypeOK' /\ MusicBound' /\ MusicCached'
    BY <2>1, <2>2 DEF MusicTypeOK, MusicBound, MusicCached
  <2>4. ASSUME NEW s \in Sources, NEW r \in musicActive PROVE MusicServed(s, r)'
    <3>1. CASE s = admin.source /\ r = admin.room
      BY <2>1, <2>2, <3>1 DEF MusicTypeOK, MusicStep, MusicServed, MusicRow
    <3>2. CASE ~(s = admin.source /\ r = admin.room)
      <4>1. MusicServed(s, r)
        BY <2>1, <3>2 DEF MusicStep
      <4>2. registry'[s][r] = registry[s][r]
        BY <2>1, <3>2 DEF MusicTypeOK
      <4>3. QED
        BY <2>1, <4>1, <4>2 DEF MusicServed, MusicRow
    <3>3. QED
      BY <3>1, <3>2
  <2>5. QED
    BY <2>1, <2>3, <2>4 DEF MusicStep
<1>5. ASSUME Music!OrderSource PROVE MusicInv'
  <2>1. /\ admin # None /\ admin.op = "order" /\ admin' = None
        /\ UNCHANGED <<source, musicActive, registry, cache, resolving>>
    BY <1>5 DEF Music!OrderSource, Music!cacheVars
  <2>2. admin.source \in Sources /\ admin.room \in Rooms
    BY <2>1 DEF MusicTypeOK, Music!AdminStep
  <2>3. binding' = binding
    <3>1. CASE admin.room \in musicActive
      <4>1. admin.policy = binding[admin.room][admin.source]
        BY <2>1, <3>1 DEF MusicStep
      <4>2. binding' = [binding EXCEPT ![admin.room][admin.source] = admin.policy]
        BY <1>5, <3>1 DEF Music!OrderSource
      <4>3. QED
        BY <2>2, <4>1, <4>2 DEF MusicTypeOK
    <3>2. CASE admin.room \notin musicActive
      BY <1>5, <3>2 DEF Music!OrderSource
    <3>3. QED
      BY <3>1, <3>2
  <2>4. MusicTypeOK' /\ MusicBound' /\ MusicCached'
    BY <2>1, <2>3 DEF MusicTypeOK, MusicBound, MusicCached
  <2>5. \A s \in Sources, r \in musicActive : MusicServed(s, r)'
    BY <2>1, <2>3 DEF MusicStep, MusicServed, MusicRow
  <2>6. QED
    BY <2>1, <2>4, <2>5 DEF MusicStep
<1>6. ASSUME NEW z \in Sources, NEW q \in Rooms, Music!RemoveSource(z, q) PROVE MusicInv'
  <2>1. /\ admin = None /\ binding[q][z] # None
        /\ binding' = [binding EXCEPT ![q][z] = None]
        /\ source' = IF \A r \in Rooms : binding'[r][z] = None THEN [source EXCEPT ![z] = None] ELSE source
        /\ admin' = [op |-> "unregister", source |-> z, room |-> q]
        /\ UNCHANGED <<musicActive, registry, cache, resolving>>
    BY <1>6 DEF Music!RemoveSource, Music!cacheVars
  <2>2. admin' \in Music!AdminStep /\ admin' # None
    BY <2>1, CatalogAssumption DEF Music!AdminStep
  <2>3. MusicTypeOK'
    BY <2>1, <2>2 DEF MusicTypeOK
  <2>4. MusicBound' /\ MusicCached'
    BY <2>1 DEF MusicTypeOK, MusicBound, MusicCached
  <2>5. ASSUME NEW s \in Sources, NEW r \in musicActive, <<s, r>> # <<z, q>> PROVE MusicServed(s, r)'
    <3>1. MusicServed(s, r)
      BY <2>1 DEF MusicStep
    <3>2. r \in Rooms /\ binding'[r][s] = binding[r][s] /\ registry' = registry
      BY <2>1, <2>5 DEF MusicTypeOK
    <3>3. CASE source'[s] = source[s]
      BY <3>1, <3>2, <3>3 DEF MusicServed, MusicRow
    <3>4. CASE source'[s] # source[s]
      <4>1. s = z /\ source'[z] = None /\ binding'[r][z] = None
        BY <2>1, <3>2, <3>4 DEF MusicTypeOK
      <4>2. source[z] # None
        BY <2>1 DEF MusicBound
      <4>3. registry[z][r] = None
        BY <3>1, <3>2, <4>1, <4>2 DEF MusicServed, MusicRow
      <4>4. QED
        BY <3>2, <4>1, <4>3 DEF MusicServed, MusicRow
    <3>5. QED
      BY <3>3, <3>4
  <2>6. binding'[q][z] = None /\ admin'.op = "unregister" /\ admin'.source = z /\ admin'.room = q
    BY <2>1 DEF MusicTypeOK
  <2>7. MusicStep'
    BY <2>1, <2>2, <2>5, <2>6 DEF MusicStep
  <2>8. QED
    BY <2>3, <2>4, <2>7
<1>7. ASSUME NEW z \in Sources, NEW q \in Rooms, Music!OrderRead(z, q) PROVE MusicInv'
  <2>1. /\ admin = None
        /\ admin' = [op |-> "order", source |-> z, room |-> q, policy |-> binding[q][z]]
        /\ UNCHANGED <<source, binding, musicActive, registry, cache, resolving>>
    BY <1>7 DEF Music!OrderRead, Music!cacheVars
  <2>2. binding[q][z] \in Policies \cup {None}
    BY DEF MusicTypeOK
  <2>3. admin' \in Music!AdminStep /\ admin' # None
    BY <2>1, <2>2, CatalogAssumption DEF Music!AdminStep
  <2>4. MusicTypeOK' /\ MusicBound' /\ MusicCached'
    BY <2>1, <2>3 DEF MusicTypeOK, MusicBound, MusicCached
  <2>5. admin'.op = "order" /\ admin'.policy = binding[admin'.room][admin'.source]
    BY <2>1
  <2>6. \A s \in Sources, r \in musicActive : MusicServed(s, r)'
    BY <2>1 DEF MusicStep, MusicServed, MusicRow
  <2>7. MusicStep'
    BY <2>1, <2>3, <2>5, <2>6 DEF MusicStep
  <2>8. QED
    BY <2>4, <2>7
<1>8. ASSUME NEW q \in Rooms, Music!DeleteRoom(q) PROVE MusicInv'
  <2>1. /\ q \in musicActive \ {Lounge} /\ musicActive' = musicActive \ {q}
        /\ binding' = [binding EXCEPT ![q] = [s \in Sources |-> None]]
        /\ UNCHANGED <<source, registry, admin, cache, resolving>>
    BY <1>8 DEF Music!DeleteRoom, Music!cacheVars
  <2>2. \A r \in musicActive', s \in Sources : binding'[r][s] = binding[r][s]
    BY <2>1 DEF MusicTypeOK
  <2>3. MusicTypeOK' /\ MusicBound' /\ MusicCached'
    BY <2>1 DEF MusicTypeOK, MusicBound, MusicCached
  <2>4. ASSUME NEW s \in Sources, NEW r \in musicActive', MusicServed(s, r) PROVE MusicServed(s, r)'
    BY <2>1, <2>2, <2>4 DEF MusicServed, MusicRow
  <2>5. admin # None => admin \in Music!AdminStep
    BY DEF MusicTypeOK
  <2>6. admin # None /\ admin.op = "unregister" => binding'[admin.room][admin.source] = None
    <3>1. SUFFICES ASSUME admin # None, admin.op = "unregister"
                   PROVE  binding'[admin.room][admin.source] = None
      OBVIOUS
    <3>2. admin.room \in Rooms /\ admin.source \in Sources
      BY <2>5, <3>1 DEF Music!AdminStep
    <3>3. QED
      BY <2>1, <3>1, <3>2 DEF MusicTypeOK, MusicStep
  <2>7. admin # None /\ admin.op \in {"publish", "order"} => admin.source \in Sources
    BY <2>5 DEF Music!AdminStep
  <2>8. musicActive' \subseteq musicActive
    BY <2>1
  <2>9. MusicStep'
    BY <2>1, <2>2, <2>4, <2>6, <2>7, <2>8 DEF MusicStep
  <2>10. QED
    BY <2>3, <2>9
<1>9. ASSUME UNCHANGED <<source, binding, musicActive, registry, admin>>,
             \A e \in cache' : e \in cache \/ e.cred = e.key.namespace
      PROVE  MusicInv'
  <2>1. MusicTypeOK' /\ MusicBound'
    BY <1>9 DEF MusicTypeOK, MusicBound
  <2>2. MusicCached'
    BY <1>9 DEF MusicCached
  <2>3. MusicStep' = MusicStep
    <3>1. \A s, r : MusicServed(s, r)' = MusicServed(s, r)
      BY <1>9 DEF MusicServed, MusicRow
    <3>2. QED
      BY <1>9, <3>1 DEF MusicStep
  <2>4. QED
    BY <2>1, <2>2, <2>3
<1>10. ASSUME NEW x \in Listeners, Music!Remember(x) PROVE MusicInv'
  <2>1. UNCHANGED <<source, binding, musicActive, registry, admin>>
    BY <1>10 DEF Music!Remember, Music!sourceVars
  <2>2. \A e \in cache' : e \in cache \/ e.cred = e.key.namespace
    BY <1>10 DEF Music!Remember, Music!CacheKey
  <2>3. QED
    BY <1>9, <2>1, <2>2
<1>11. ASSUME NEW x \in Listeners, NEW s \in Sources, NEW r \in Rooms, NEW song \in Keys,
              Music!Resolve(x, s, r, song)
       PROVE  MusicInv'
  BY <1>9, <1>11 DEF Music!Resolve, Music!sourceVars
<1>12. ASSUME NEW x \in Listeners, Music!ResolveFails(x) PROVE MusicInv'
  BY <1>9, <1>12 DEF Music!ResolveFails, Music!sourceVars
<1>13. ASSUME Music!Lapse PROVE MusicInv'
  BY <1>9, <1>13 DEF Music!Lapse, Music!sourceVars
<1>14. ASSUME Music!Restart PROVE MusicInv'
  <2>1. /\ registry' = Music!Loaded(source, binding) /\ admin' = None /\ cache' = {}
        /\ UNCHANGED <<source, binding, musicActive>>
    BY <1>14 DEF Music!Restart
  <2>2. registry' = [s \in Sources |-> [r \in Rooms |-> registry'[s][r]]]
    BY <2>1 DEF Music!Loaded
  <2>3. MusicTypeOK' /\ MusicBound' /\ MusicCached'
    BY <2>1, <2>2 DEF MusicTypeOK, MusicBound, MusicCached
  <2>4. ASSUME NEW s \in Sources, NEW r \in musicActive PROVE MusicServed(s, r)'
    <3>1. r \in Rooms
      BY DEF MusicTypeOK
    <3>2. registry'[s][r] = MusicRow(s, r)
      BY <2>1, <3>1, MusicLoaded
    <3>3. QED
      BY <2>1, <3>2 DEF MusicServed, MusicRow
  <2>5. QED
    BY <2>1, <2>3, <2>4 DEF MusicStep
<1>15. QED
  BY <1>1, <1>2, <1>3, <1>4, <1>5, <1>6, <1>7, <1>8, <1>10, <1>11, <1>12, <1>13, <1>14 DEF Music!Next

LEMMA MusicProperties ==
    ASSUME MusicInv
    PROVE  Music!RegistryMatchesRows /\ Music!CacheIsOfTheSource
<1>1. Music!RegistryMatchesRows
  <2>1. \A s \in Sources, r \in musicActive :
          MusicServed(s, r) => \/ registry[s][r] = Music!Loaded(source, binding)[s][r]
                               \/ s = EnvSource /\ r = Lounge /\ source[s] = None /\ registry[s][r] = None
    BY MusicLoaded DEF MusicInv, MusicTypeOK, MusicServed
  <2>2. QED
    BY <2>1 DEF MusicInv, MusicBound, MusicStep, Music!RegistryMatchesRows
<1>2. Music!CacheIsOfTheSource
  BY DEF MusicInv, MusicCached, Music!CacheIsOfTheSource, Music!CacheKey
<1>3. QED
  BY <1>1, <1>2

-----------------------------------------------------------------------------
(* The parts together: a behaviour is of the part it starts with, so the    *)
(* invariant of that part is one of the whole.                              *)

all == <<part, vars, roomVars, listVars, musicVars>>

CatalogInv ==
    /\ part = "access" => AccessInv
    /\ part = "lists" => ListInv
    /\ part = "music" => MusicInv

LEMMA PartsInit ==
    ASSUME CatalogInit
    PROVE  CatalogInv
<1>1. part = "access" => AccessInv
  BY AccessInit DEF CatalogInit
<1>2. part = "lists" => ListInv
  BY ListInit DEF CatalogInit
<1>3. part = "music" => MusicInv
  BY MusicInit DEF CatalogInit
<1>4. QED
  BY <1>1, <1>2, <1>3 DEF CatalogInv

\* A step is one of its part.
LEMMA PartsAreApart ==
    ASSUME CatalogNext
    PROVE  /\ part' = part
           /\ part = "access" => Room!Next
           /\ part = "lists" => List!Next
           /\ part = "music" => Music!Next
<1>1. \E p : part = p /\ part' = part
  BY DEF CatalogNext, Stay
<1>2. part = "access" => Room!Next
  BY DEF CatalogNext, Stay
<1>3. part = "lists" => List!Next
  BY DEF CatalogNext, Stay
<1>4. part = "music" => Music!Next
  BY DEF CatalogNext, Stay
<1>5. QED
  BY <1>1, <1>2, <1>3, <1>4

\* Without a step nothing is lost.
LEMMA PartsStutter ==
    ASSUME CatalogInv, UNCHANGED all
    PROVE  CatalogInv'
<1>1. /\ part' = part
      /\ room' = room /\ member' = member /\ invite' = invite /\ ticket' = ticket
      /\ roomCall' = roomCall /\ passwords' = passwords
      /\ list' = list /\ track' = track /\ listActive' = listActive /\ listCall' = listCall
      /\ source' = source /\ binding' = binding /\ musicActive' = musicActive
      /\ registry' = registry /\ admin' = admin /\ cache' = cache
  BY DEF all, roomVars, listVars, musicVars
<1>2. AccessInv => AccessInv'
  <2>1. AccessTypeOK => AccessTypeOK'
    BY <1>1 DEF AccessTypeOK
  <2>2. AccessPublic => AccessPublic'
    BY <1>1 DEF AccessPublic, Room!Active
  <2>3. AccessTickets => AccessTickets'
    BY <1>1 DEF AccessTickets, AccessProves
  <2>4. AccessOwners => AccessOwners'
    BY <1>1 DEF AccessOwners, Room!OwnersAgree, Room!Active, Room!Owners
  <2>5. QED
    BY <2>1, <2>2, <2>3, <2>4 DEF AccessInv
<1>3. ListInv => ListInv'
  <2>1. ListCalls => ListCalls'
    BY <1>1 DEF ListCalls, ListHolds
  <2>2. QED
    BY <1>1, <2>1, ListSame DEF ListInv
<1>4. MusicInv => MusicInv'
  <2>1. MusicTypeOK => MusicTypeOK'
    BY <1>1 DEF MusicTypeOK
  <2>2. MusicBound => MusicBound'
    BY <1>1 DEF MusicBound
  <2>3. MusicStep => MusicStep'
    <3>1. \A s, r : MusicServed(s, r)' = MusicServed(s, r)
      BY <1>1 DEF MusicServed, MusicRow
    <3>2. QED
      BY <1>1, <3>1 DEF MusicStep
  <2>4. MusicCached => MusicCached'
    BY <1>1 DEF MusicCached
  <2>5. QED
    BY <2>1, <2>2, <2>3, <2>4 DEF MusicInv
<1>5. QED
  BY <1>1, <1>2, <1>3, <1>4 DEF CatalogInv

LEMMA PartsStep ==
    ASSUME CatalogInv, [CatalogNext]_all
    PROVE  CatalogInv'
<1>1. CASE CatalogNext
  <2>1. part' = part
    BY <1>1, PartsAreApart
  <2>2. part = "access" => AccessInv'
    BY <1>1, PartsAreApart, AccessNext DEF CatalogInv
  <2>3. part = "lists" => ListInv'
    BY <1>1, PartsAreApart, ListNext DEF CatalogInv
  <2>4. part = "music" => MusicInv'
    BY <1>1, PartsAreApart, MusicNext DEF CatalogInv
  <2>5. QED
    BY <2>1, <2>2, <2>3, <2>4 DEF CatalogInv
<1>2. QED
  BY <1>1, PartsStutter

LEMMA CatalogInvariant == CatalogSpec => []CatalogInv
<1>1. CatalogInit => CatalogInv
  BY PartsInit
<1>2. CatalogInv /\ [CatalogNext]_all => CatalogInv'
  BY PartsStep
<1>3. QED
  BY <1>1, <1>2, PTL DEF CatalogSpec, all

\* A ticket admits to a private room only for the password it has now,
\* whatever was changed between the check of the password and the cookie.
THEOREM TicketsProve == CatalogSpec => []TicketsProvePassword
<1>1. CatalogInv => TicketsProvePassword
  BY AccessTicketsProve DEF CatalogInv, TicketsProvePassword
<1>2. QED
  BY <1>1, CatalogInvariant, PTL

\* The owner pointer of a room names one of its owners, through every grant,
\* loss and removal; a room that had an owner keeps one.
THEOREM OwnersStayAgreed == CatalogSpec => []OwnersAgree
<1>1. CatalogInv => OwnersAgree
  BY DEF CatalogInv, AccessInv, AccessOwners, OwnersAgree
<1>2. QED
  BY <1>1, CatalogInvariant, PTL

\* No two tracks of a list have the same position, no user's list has a song
\* twice.
THEOREM PositionsDistinct == CatalogSpec => []PositionsAreDistinct
<1>1. CatalogInv => PositionsAreDistinct
  BY DEF CatalogInv, ListInv, ListTables, PositionsAreDistinct
<1>2. QED
  BY <1>1, CatalogInvariant, PTL

\* No list outlives its room and no track its list, for all the requests that
\* looked before the deletion and write after it.
THEOREM NothingLeftBehind == CatalogSpec => []NothingOutlivesItsOwner
<1>1. CatalogInv => NothingOutlivesItsOwner
  BY DEF CatalogInv, ListInv, ListTables, NothingOutlivesItsOwner
<1>2. QED
  BY <1>1, CatalogInvariant, PTL

\* Between two requests of the administrator the registry serves what a
\* restart would load.
THEOREM RegistryIsOfRows == CatalogSpec => []RegistryMatchesRows
<1>1. CatalogInv => RegistryMatchesRows
  BY MusicProperties DEF CatalogInv, RegistryMatchesRows
<1>2. QED
  BY <1>1, CatalogInvariant, PTL

\* A cached song was resolved with the credentials its source has now.
THEOREM CacheIsCurrent == CatalogSpec => []CacheIsOfTheSource
<1>1. CatalogInv => CacheIsOfTheSource
  BY MusicProperties DEF CatalogInv, CacheIsOfTheSource
<1>2. QED
  BY <1>1, CatalogInvariant, PTL

\* A room is changed or deleted only by the end of a call whose own caller its
\* present state lets, although an update looks at the permission before its
\* transaction, and the write of a deletion waits in the queue of the writer.
THEOREM OnlyEditorsChange == CatalogSpec => EditsAreAuthorised
<1>1. ASSUME CatalogInv, [CatalogNext]_all
      PROVE  [part = "access" => Room!EditIsAuthorised]_<<part, roomVars>>
  <2>1. CASE CatalogNext
    BY <1>1, <2>1, PartsAreApart, AccessEdits DEF CatalogInv
  <2>2. CASE UNCHANGED all
    BY <2>2 DEF all
  <2>3. QED
    BY <1>1, <2>1, <2>2
<1>2. CatalogInv /\ [CatalogNext]_all => [part = "access" => Room!EditIsAuthorised]_<<part, roomVars>>
  BY <1>1
<1>3. QED
  BY <1>2, CatalogInvariant, PTL DEF CatalogSpec, EditsAreAuthorised, all
=============================================================================
