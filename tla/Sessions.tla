------------------------------ MODULE Sessions ------------------------------
(***************************************************************************)
(* Accounts, their sessions, and the realtime connections that live on     *)
(* them (domain/account, httpapi/auth.go, the opening of httpapi/          *)
(* websocket.go and CloseSessionHashes of ws/hub.go).  A call first reads  *)
(* with the reader connections, then commits one transaction of the single *)
(* writer, and only then tells the hub which sessions it revoked; other    *)
(* calls and the handlers of connections run between any two of these.     *)
(* Accounts are never disabled and roles never changed by the program, so  *)
(* the branches that refuse such accounts are not reached.                 *)
(***************************************************************************)
EXTENDS Naturals

CONSTANTS
    Users,         \* profiles the program may create
    Tokens,        \* session tokens it may issue
    Callers,       \* requests (and the cleanup loop) in progress at once
    Conns,         \* connections open at once
    MaxPasswords   \* password hashes ever made (bound)

VARIABLES
    account,   \* per user: "none", "GUEST" (a profile without an account), "MEMBER" or "ADMIN"
    password,  \* per user: password_hash, numbered in the order they were made; 0 is a random one
    session,   \* per token: its user_session row, and the hash its login was proved with
    call,      \* per caller: what it read before its transaction, or the hashes it must still report
    conn       \* per connection: how far its handler is, and its token

vars == <<account, password, session, call, conn>>

Idle == [op |-> "idle"]
NoConn == [phase |-> "none"]
Unused == [status |-> "unused"]

LiveSessions == {t \in Tokens : session[t].status = "live"}

\* Resolve: the row exists and is younger than its role's lifetime.
Resolve(t) == t \in LiveSessions
UserOf(t) == session[t].user
RowsOf(u) == {t \in Tokens : session[t].status \in {"live", "old"} /\ session[t].user = u}
Hashes == {password[u] : u \in Users}

\* The next hash, made outside the transaction by security.HashPassword.
NextHash == 1 + CHOOSE n \in Hashes : \A m \in Hashes : m <= n

Issued(t, u, hash) ==
    /\ session[t] = Unused
    /\ session' = [session EXCEPT ![t] = [status |-> "live", user |-> u, proof |-> hash]]

Revoked(ts) == [t \in Tokens |-> IF t \in ts THEN [session[t] EXCEPT !.status = "gone"] ELSE session[t]]

Init ==
    /\ account = [u \in Users |-> "none"]
    /\ password = [u \in Users |-> 0]
    /\ session = [t \in Tokens |-> Unused]
    /\ call = [c \in Callers |-> Idle]
    /\ conn = [k \in Conns |-> NoConn]

-----------------------------------------------------------------------------
(* One transaction each *)

\* The first administrator; the claim row and the count of administrators
\* refuse every other.
Bootstrap(u) ==
    /\ \A v \in Users : account[v] # "ADMIN"
    /\ account[u] = "none"
    /\ account' = [account EXCEPT ![u] = "ADMIN"]
    /\ password' = [password EXCEPT ![u] = NextHash]
    /\ UNCHANGED <<session, call, conn>>

CreateGuestSession(u, t) ==
    /\ account[u] = "none"
    /\ account' = [account EXCEPT ![u] = "GUEST"]
    /\ Issued(t, u, 0)
    /\ UNCHANGED <<password, call, conn>>

\* A new member with a password nobody knows (the invitation is RoomAccess's).
RedeemInvite(u, t) ==
    /\ account[u] = "none"
    /\ account' = [account EXCEPT ![u] = "MEMBER"]
    /\ Issued(t, u, 0)
    /\ UNCHANGED <<password, call, conn>>

-----------------------------------------------------------------------------
(* Login: the right password is read, then the transaction *)

LoginRead(c, u) ==
    /\ call[c] = Idle
    /\ account[u] = "ADMIN"
    /\ call' = [call EXCEPT ![c] = [op |-> "login", user |-> u, hash |-> password[u]]]
    /\ UNCHANGED <<account, password, session, conn>>

\* Mutant: the transaction does not look at the hash again.
LoginUnchecked(c, t) ==
    /\ call[c].op = "login"
    /\ Issued(t, call[c].user, call[c].hash)
    /\ call' = [call EXCEPT ![c] = Idle]
    /\ UNCHANGED <<account, password, conn>>

Login(c, t) ==
    /\ call[c].op = "login"
    /\ IF password[call[c].user] = call[c].hash
       THEN Issued(t, call[c].user, call[c].hash)
       ELSE UNCHANGED session
    /\ call' = [call EXCEPT ![c] = Idle]
    /\ UNCHANGED <<account, password, conn>>

-----------------------------------------------------------------------------
(* ChangePassword: the session, then the hash, then the transaction *)

ChangeResolve(c, t) ==
    /\ call[c] = Idle
    /\ Resolve(t) /\ account[UserOf(t)] = "ADMIN"
    /\ call' = [call EXCEPT ![c] = [op |-> "resolved", token |-> t]]
    /\ UNCHANGED <<account, password, session, conn>>

\* The caller states the password it believes in: the present one, or one
\* that was replaced meanwhile, which ends the call.
ChangeRead(c) ==
    /\ call[c].op = "resolved"
    /\ \/ call' = [call EXCEPT ![c] = [op |-> "change", token |-> call[c].token,
                                       hash |-> password[UserOf(call[c].token)]]]
       \/ call' = [call EXCEPT ![c] = Idle]
    /\ UNCHANGED <<account, password, session, conn>>

ChangePassword(c) ==
    /\ call[c].op = "change" /\ NextHash <= MaxPasswords
    /\ LET u == UserOf(call[c].token)
       IN  IF Resolve(call[c].token) /\ password[u] = call[c].hash
           THEN /\ password' = [password EXCEPT ![u] = NextHash]
                /\ session' = Revoked(RowsOf(u))
                /\ call' = [call EXCEPT ![c] = [op |-> "report", hashes |-> RowsOf(u)]]
           ELSE /\ call' = [call EXCEPT ![c] = Idle]
                /\ UNCHANGED <<password, session>>
    /\ UNCHANGED <<account, conn>>

-----------------------------------------------------------------------------
(* Logout, the cleanup of old rows, and the report of what was revoked *)

\* The handler closes the session's connections whether a row was there or not.
Logout(c, t) ==
    /\ call[c] = Idle /\ session[t] # Unused
    /\ session' = Revoked({t})
    /\ call' = [call EXCEPT ![c] = [op |-> "report", hashes |-> {t}]]
    /\ UNCHANGED <<account, password, conn>>

CleanupExpiredSessions(c) ==
    LET old == {t \in Tokens : session[t].status = "old"}
    IN  /\ call[c] = Idle /\ old # {}
        /\ session' = Revoked(old)
        /\ call' = [call EXCEPT ![c] = [op |-> "report", hashes |-> old]]
        /\ UNCHANGED <<account, password, conn>>

\* CloseSessionHashes: the connections the hub knows by these sessions.
CloseSessionHashes(c) ==
    /\ call[c].op = "report"
    /\ conn' = [k \in Conns |-> IF /\ conn[k].phase \in {"registered", "open"}
                                   /\ conn[k].token \in call[c].hashes
                                THEN NoConn ELSE conn[k]]
    /\ call' = [call EXCEPT ![c] = Idle]
    /\ UNCHANGED <<account, password, session>>

-----------------------------------------------------------------------------
(* UpgradeGuestToUser: the guest's session, then the transaction.  The     *)
(* guest's old session stays and resolves as a member's from then on.      *)

UpgradeResolve(c, t) ==
    /\ call[c] = Idle
    /\ Resolve(t) /\ account[UserOf(t)] = "GUEST"
    /\ call' = [call EXCEPT ![c] = [op |-> "upgrade", user |-> UserOf(t)]]
    /\ UNCHANGED <<account, password, session, conn>>

UpgradeGuestToUser(c, t) ==
    /\ call[c].op = "upgrade"
    /\ IF account[call[c].user] = "GUEST"
       THEN /\ account' = [account EXCEPT ![call[c].user] = "MEMBER"]
            /\ Issued(t, call[c].user, 0)
       ELSE UNCHANGED <<account, session>>
    /\ call' = [call EXCEPT ![c] = Idle]
    /\ UNCHANGED <<password, conn>>

-----------------------------------------------------------------------------
(* Connections *)

\* handle: the session resolves; its expiry becomes the connection's deadline.
Accept(k, t) ==
    /\ conn[k] = NoConn /\ Resolve(t)
    /\ conn' = [conn EXCEPT ![k] = [phase |-> "accepted", token |-> t]]
    /\ UNCHANGED <<account, password, session, call>>

\* Mutant: the handler serves the connection without resolving again.
RegisterOnly(k) ==
    /\ conn[k].phase = "accepted"
    /\ conn' = [conn EXCEPT ![k].phase = "open"]
    /\ UNCHANGED <<account, password, session, call>>

RegisterSession(k) ==
    /\ conn[k].phase = "accepted"
    /\ conn' = [conn EXCEPT ![k].phase = "registered"]
    /\ UNCHANGED <<account, password, session, call>>

ResolveAgain(k) ==
    /\ conn[k].phase = "registered"
    /\ conn' = IF Resolve(conn[k].token) THEN [conn EXCEPT ![k].phase = "open"] ELSE [conn EXCEPT ![k] = NoConn]
    /\ UNCHANGED <<account, password, session, call>>

\* The socket ends, the deadline passes, or dispatch finds the session gone.
Leave(k) ==
    /\ conn[k] # NoConn
    /\ conn' = [conn EXCEPT ![k] = NoConn]
    /\ UNCHANGED <<account, password, session, call>>

\* Time passes its lifetime for a session.
Age(t) ==
    /\ session[t].status = "live"
    /\ session' = [session EXCEPT ![t].status = "old"]
    /\ UNCHANGED <<account, password, call, conn>>

-----------------------------------------------------------------------------
AccountStep ==
    \/ \E u \in Users : Bootstrap(u)
    \/ \E u \in Users, t \in Tokens : CreateGuestSession(u, t)
    \/ \E u \in Users, t \in Tokens : RedeemInvite(u, t)
    \/ \E t \in Tokens : Age(t)

CallStep(c) ==
    \/ \E u \in Users : LoginRead(c, u)
    \/ \E t \in Tokens : Login(c, t)
    \/ \E t \in Tokens : ChangeResolve(c, t)
    \/ ChangeRead(c)
    \/ ChangePassword(c)
    \/ \E t \in Tokens : Logout(c, t)
    \/ CleanupExpiredSessions(c)
    \/ CloseSessionHashes(c)
    \/ \E t \in Tokens : UpgradeResolve(c, t)
    \/ \E t \in Tokens : UpgradeGuestToUser(c, t)

ConnStep(k) ==
    \/ \E t \in Tokens : Accept(k, t)
    \/ RegisterSession(k)
    \/ ResolveAgain(k)
    \/ Leave(k)

Next == AccountStep \/ (\E c \in Callers : CallStep(c)) \/ (\E k \in Conns : ConnStep(k))
Spec == Init /\ [][Next]_vars

-----------------------------------------------------------------------------
(* Properties *)

\* Every session of an administrator that is still good was proved with the
\* present password: a login that read the old hash gets no session, and a
\* change of password leaves none behind.
SessionsUseCurrentPassword ==
    \A t \in LiveSessions : account[UserOf(t)] = "ADMIN" => session[t].proof = password[UserOf(t)]

\* A connection that is served has a session row, unless a call that removed
\* the row is about to close it: no revocation falls between the reading of
\* the session and the registration in the hub.
RevokedSessionsAreClosed ==
    \A k \in Conns :
        conn[k].phase = "open" /\ session[conn[k].token].status = "gone" =>
            \E c \in Callers : call[c].op = "report" /\ conn[k].token \in call[c].hashes
=============================================================================
