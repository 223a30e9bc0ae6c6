------------------------------ MODULE Services ------------------------------
(***************************************************************************)
(* What a room's members meet besides the room itself: sessions, the media *)
(* cache, the orders of queue rows, chat, logins, presence, and the        *)
(* mutation records extended here.  The parts share no state, so a         *)
(* behaviour is one of the module of the part it chooses at its start, and *)
(* leaves the variables of every other part alone.                         *)
(***************************************************************************)
EXTENDS MutationCache

CONSTANTS
    Parts,
    Accounts, Tokens, Callers, Conns, MaxPasswords,                      \* sessions
    MediaKeys, Workers, Readers, MediaCapacity, Limit,                   \* media
    MaxBytes, MaxFile, Initial, Retries,
    Items, Step, MaxOrder, Found,                                        \* orders
    Authors, Rooms, Public, MinInterval, MaxHistory, MaxSlots, Senders,  \* chat
    ChatMaxTime,
    Addresses, MaxAttempts, MaxTracked, Window, Block, Requests,         \* logins
    LoginMaxTime,
    Browsers, Users, MaxRevision, MaxBroadcasts                          \* presence

\* Limits and durations are numbers, the step between orders is positive, and
\* at least one login is allowed; None is no value of the others.
ASSUME ServicesAssumption ==
    /\ MaxRevision \in Nat
    /\ IsFiniteSet(MediaKeys) /\ IsFiniteSet(Workers)
    /\ MaxBytes \in Nat /\ Initial \in Nat /\ MaxFile \in Nat
    /\ MaxAttempts \in Nat \ {0} /\ Window \in Nat /\ Block \in Nat
    /\ MinInterval \in Nat /\ None \notin Int
    /\ IsFiniteSet(Items) /\ Step \in Nat \ {0} /\ Found \subseteq Int
    /\ None \notin [attempts : Nat, first : Nat, blockedUntil : Nat]

VARIABLES
    part,  \* the part this behaviour is of
    account, password, session, call, conn,
    file, entry, older, used, reserved, jobs, inflight, worker, reading, closed,
    row, desired,
    chatNow, lastSent, sending, stored, active,
    loginNow, items, request, admitted,
    rooms, revision, sends, waiting, shown, happened

Sess == INSTANCE Sessions WITH Users <- Accounts
Media == INSTANCE MediaCache WITH Keys <- MediaKeys, Capacity <- MediaCapacity
Order == INSTANCE SparseOrder
Chat == INSTANCE ChatPolicy WITH Users <- Authors, MaxTime <- ChatMaxTime, now <- chatNow
Login == INSTANCE LoginLimiter WITH MaxTime <- LoginMaxTime, now <- loginNow
Pres == INSTANCE Presence
\* The variables of each part
sessVars == <<account, password, session, call, conn>>
mediaVars == <<file, entry, older, used, reserved, jobs, inflight, worker, reading,
    closed>>
orderVars == <<row, desired>>
chatVars == <<chatNow, lastSent, sending, stored, active>>
loginVars == <<loginNow, items, request, admitted>>
presVars == <<rooms, revision, sends, waiting, shown, happened>>

\* In the part chosen at the start, the steps of its module.
ServicesInit ==
    /\ part \in Parts
    /\ Init
    /\ IF part = "sessions" THEN Sess!Init
       ELSE account = None /\ password = None /\ session = None /\ call = None
            /\ conn = None
    /\ IF part = "media" THEN Media!Init
       ELSE file = None /\ entry = None /\ older = None /\ used = None
            /\ reserved = None /\ jobs = None /\ inflight = None /\ worker = None
            /\ reading = None /\ closed = None
    /\ IF part = "orders" THEN Order!Init
       ELSE row = None /\ desired = None
    /\ IF part = "chat" THEN Chat!Init
       ELSE chatNow = None /\ lastSent = None /\ sending = None /\ stored = None
            /\ active = None
    /\ IF part = "logins" THEN Login!Init
       ELSE loginNow = None /\ items = None /\ request = None /\ admitted = None
    /\ IF part = "presence" THEN Pres!Init
       ELSE rooms = None /\ revision = None /\ sends = None /\ waiting = None
            /\ shown = None /\ happened = None

Stay(p) ==
    /\ part = p /\ part' = part
    /\ IF p = "mutations" THEN TRUE ELSE UNCHANGED vars
    /\ IF p = "sessions" THEN TRUE ELSE UNCHANGED sessVars
    /\ IF p = "media" THEN TRUE ELSE UNCHANGED mediaVars
    /\ IF p = "orders" THEN TRUE ELSE UNCHANGED orderVars
    /\ IF p = "chat" THEN TRUE ELSE UNCHANGED chatVars
    /\ IF p = "logins" THEN TRUE ELSE UNCHANGED loginVars
    /\ IF p = "presence" THEN TRUE ELSE UNCHANGED presVars

ServicesNext ==
    \/ Stay("mutations") /\ Next
    \/ Stay("sessions") /\ Sess!Next
    \/ Stay("media") /\ Media!Next
    \/ Stay("orders") /\ Order!Next
    \/ Stay("chat") /\ Chat!Next
    \/ Stay("logins") /\ Login!Next
    \/ Stay("presence") /\ Pres!Next

ServicesSpec ==
    ServicesInit /\ [][ServicesNext]_<<part, vars, sessVars, mediaVars, orderVars, chatVars, loginVars,
        presVars>>

-----------------------------------------------------------------------------
(* The properties of the parts, stated and explained in their modules *)

\* No administrator's session outlives the password it was proved with.
SessionsUseCurrentPassword == part = "sessions" => Sess!SessionsUseCurrentPassword
\* No connection is served on a revoked session nobody will close.
RevokedSessionsAreClosed == part = "sessions" => Sess!RevokedSessionsAreClosed
\* The accounted bytes cover what is on disk, within the limit.
QuotaCoversDisk == part = "media" => Media!QuotaCoversDisk
\* No file is evicted while it is served.
ReadersKeepTheirFile == part = "media" => Media!ReadersKeepTheirFile
\* A queue's rows read back in its order and in no other.
QueueReadsBack == part = "orders" => Order!QueueReadsBack
\* A user's messages in one stream are the minimum interval apart.
MessagesAreSpaced == part = "chat" => Chat!MessagesAreSpaced
\* No address is let in more often than its budget.
AttemptsAreLimited == part = "logins" => Login!AttemptsAreLimited
\* The presence a browser shows is true of its revision and never goes back.
PresenceMovesOn == [][part = "presence" => Pres!MovesOn]_<<part, presVars>>
=============================================================================
