---------------------------- MODULE LoginLimiter ----------------------------
(***************************************************************************)
(* The budget of login attempts per address (httpapi/login_limiter.go)     *)
(* around AuthAPI.login and createGuest (auth.go): an attempt is counted   *)
(* before the password is looked at, and a success forgets the address.    *)
(***************************************************************************)
EXTENDS Naturals, Sequences, FiniteSets

CONSTANTS
    Addresses,
    MaxAttempts, MaxTracked,  \* loginLimiter.max, maxTracked: positive
    Window, Block,
    MaxTime,                  \* bounds the clock
    Requests, None

VARIABLES
    now,
    items,    \* loginLimiter.items: None, or [attempts, first, blockedUntil]
    request,  \* per login under way its address, or None
    admitted  \* per address, when it was let in since a login succeeded

vars == <<now, items, request, admitted>>

Tracked == {a \in Addresses : items[a] # None}

\* expires
Expires(item) == IF item.blockedUntil > item.first + Window THEN item.blockedUntil ELSE item.first + Window

Tick == now < MaxTime /\ now' = now + 1 /\ UNCHANGED <<items, request, admitted>>

Known(a) == items[a] # None /\ now < Expires(items[a])

\* Mutant: a full table makes room by forgetting any other address.
LiveForgetting(a) ==
    IF Known(a) \/ Cardinality(Tracked \ {a}) < MaxTracked THEN Tracked \ (IF Known(a) THEN {} ELSE {a}) ELSE {}

\* blockedLocked: what stays in the table, from which the address itself goes
\* once it has expired, and the others when an address it does not hold finds
\* it full.
Live(a) ==
    IF Known(a) THEN Tracked
    ELSE IF Cardinality(Tracked \ {a}) < MaxTracked THEN Tracked \ {a}
    ELSE {b \in Tracked \ {a} : now < Expires(items[b])}

Blocked(a) ==
    IF Known(a) THEN now < items[a].blockedUntil ELSE Cardinality(Live(a)) >= MaxTracked

\* recordAttemptLocked; attempts beyond the budget are not told apart.
Recorded(a) ==
    LET item == IF Known(a) THEN items[a] ELSE [attempts |-> 0, first |-> now, blockedUntil |-> 0]
        attempts == item.attempts + 1
    IN  [item EXCEPT !.attempts = IF attempts < MaxAttempts THEN attempts ELSE MaxAttempts,
                     !.blockedUntil = IF attempts >= MaxAttempts THEN now + Block ELSE @]

\* admit, for a login or a guest
Admit(x, a) ==
    LET live == [b \in Addresses |-> IF b \in Live(a) THEN items[b] ELSE None]
    IN  /\ request[x] = None
        /\ IF Blocked(a) THEN items' = live /\ UNCHANGED <<request, admitted>>
           ELSE /\ items' = [live EXCEPT ![a] = Recorded(a)]
                /\ request' = [request EXCEPT ![x] = a]
                /\ admitted' = [admitted EXCEPT ![a] = Append(@, now)]
        /\ UNCHANGED now

\* The password is wrong, or its account no administrator's.
LoginFails(x) ==
    /\ request[x] # None
    /\ request' = [request EXCEPT ![x] = None]
    /\ UNCHANGED <<now, items, admitted>>

\* success
LoginSucceeds(x) ==
    LET a == request[x]
    IN  /\ a # None
        /\ items' = [items EXCEPT ![a] = None]
        /\ admitted' = [admitted EXCEPT ![a] = <<>>]
        /\ request' = [request EXCEPT ![x] = None]
        /\ UNCHANGED now

Init ==
    /\ now = 0 /\ items = [a \in Addresses |-> None]
    /\ request = [x \in Requests |-> None] /\ admitted = [a \in Addresses |-> <<>>]

Next ==
    \/ Tick
    \/ \E x \in Requests, a \in Addresses : Admit(x, a)
    \/ \E x \in Requests : LoginFails(x) \/ LoginSucceeds(x)

Spec == Init /\ [][Next]_vars

-----------------------------------------------------------------------------
(* Properties *)

Shorter == IF Window < Block THEN Window ELSE Block

\* No address is let in twice its budget within the shorter of window and
\* block unless a login of its succeeds: not by attempts at the same time,
\* nor at the end of one window and the start of the next, nor by others
\* that fill the table.
AttemptsAreLimited ==
    \A a \in Addresses : \A n \in DOMAIN admitted[a] :
        n >= 2 * MaxAttempts => admitted[a][n] - admitted[a][n - 2 * MaxAttempts + 1] >= Shorter
=============================================================================
