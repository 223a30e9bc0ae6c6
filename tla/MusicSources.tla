---------------------------- MODULE MusicSources ----------------------------
(***************************************************************************)
(* The music sources the administrator binds to rooms (httpapi/admin.go,   *)
(* subsonic_registry.go, platforms.go, repository_settings_subsonic.go):   *)
(* rows in SQLite, the registry in memory they are published to one step   *)
(* later, and the cache of resolved songs.  One source comes from the      *)
(* environment until a row takes its name.  Labels and sort orders are     *)
(* left out; a system source's row is never removed and is too.            *)
(***************************************************************************)
EXTENDS Naturals, FiniteSets

CONSTANTS
    Sources, Rooms, Lounge, EnvSource,
    Creds, EnvCred,  \* credentials with address: what songs are resolved with
    Policies, Off,   \* a binding's allowlist, or Off when it is disabled
    Keys,            \* songs
    CacheLimit,      \* entries at which the cache is emptied
    Listeners, None

VARIABLES
    source,    \* subsonic_source: credentials, or None
    binding,   \* room_subsonic_source: a policy, or None
    active,    \* the rooms not deleted
    registry,  \* PlatformAPI.services and access: None, or [cred, policy]
    admin,     \* the holder of sourcesMu and what it still has to do, or None
    cache,     \* PlatformAPI.cache: [key, cred], cred being what resolved it
    resolving  \* per listener, the service it called, or None

sourceVars == <<source, binding, active, registry, admin>>
cacheVars == <<cache, resolving>>
vars == <<source, binding, active, registry, admin, cache, resolving>>

\* What the administrator's request, after its transaction, still has to do
AdminStep ==
    [op : {"publish"}, source : Sources, cred : Creds, rooms : [Rooms -> Policies \cup {None}]]
    \cup [op : {"clear"}, source : Sources]
    \cup [op : {"unregister"}, source : Sources, room : Rooms]
    \cup [op : {"order"}, source : Sources, room : Rooms, policy : Policies \cup {None}]

\* Mutant: the key is the name of the service alone.
KeyOfName(s, r, cred, song) == [source |-> s, room |-> r, namespace |-> None, song |-> song]

\* platformCacheKey: the name and what the upstream is reached with.
CacheKey(s, r, cred, song) == [source |-> s, room |-> r, namespace |-> cred, song |-> song]

\* What main and SubsonicServices register from the rows.
Loaded(src, bnd) ==
    [s \in Sources |-> [r \in Rooms |->
        IF bnd[r][s] # None THEN [cred |-> src[s], policy |-> bnd[r][s]]
        ELSE IF s = EnvSource /\ r = Lounge /\ src[s] = None
             THEN [cred |-> EnvCred, policy |-> CHOOSE p \in Policies \ {Off} : TRUE]
        ELSE None]]

-----------------------------------------------------------------------------
(* The administrator, under sourcesMu *)

\* saveSource up to SaveWithBinding: the row of the source with the room's
\* binding, or nothing when the room is gone; it sees the other bindings.
SaveSource(s, r, cred, policy) ==
    /\ admin = None
    /\ r \in active
    /\ source' = [source EXCEPT ![s] = cred]
    /\ binding' = [binding EXCEPT ![r][s] = policy]
    /\ admin' = [op |-> "publish", source |-> s, cred |-> cred, rooms |-> [q \in Rooms |-> binding'[q][s]]]
    /\ UNCHANGED <<active, registry, cacheVars>>

\* Mutant: only the bound rooms' entries are put in, and none taken out.
PublishRoom ==
    /\ admin # None /\ admin.op = "publish"
    /\ \E q \in Rooms : admin.rooms[q] # None /\
         registry' = [registry EXCEPT ![admin.source][q] = [cred |-> admin.cred, policy |-> admin.rooms[q]]]
    /\ admin' = [op |-> "clear", source |-> admin.source]
    /\ UNCHANGED <<source, binding, active, cacheVars>>

\* replaceSubsonicSource: every entry of the source at once.
Publish ==
    /\ admin # None /\ admin.op = "publish"
    /\ registry' = [registry EXCEPT ![admin.source] =
                      [q \in Rooms |-> IF admin.rooms[q] = None THEN None
                                       ELSE [cred |-> admin.cred, policy |-> admin.rooms[q]]]]
    /\ admin' = [op |-> "clear", source |-> admin.source]
    /\ UNCHANGED <<source, binding, active, cacheVars>>

ClearCache ==
    /\ admin # None /\ admin.op = "clear"
    /\ cache' = {e \in cache : e.key.source # admin.source}
    /\ admin' = None
    /\ UNCHANGED <<source, binding, active, registry, resolving>>

\* RemoveBindingAndUnusedSource: the last binding takes the source with it.
RemoveSource(s, r) ==
    /\ admin = None
    /\ binding[r][s] # None
    /\ binding' = [binding EXCEPT ![r][s] = None]
    /\ source' = IF \A q \in Rooms : binding'[q][s] = None THEN [source EXCEPT ![s] = None] ELSE source
    /\ admin' = [op |-> "unregister", source |-> s, room |-> r]
    /\ UNCHANGED <<active, registry, cacheVars>>

Unregister ==
    /\ admin # None /\ admin.op = "unregister"
    /\ registry' = [registry EXCEPT ![admin.source][admin.room] = None]
    /\ admin' = None
    /\ UNCHANGED <<source, binding, active, cacheVars>>

\* orderSource: the binding is read, and written back with its new order.
OrderRead(s, r) ==
    /\ admin = None
    /\ binding[r][s] # None
    /\ admin' = [op |-> "order", source |-> s, room |-> r, policy |-> binding[r][s]]
    /\ UNCHANGED <<source, binding, active, registry, cacheVars>>

OrderSource ==
    /\ admin # None /\ admin.op = "order"
    /\ binding' = IF admin.room \in active
                  THEN [binding EXCEPT ![admin.room][admin.source] = admin.policy] ELSE binding
    /\ admin' = None
    /\ UNCHANGED <<source, active, registry, cacheVars>>

\* room.Service.Delete takes the room's bindings; the registry is not told.
DeleteRoom(r) ==
    /\ r \in active \ {Lounge}
    /\ active' = active \ {r}
    /\ binding' = [binding EXCEPT ![r] = [s \in Sources |-> None]]
    /\ UNCHANGED <<source, registry, admin, cacheVars>>

-----------------------------------------------------------------------------
(* ResolvePlayable *)

Lapse == \E e \in cache : cache' = cache \ {e} /\ UNCHANGED <<resolving, sourceVars>>

Resolve(x, s, r, song) ==
    LET service == registry[s][r]
    IN  /\ resolving[x] = None /\ service # None /\ service.policy # Off
        /\ \A e \in cache : e.key # CacheKey(s, r, service.cred, song)
        /\ resolving' = [resolving EXCEPT ![x] = [source |-> s, room |-> r, cred |-> service.cred, song |-> song]]
        /\ UNCHANGED <<cache, sourceVars>>

Remember(x) ==
    /\ resolving[x] # None
    /\ LET q == resolving[x]
           key == CacheKey(q.source, q.room, q.cred, q.song)
       IN  cache' = {e \in cache : Cardinality(cache) < CacheLimit /\ e.key # key} \cup
                      {[key |-> key, cred |-> q.cred]}
    /\ resolving' = [resolving EXCEPT ![x] = None]
    /\ UNCHANGED sourceVars

ResolveFails(x) ==
    /\ resolving[x] # None
    /\ resolving' = [resolving EXCEPT ![x] = None]
    /\ UNCHANGED <<cache, sourceVars>>

-----------------------------------------------------------------------------

\* The process ends anywhere and starts again from the rows.
Restart ==
    /\ registry' = Loaded(source, binding)
    /\ admin' = None
    /\ cache' = {} /\ resolving' = [x \in Listeners |-> None]
    /\ UNCHANGED <<source, binding, active>>

Init ==
    /\ source = [s \in Sources |-> None]
    /\ binding = [r \in Rooms |-> [s \in Sources |-> None]]
    /\ active = Rooms
    /\ registry = Loaded(source, binding)
    /\ admin = None
    /\ cache = {} /\ resolving = [x \in Listeners |-> None]

Next ==
    \/ \E s \in Sources, r \in Rooms, cred \in Creds, policy \in Policies : SaveSource(s, r, cred, policy)
    \/ Publish \/ ClearCache \/ Unregister \/ OrderSource
    \/ \E s \in Sources, r \in Rooms : RemoveSource(s, r) \/ OrderRead(s, r)
    \/ \E r \in Rooms : DeleteRoom(r)
    \/ \E x \in Listeners, s \in Sources, r \in Rooms, song \in Keys : Resolve(x, s, r, song)
    \/ \E x \in Listeners : Remember(x) \/ ResolveFails(x)
    \/ Lapse
    \/ Restart

Spec == Init /\ [][Next]_vars

-----------------------------------------------------------------------------
(* Properties *)

\* Between two requests of the administrator the registry serves the rooms
\* what a restart would load from the rows: a save reaches every room that
\* shares the source, a removal ends with its binding, and a room deleted in
\* between leaves no binding.  Only the environment's own source is gone
\* from the registry and not from what is loaded, once its row is removed.
RegistryMatchesRows ==
    /\ \A r \in Rooms \ active, s \in Sources : binding[r][s] = None
    /\ admin = None => \A r \in active, s \in Sources :
         \/ registry[s][r] = Loaded(source, binding)[s][r]
         \/ s = EnvSource /\ r = Lounge /\ source[s] = None /\ registry[s][r] = None

\* A song found in the cache was resolved with the credentials its room's
\* source has now, even by a request that called the source before they
\* were replaced and stored its answer after the cache had been cleared.
CacheIsOfTheSource ==
    \A e \in cache :
        LET service == registry[e.key.source][e.key.room]
        IN  service # None /\ e.key = CacheKey(e.key.source, e.key.room, service.cred, e.key.song)
              => e.cred = service.cred
=============================================================================
