------------------------------- MODULE Catalog -------------------------------
(***************************************************************************)
(* What is kept in rows and files besides a room's own: the local library, *)
(* extended here, rooms with their members, playlists, and music sources.  *)
(* The parts share no state, so a behaviour is one of the module of the    *)
(* part it chooses at its start, and leaves the variables of every other   *)
(* part alone.                                                             *)
(***************************************************************************)
EXTENDS LocalLibrary

CONSTANTS
    Parts,
    Rooms, Lounge, Requesters,                                                   \* of several parts
    Users, Admins, Names, Invites, MaxPasswords, MaxVersion, System,            \* access
    ListUsers, ListRooms, Songs, Local, MaxLists, MaxTracks, Gone,              \* lists
    Sources, EnvSource, Creds, EnvCred, Policies, Off, Keys, CacheLimit,        \* music
    Listeners

VARIABLES
    part,  \* the part this behaviour is of
    room, member, invite, ticket, roomCall, passwords,
    list, track, listActive, listCall,
    source, binding, musicActive, registry, admin, cache, resolving

Room == INSTANCE RoomAccess WITH Callers <- Requesters, call <- roomCall
List == INSTANCE Playlists WITH Users <- ListUsers, Rooms <- ListRooms, Callers <- Requesters,
    active <- listActive, call <- listCall
Music == INSTANCE MusicSources WITH active <- musicActive

\* The variables of each part
roomVars == <<room, member, invite, ticket, roomCall, passwords>>
listVars == <<list, track, listActive, listCall>>
musicVars == <<source, binding, musicActive, registry, admin, cache, resolving>>

\* The bounds are numbers, people are finitely many, users are no rooms, and
\* None is neither credentials nor something the administrator has to do.
ASSUME CatalogAssumption ==
    /\ IsFiniteSet(Users) /\ ListUsers \cap ListRooms = {}
    /\ MaxPasswords \in Nat /\ MaxVersion \in Nat /\ MaxLists \in Nat /\ MaxTracks \in Nat
    /\ EnvCred \in Creds /\ None \notin Creds /\ None \notin Music!AdminStep

\* In the part chosen at the start, the steps of its module.
CatalogInit ==
    /\ part \in Parts
    /\ Init
    /\ IF part = "access" THEN Room!Init
       ELSE room = None /\ member = None /\ invite = None /\ ticket = None
            /\ roomCall = None /\ passwords = None
    /\ IF part = "lists" THEN List!Init
       ELSE list = None /\ track = None /\ listActive = None /\ listCall = None
    /\ IF part = "music" THEN Music!Init
       ELSE source = None /\ binding = None /\ musicActive = None /\ registry = None
            /\ admin = None /\ cache = None /\ resolving = None

Stay(p) ==
    /\ part = p /\ part' = part
    /\ IF p = "library" THEN TRUE ELSE UNCHANGED vars
    /\ IF p = "access" THEN TRUE ELSE UNCHANGED roomVars
    /\ IF p = "lists" THEN TRUE ELSE UNCHANGED listVars
    /\ IF p = "music" THEN TRUE ELSE UNCHANGED musicVars

CatalogNext ==
    \/ Stay("library") /\ Next
    \/ Stay("access") /\ Room!Next
    \/ Stay("lists") /\ List!Next
    \/ Stay("music") /\ Music!Next

CatalogSpec ==
    CatalogInit /\ [][CatalogNext]_<<part, vars, roomVars, listVars, musicVars>>

-----------------------------------------------------------------------------
(* The properties of the parts, stated and explained in their modules *)

\* A ticket admits to a private room only for its present password.
TicketsProvePassword == part = "access" => Room!TicketsProvePassword
\* The owner pointer and the OWNER members agree, and the last owner stays.
OwnersAgree == part = "access" => Room!OwnersAgree
\* No two tracks of a list share a position; no song is in a user's list twice.
PositionsAreDistinct == part = "lists" => List!PositionsAreDistinct
\* No list outlives its room, no track its list.
NothingOutlivesItsOwner == part = "lists" => List!NothingOutlivesItsOwner
\* The registry serves what a restart would load.
RegistryMatchesRows == part = "music" => Music!RegistryMatchesRows
\* A cached song was resolved with the source's present credentials.
CacheIsOfTheSource == part = "music" => Music!CacheIsOfTheSource
\* A room is changed only by someone its present state lets.
EditsAreAuthorised == [][part = "access" => Room!EditIsAuthorised]_<<part, roomVars>>
=============================================================================
