------------------------------ MODULE Playlists -----------------------------
(***************************************************************************)
(* The playlists of users and of rooms (httpapi/playlists.go,              *)
(* websocket_playlist.go, repository_user_playlist.go,                     *)
(* repository_room_playlist.go): lists and their tracks in SQLite, changed *)
(* over HTTP in one transaction and over WebSocket by a read, a permission *)
(* and one transaction or more, while rooms and local tracks are deleted.  *)
(* Names and what is only read are left out; ties that created_at breaks   *)
(* are broken in any order.                                                *)
(***************************************************************************)
EXTENDS Naturals, Sequences, FiniteSets, FiniteSetsExt, SequencesExt

CONSTANTS
    Users, Rooms, Songs,
    Local,      \* the songs of the local library
    MaxLists,   \* bounds the lists ever made
    MaxTracks,  \* bounds the tracks at a time
    Callers, None, Gone

VARIABLES
    list,    \* user_playlist and room_playlist: None, Gone, or [owner, liked]
    track,   \* the tracks: None, or [list, song, order]
    active,  \* the rooms not deleted
    call     \* per caller, what its request has read

vars == <<list, track, active, call>>

Lists == 1..MaxLists
Tracks == 1..MaxTracks
Owners == Users \cup Rooms
Idle == [op |-> "idle"]

Exists(l, o) == list[l] \notin {None, Gone} /\ list[l].owner = o
In(l) == {t \in Tracks : track[t] # None /\ track[t].list = l}
Liked(u) == {l \in Lists : Exists(l, u) /\ list[l].liked}
NewList == {l \in Lists : list[l] = None /\ \A m \in 1..(l-1) : list[m] # None}
Drop(gone) == [t \in Tracks |-> IF t \in gone THEN None ELSE track[t]]

-----------------------------------------------------------------------------
(* The repositories: one transaction each *)

NextList(l, o, liked) == l \in NewList /\ list' = [list EXCEPT ![l] = [owner |-> o, liked |-> liked]]

CreateUserPlaylist(u, liked) == \E l \in Lists : NextList(l, u, liked)

\* Mutant: the room is not looked at again with the insert.
CreateUnchecked(r) == \E l \in Lists : NextList(l, r, FALSE)

CreateRoomPlaylist(r) == r \in active /\ \E l \in Lists : NextList(l, r, FALSE)

Deleted(o, l) ==
    /\ Exists(l, o)
    /\ list' = [list EXCEPT ![l] = Gone]
    /\ track' = Drop(In(l))

DeleteUserPlaylist(u, l) == u \in Users /\ Deleted(u, l)
DeleteRoomPlaylist(r, l) == r \in Rooms /\ Deleted(r, l)

\* Mutant: a track is put where the number of tracks says.
NextOrderByCount(l) == Cardinality(In(l))

NextOrder(l) == IF In(l) = {} THEN 0 ELSE Max({track[t].order : t \in In(l)}) + 1

Unused == {t \in Tracks : track[t] = None}
Nth(t) == Cardinality({s \in Unused : s <= t})

AppendTo(l, songs) ==
    LET new(n) == [list |-> l, song |-> songs[n], order |-> NextOrder(l) + n - 1]
    IN  /\ Len(songs) <= Cardinality(Unused)
        /\ track' = [t \in Tracks |-> IF t \in Unused /\ Nth(t) <= Len(songs) THEN new(Nth(t)) ELSE track[t]]

Absent(l, song) == \A t \in In(l) : track[t].song # song

\* AddTrackIfAbsent
UserAddTrack(u, l, song) ==
    /\ Exists(l, u)
    /\ IF Absent(l, song) THEN AppendTo(l, <<song>>) ELSE UNCHANGED track

SongSeqs == {q \in SeqOf(Songs, 2) : IsInjective(q)}

\* AddTracksIfAbsent: what of the request, whose songs differ here, is not
\* in the list yet, in the request's order.
UserAddTracks(u, l, songs) ==
    /\ Exists(l, u)
    /\ \E new \in SongSeqs :
         /\ ToSet(new) = {song \in ToSet(songs) : Absent(l, song)}
         /\ \A m, n \in DOMAIN songs, i, j \in DOMAIN new :
              m < n /\ new[i] = songs[m] /\ new[j] = songs[n] => i < j
         /\ AppendTo(l, new)

\* AddTrack and AddTracks: a room's list takes a song twice.
RoomAddTrack(r, l, song) == Exists(l, r) /\ AppendTo(l, <<song>>)
RoomAddTracks(r, l, songs) == Exists(l, r) /\ AppendTo(l, songs)

\* The kept tracks take the positions 0, 1, ... by their order, equal ones
\* in any order, and the list's others go.
Ranked(l, kept, order) ==
    \E rank \in [kept -> 0..(Cardinality(kept) - 1)] :
        /\ \A s, t \in kept : s # t => rank[s] # rank[t] /\ (order[s] < order[t] => rank[s] < rank[t])
        /\ track' = [t \in Tracks |-> IF t \in kept THEN [track[t] EXCEPT !.order = rank[t]]
                                      ELSE IF t \in In(l) THEN None ELSE track[t]]

\* rewriteUserPlaylistOrder, rewriteRoomPlaylistOrder
RewriteUserPlaylistOrder(u, l, kept, order) == Exists(l, u) /\ u \in Users /\ Ranked(l, kept, order)
RewriteRoomPlaylistOrder(r, l, kept, order) == Exists(l, r) /\ r \in Rooms /\ Ranked(l, kept, order)

Orders(l) == [t \in In(l) |-> track[t].order]

UserDeleteTrack(u, l, t) == t \in In(l) /\ RewriteUserPlaylistOrder(u, l, In(l) \ {t}, Orders(l))
RoomDeleteTrack(r, l, t) == t \in In(l) /\ RewriteRoomPlaylistOrder(r, l, In(l) \ {t}, Orders(l))

\* ReorderTracks: the tracks named take their place in the request's order,
\* those it does not name keep theirs.
Reordered(l, ids) ==
    [t \in In(l) |-> IF t \in ToSet(ids) THEN (CHOOSE n \in DOMAIN ids : ids[n] = t) - 1 ELSE track[t].order]

UserReorderTracks(u, l, ids) == RewriteUserPlaylistOrder(u, l, In(l), Reordered(l, ids))
RoomReorderTracks(r, l, ids) == RewriteRoomPlaylistOrder(r, l, In(l), Reordered(l, ids))

AddTracks(o, l, songs) ==
    \/ o \in Users /\ UserAddTracks(o, l, songs)
    \/ o \in Rooms /\ RoomAddTracks(o, l, songs)
DeleteTrack(o, l, t) == UserDeleteTrack(o, l, t) \/ RoomDeleteTrack(o, l, t)
DeletePlaylist(o, l) == DeleteUserPlaylist(o, l) \/ DeleteRoomPlaylist(o, l)
Create(o) == (o \in Users /\ CreateUserPlaylist(o, FALSE)) \/ (o \in Rooms /\ CreateRoomPlaylist(o))

-----------------------------------------------------------------------------
(* HTTP: the lists of a user *)

Requested == SongSeqs \ {<<>>}
TrackSeqs == {q \in SeqOf(Tracks, 2) : IsInjective(q)}

UserListRequest(u) ==
    \/ CreateUserPlaylist(u, FALSE) /\ UNCHANGED track
    \/ \E l \in Lists : DeleteUserPlaylist(u, l)
UserTrackRequest(u) ==
    /\ \E l \in Lists :
         \/ \E songs \in Requested : UserAddTracks(u, l, songs)
         \/ \E t \in Tracks : UserDeleteTrack(u, l, t)
         \/ \E ids \in TrackSeqs : UserReorderTracks(u, l, ids)
    /\ UNCHANGED list
UserRequest(u) == (UserListRequest(u) \/ UserTrackRequest(u)) /\ UNCHANGED <<active, call>>

\* liked, EnsureLikedSongs: the liked list is found, or made where another
\* request may just have made it; what follows goes by its id.
LikedSongs(c, u, op, song) ==
    /\ call[c] = Idle
    /\ call' = [call EXCEPT ![c] = IF Liked(u) = {} THEN [op |-> "make", owner |-> u, then |-> op, song |-> song]
                                   ELSE [op |-> op, owner |-> u, list |-> Min(Liked(u)), song |-> song]]
    /\ UNCHANGED <<list, track, active>>

MakeLiked(c) ==
    LET u == call[c].owner
    IN  /\ call[c].op = "make"
        /\ IF Liked(u) # {} THEN UNCHANGED list ELSE CreateUserPlaylist(u, TRUE)
        /\ \E l \in Lists :
             /\ list'[l] \notin {None, Gone} /\ list'[l].owner = u /\ list'[l].liked
             /\ call' = [call EXCEPT ![c] = [op |-> @.then, owner |-> u, list |-> l, song |-> @.song]]
        /\ UNCHANGED <<track, active>>

\* likeSong and unlikeSong on the list found, which may be gone by now.
Like(c) ==
    LET u == call[c].owner  l == call[c].list  song == call[c].song
    IN  /\ call[c].op \in {"like", "unlike"}
        /\ \/ call[c].op = "like" /\ UserAddTrack(u, l, song)
           \/ call[c].op = "unlike" /\ \E t \in In(l) : track[t].song = song /\ UserDeleteTrack(u, l, t)
           \/ ~Exists(l, u) /\ UNCHANGED track
           \/ call[c].op = "unlike" /\ Absent(l, song) /\ UNCHANGED track
        /\ call' = [call EXCEPT ![c] = Idle]
        /\ UNCHANGED <<list, active>>

-----------------------------------------------------------------------------
(* HTTP: the lists of a room, whose access is checked before *)

RoomAccess(c, r) ==
    /\ call[c] = Idle /\ r \in active
    /\ call' = [call EXCEPT ![c] = [op |-> "room", owner |-> r]]
    /\ UNCHANGED <<list, track, active>>

RoomListRequest(r) ==
    \/ CreateRoomPlaylist(r) /\ UNCHANGED track
    \/ \E l \in Lists : DeleteRoomPlaylist(r, l)
RoomTrackRequest(r) ==
    /\ \E l \in Lists :
         \/ \E song \in Songs : RoomAddTrack(r, l, song)
         \/ \E songs \in Requested : RoomAddTracks(r, l, songs)
         \/ \E t \in Tracks : RoomDeleteTrack(r, l, t)
         \/ \E ids \in TrackSeqs : RoomReorderTracks(r, l, ids)
    /\ UNCHANGED list
RoomRequest(c) ==
    /\ call[c].op = "room"
    /\ RoomListRequest(call[c].owner) \/ RoomTrackRequest(call[c].owner) \/ UNCHANGED <<list, track>>
    /\ call' = [call EXCEPT ![c] = Idle]
    /\ UNCHANGED active

-----------------------------------------------------------------------------
(* WebSocket: playlistCommand finds the list and what may be done with it  *)

Command(c, o, l, op, ids) ==
    /\ call[c] = Idle /\ Exists(l, o)
    /\ list[l].liked => op = "remove"
    /\ op = "remove" => ids # <<>>
    /\ call' = [call EXCEPT ![c] = [op |-> op, owner |-> o, list |-> l, todo |-> ids]]
    /\ UNCHANGED <<list, track, active>>

CommandCreate(o) == Create(o) /\ UNCHANGED <<track, active, call>>

\* Deleting and adding; a list that is gone is not found, or takes nothing.
CommandWrite(c) ==
    LET o == call[c].owner  l == call[c].list
    IN  /\ call[c].op \in {"delete", "add"}
        /\ \/ call[c].op = "delete" /\ DeletePlaylist(o, l)
           \/ call[c].op = "add" /\ UNCHANGED list /\ \E songs \in Requested : AddTracks(o, l, songs)
           \/ ~Exists(l, o) /\ UNCHANGED <<list, track>>
        /\ call' = [call EXCEPT ![c] = Idle]
        /\ UNCHANGED active

\* One transaction per track named; an error ends it half way.
CommandRemove(c) ==
    LET o == call[c].owner  l == call[c].list  t == Head(call[c].todo)
    IN  /\ call[c].op = "remove"
        /\ IF Exists(l, o) /\ t \in In(l) THEN DeleteTrack(o, l, t) ELSE UNCHANGED track
        /\ \E failed \in {Len(call[c].todo) = 1, TRUE} :
             call' = [call EXCEPT ![c] = IF failed THEN Idle ELSE [call[c] EXCEPT !.todo = Tail(@)]]
        /\ UNCHANGED <<list, active>>

-----------------------------------------------------------------------------
(* What else deletes: a room with its lists, a local track with its rows,  *)
(* whose lists are not rewritten.                                          *)

DeleteRoom(r) ==
    LET lists == {l \in Lists : Exists(l, r)}
    IN  /\ r \in active
        /\ active' = active \ {r}
        /\ list' = [l \in Lists |-> IF l \in lists THEN Gone ELSE list[l]]
        /\ track' = Drop(UNION {In(l) : l \in lists})
        /\ UNCHANGED call

DeleteLocalReferences(song) ==
    /\ song \in Local
    /\ track' = Drop({t \in Tracks : track[t] # None /\ track[t].song = song})
    /\ UNCHANGED <<list, active, call>>

Init ==
    /\ list = [l \in Lists |-> None] /\ track = [t \in Tracks |-> None]
    /\ active = Rooms /\ call = [c \in Callers |-> Idle]

Next ==
    \/ \E u \in Users : UserRequest(u)
    \/ \E c \in Callers, u \in Users, op \in {"like", "unlike"}, song \in Songs : LikedSongs(c, u, op, song)
    \/ \E c \in Callers : MakeLiked(c) \/ Like(c) \/ RoomRequest(c) \/ CommandWrite(c) \/ CommandRemove(c)
    \/ \E c \in Callers, r \in Rooms : RoomAccess(c, r)
    \/ \E c \in Callers, o \in Owners, l \in Lists, op \in {"delete", "add", "remove"} :
         \E ids \in IF op = "remove" THEN TrackSeqs ELSE {<<>>} : Command(c, o, l, op, ids)
    \/ \E o \in Owners : CommandCreate(o)
    \/ \E r \in Rooms : DeleteRoom(r)
    \/ \E song \in Songs : DeleteLocalReferences(song)

Spec == Init /\ [][Next]_vars

-----------------------------------------------------------------------------
(* Properties *)

\* No two tracks of a list have the same position, after any mix of adding,
\* removing, reordering some of the tracks and deleting a local track, which
\* leaves a hole; a user's list holds no song twice.
PositionsAreDistinct ==
    \A l \in Lists : \A s, t \in In(l) : s # t =>
        /\ track[s].order # track[t].order
        /\ list[l].owner \in Users => track[s].song # track[t].song

\* No list outlives its room and no track its list, although access is
\* checked and lists are found before the transaction that writes.
NothingOutlivesItsOwner ==
    /\ \A l \in Lists : list[l] \notin {None, Gone} => list[l].owner \in Users \cup active
    /\ \A t \in Tracks : track[t] # None => list[track[t].list] \notin {None, Gone}
=============================================================================
