-------------------------------- MODULE Rooms --------------------------------
(***************************************************************************)
(* RoomsService (app/rooms/rooms.service.ts): who becomes a member of what *)
(* room.  A room is created with its owner in one transaction.  A public   *)
(* room is joined by its id; a private one with an invite, a signed token  *)
(* that names a user and a room and is valid for three days.               *)
(*                                                                         *)
(* A handler is a series of queries, each a step of its own: what a query  *)
(* read may be stale when the next one runs.  No code deletes a room or a  *)
(* membership or changes is_private, so a room found once stays found.     *)
(* UNIQUE (room_id, member_id) makes the database refuse a second row.     *)
(***************************************************************************)
EXTENDS ChatDomain, Integers, FiniteSets

CONSTANTS
    Requests,       \* slots for requests in flight: a bound on concurrency
    Validity,       \* of an invite (three days)
    MaxTime         \* bound: the clock stops here

ASSUME RoomsAssumption ==
    /\ Validity \in Nat /\ MaxTime \in Nat
    /\ None \notin Rooms /\ None \notin BOOLEAN /\ None \notin {"public", "private"}

VARIABLES
    clock,
    isPrivate,      \* room -> rooms.is_private, None when there is no such room
    rows,           \* the rows of room_members
    invites,        \* the invites handed out
    request,        \* slot -> the request in flight
    joined          \* history: <<user, room>> told "Joined room"

vars == <<clock, isPrivate, rows, invites, request, joined>>

Row == [room : Rooms, member : Users, role : {"owner", "member"},
        created_at : Nat]

Invite == [u : Users, r : Rooms, exp : Nat, by : Users]

ASSUME NoInviteAssumption == None \notin Invite

NoRequest == [pc |-> "idle"]

Init ==
    /\ clock = 0
    /\ isPrivate = [r \in Rooms |-> None]
    /\ rows = {}
    /\ invites = {}
    /\ request = [h \in Requests |-> NoRequest]
    /\ joined = {}

At(h, pc) == request[h].pc = pc

Goto(h, pc) == request' = [request EXCEPT ![h].pc = pc]

Done(h) == request' = [request EXCEPT ![h] = NoRequest]

Exists(r) == isPrivate[r] # None

NewRow(u, r, role) == [room |-> r, member |-> u, role |-> role, created_at |-> clock]

\* findFirst in room_members
IsMember(u, r) == \E row \in rows : row.room = r /\ row.member = u

------------------------------------------------------------------------------
\* Mutant: no transaction, and the second insert fails.
CreateRoomAlone(u, r, private) ==
    /\ ~Exists(r)
    /\ isPrivate' = [isPrivate EXCEPT ![r] = private]
    /\ UNCHANGED <<clock, rows, invites, request, joined>>

\* createRoom: both rows are inserted, or neither is.
CreateRoom(u, r, private) ==
    /\ ~Exists(r)
    /\ isPrivate' = [isPrivate EXCEPT ![r] = private]
    /\ rows' = rows \cup {NewRow(u, r, "owner")}
    /\ UNCHANGED <<clock, invites, request, joined>>

------------------------------------------------------------------------------
\* inviteUserToRoom: the room, the caller's membership, and the invitee.

StartInvite(h, u, r, invitee) ==
    /\ At(h, "idle")
    /\ request' = [request EXCEPT ![h] =
         [pc |-> "invite room", user |-> u, room |-> r, invitee |-> invitee]]
    /\ UNCHANGED <<clock, isPrivate, rows, invites, joined>>

FindInviteRoom(h) ==
    /\ At(h, "invite room")
    /\ IF Exists(request[h].room) THEN Goto(h, "invite verify") ELSE Done(h)
    /\ UNCHANGED <<clock, isPrivate, rows, invites, joined>>

\* Mutant: the caller's membership is not verified.
VerifyInviterAny(h) ==
    /\ At(h, "invite verify")
    /\ IF isPrivate[request[h].room] = TRUE
         THEN Goto(h, "invite invitee") ELSE Done(h)
    /\ UNCHANGED <<clock, isPrivate, rows, invites, joined>>

VerifyInviter(h) ==
    /\ At(h, "invite verify")
    /\ IF IsMember(request[h].user, request[h].room) /\ isPrivate[request[h].room] = TRUE
         THEN Goto(h, "invite invitee") ELSE Done(h)
    /\ UNCHANGED <<clock, isPrivate, rows, invites, joined>>

\* A token for an invitee who is not a member yet.
IssueInvite(h) ==
    LET q == request[h]
    IN  /\ At(h, "invite invitee")
        /\ invites' = IF IsMember(q.invitee, q.room) THEN invites
                      ELSE invites \cup {[u |-> q.invitee, r |-> q.room,
                                          exp |-> clock + Validity, by |-> q.user]}
        /\ Done(h)
        /\ UNCHANGED <<clock, isPrivate, rows, joined>>

------------------------------------------------------------------------------
\* joinRoom: the room named in the path decides which way the request goes; on
\* the private way the room named in the invite is the one that is joined.

StartJoin(h, u, r, invite) ==
    /\ At(h, "idle")
    /\ request' = [request EXCEPT ![h] =
         [pc |-> "join room", user |-> u, room |-> r, invite |-> invite]]
    /\ UNCHANGED <<clock, isPrivate, rows, invites, joined>>

\* Mutant: a missing invite is not refused.
FindJoinRoomUnchecked(h) ==
    /\ At(h, "join room")
    /\ CASE ~Exists(request[h].room) -> Done(h)
         [] isPrivate[request[h].room] = FALSE -> Goto(h, "join find")
         [] isPrivate[request[h].room] = TRUE -> Goto(h, "join invite")
    /\ UNCHANGED <<clock, isPrivate, rows, invites, joined>>

FindJoinRoom(h) ==
    /\ At(h, "join room")
    /\ CASE ~Exists(request[h].room) -> Done(h)
         [] isPrivate[request[h].room] = FALSE -> Goto(h, "join find")
         [] isPrivate[request[h].room] = TRUE ->
               IF request[h].invite = None THEN Done(h) ELSE Goto(h, "join invite")
    /\ UNCHANGED <<clock, isPrivate, rows, invites, joined>>

\* Mutant: the room of the path is kept.
VerifyInviteForPath(h) ==
    LET i == request[h].invite
    IN  /\ At(h, "join invite")
        /\ IF i.u = request[h].user /\ clock < i.exp /\ isPrivate[i.r] = TRUE
             THEN Goto(h, "join find") ELSE Done(h)
        /\ UNCHANGED <<clock, isPrivate, rows, invites, joined>>

\* jwt.verify, the match of the user, and the private room of the invite.
VerifyInvite(h) ==
    LET i == request[h].invite
    IN  /\ At(h, "join invite")
        /\ IF i.u = request[h].user /\ clock < i.exp /\ isPrivate[i.r] = TRUE
             THEN request' = [request EXCEPT ![h].pc = "join find", ![h].room = i.r]
             ELSE Done(h)
        /\ UNCHANGED <<clock, isPrivate, rows, invites, joined>>

FindMembership(h) ==
    /\ At(h, "join find")
    /\ Goto(h, IF IsMember(request[h].user, request[h].room)
                 THEN "join answer" ELSE "join insert")
    /\ UNCHANGED <<clock, isPrivate, rows, invites, joined>>

\* Mutant: no unique constraint.
InsertAlways(u, r) == TRUE

\* UNIQUE (room_id, member_id)
Insertable(u, r) == ~IsMember(u, r)

\* Another request may have inserted the row since: then the insert is refused,
\* and the request answers an error although its user is a member.
InsertMembership(h) ==
    LET q == request[h]
    IN  /\ At(h, "join insert")
        /\ IF Insertable(q.user, q.room)
             THEN /\ rows' = rows \cup {NewRow(q.user, q.room, "member")}
                  /\ Goto(h, "join answer")
             ELSE Done(h) /\ UNCHANGED rows
        /\ UNCHANGED <<clock, isPrivate, invites, joined>>

AnswerJoin(h) ==
    /\ At(h, "join answer")
    /\ joined' = joined \cup {<<request[h].user, request[h].room>>}
    /\ Done(h)
    /\ UNCHANGED <<clock, isPrivate, rows, invites>>

\* Mutant: the error of an insert is logged and swallowed.
DbErrorSwallowed(h) ==
    /\ ~At(h, "idle") /\ ~At(h, "join answer")
    /\ IF At(h, "join insert") THEN Goto(h, "join answer") ELSE Done(h)
    /\ UNCHANGED <<clock, isPrivate, rows, invites, joined>>

\* A query fails: the request answers an error.
DbError(h) ==
    /\ ~At(h, "idle") /\ ~At(h, "join answer")
    /\ Done(h)
    /\ UNCHANGED <<clock, isPrivate, rows, invites, joined>>

Tick ==
    /\ clock < MaxTime
    /\ clock' = clock + 1
    /\ UNCHANGED <<isPrivate, rows, invites, request, joined>>

Step(h) ==
    \/ FindInviteRoom(h) \/ VerifyInviter(h) \/ IssueInvite(h)
    \/ FindJoinRoom(h) \/ VerifyInvite(h) \/ FindMembership(h)
    \/ InsertMembership(h) \/ AnswerJoin(h) \/ DbError(h)

Next ==
    \/ \E u \in Users, r \in Rooms, private \in BOOLEAN : CreateRoom(u, r, private)
    \/ \E h \in Requests, u \in Users, r \in Rooms :
          \/ \E invitee \in Users : StartInvite(h, u, r, invitee)
          \/ \E invite \in invites \cup {None} : StartJoin(h, u, r, invite)
    \/ \E h \in Requests : Step(h)
    \/ Tick

Spec == Init /\ [][Next]_vars

------------------------------------------------------------------------------
InviteRequest == [pc : {"invite room", "invite verify", "invite invitee"},
                  user : Users, room : Rooms, invitee : Users]

JoinRequest == [pc : {"join room", "join invite", "join find", "join insert",
                      "join answer"},
                user : Users, room : Rooms, invite : Invite \cup {None}]

\* Types; in particular the invite that is decoded is one that was handed out.
TypeOK ==
    /\ clock \in Nat
    /\ isPrivate \in [Rooms -> BOOLEAN \cup {None}]
    /\ rows \subseteq Row
    /\ invites \subseteq Invite
    /\ joined \subseteq Users \X Rooms
    /\ \A h \in Requests :
         /\ request[h] \in InviteRequest \cup JoinRequest \cup {NoRequest}
         /\ At(h, "join invite") => request[h].invite \in invites

\* A room exists together with its owner: exactly one, from the transaction that
\* created it, and joining never makes another.
RoomsAreOwned ==
    \A r \in Rooms :
        Exists(r) <=> Cardinality({row \in rows : row.room = r /\ row.role = "owner"}) = 1

\* However many requests of a user join one room at the same time, each of which
\* may have found no membership, the user has one row in it.
MembershipUnique ==
    \A a, b \in rows : a.room = b.room /\ a.member = b.member => a = b

\* Whoever is in a private room without having founded it was invited to that
\* very room, by a member of it ("join room (private requires invite)", README).
PrivateByInvitation ==
    \A row \in rows : isPrivate[row.room] = TRUE /\ row.role = "member" =>
        \E i \in invites : /\ i.u = row.member /\ i.r = row.room
                           /\ IsMember(i.by, i.r)

\* A request is told it joined a room its user is a member of.
JoinedIsMember == \A j \in joined : IsMember(j[1], j[2])

\* The requests implement Membership.
kind == [r \in Rooms |-> CASE ~Exists(r) -> None
                           [] isPrivate[r] = TRUE -> "private"
                           [] isPrivate[r] = FALSE -> "public"]
members == [r \in Rooms |-> {row.member : row \in {x \in rows : x.room = r}}]
invited == {<<i.by, i.u, i.r>> : i \in invites}

Promise == INSTANCE Membership

ImplementsMembership == Promise!Spec
==============================================================================
