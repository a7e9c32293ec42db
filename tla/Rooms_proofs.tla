----------------------------- MODULE Rooms_proofs -----------------------------
(***************************************************************************)
(* Proofs about Rooms for every value of its constants: its types, that a  *)
(* room is owned, that a membership is unique, that a private room is      *)
(* entered by invitation, that a request is told what is true, and that    *)
(* the requests implement Membership.                                      *)
(*                                                                         *)
(* A request acts on what its earlier queries found.  RequestOK says what  *)
(* that is: its room exists, and is public or one its user was invited to. *)
(* It stays true because no code deletes a room, a membership or an        *)
(* invite, nor changes is_private.  What a request found to be missing may *)
(* be there by now: there the unique constraint decides.                   *)
(***************************************************************************)
EXTENDS Rooms, FiniteSetTheorems, TLAPS

Slot == InviteRequest \cup JoinRequest \cup {NoRequest}

Typed ==
    /\ clock \in Nat
    /\ isPrivate \in [Rooms -> BOOLEAN \cup {None}]
    /\ rows \subseteq Row
    /\ invites \subseteq Invite
    /\ joined \subseteq Users \X Rooms
    /\ request \in [Requests -> Slot]

Invited(u, r) == \E i \in invites : i.u = u /\ i.r = r

\* What a request in flight knows from its earlier queries.
RequestOK(q) ==
    /\ q.pc = "invite verify" => Exists(q.room)
    /\ q.pc = "invite invitee" =>
         Exists(q.room) /\ isPrivate[q.room] = TRUE /\ IsMember(q.user, q.room)
    /\ q \in JoinRequest => q.invite \in invites \cup {None}
    /\ q.pc = "join invite" => q.invite \in invites
    /\ q.pc \in {"join find", "join insert"} =>
         Exists(q.room) /\ (isPrivate[q.room] = FALSE \/ Invited(q.user, q.room))
    /\ q.pc = "join answer" => IsMember(q.user, q.room)

\* The owner of a room that exists.
Owned(r) ==
    \E o \in rows : \A row \in rows : row.room = r /\ row.role = "owner" <=> row = o

TablesOK ==
    /\ \A row \in rows : Exists(row.room)
    /\ \A r \in Rooms : Exists(r) => Owned(r)
    /\ \A i \in invites : IsMember(i.by, i.r) /\ isPrivate[i.r] = TRUE

IInv ==
    /\ Typed
    /\ TablesOK
    /\ MembershipUnique
    /\ PrivateByInvitation
    /\ JoinedIsMember
    /\ \A h \in Requests : RequestOK(request[h])

\* The tables only grow, and a room that exists stays as it is.
Grows ==
    /\ rows \subseteq rows'
    /\ invites \subseteq invites'
    /\ \A r \in Rooms : Exists(r) => isPrivate'[r] = isPrivate[r]

------------------------------------------------------------------------------
\* The place of a request says what kind of request it is.
LEMMA Kinds ==
  ASSUME NEW q \in Slot
  PROVE  /\ q.pc \in {"invite room", "invite verify", "invite invitee"} =>
              q \in InviteRequest /\ q \notin JoinRequest
         /\ q.pc \in {"join room", "join invite", "join find", "join insert",
                      "join answer"} => q \in JoinRequest
         /\ q.pc = "idle" => q = NoRequest
         /\ q.pc # "idle" => q.user \in Users /\ q.room \in Rooms
  <1>1. CASE q \in InviteRequest
    <2>1. q.pc \in {"invite room", "invite verify", "invite invitee"}
          /\ q.user \in Users /\ q.room \in Rooms
      BY <1>1 DEF InviteRequest
    <2>2. q \notin JoinRequest
      BY <2>1 DEF JoinRequest
    <2> QED
      BY <1>1, <2>1, <2>2
  <1>2. CASE q \in JoinRequest
    BY <1>2 DEF JoinRequest
  <1>3. CASE q = NoRequest
    BY <1>3 DEF NoRequest
  <1> QED
    BY <1>1, <1>2, <1>3 DEF Slot

\* A free slot promises nothing.
LEMMA FreeSlot == NoRequest \in Slot /\ RequestOK(NoRequest) /\ RequestOK(NoRequest)'
  <1>1. NoRequest.pc = "idle" /\ NoRequest \in Slot
    BY DEF NoRequest, Slot
  <1>2. NoRequest \notin JoinRequest
    BY <1>1 DEF JoinRequest
  <1> QED
    BY <1>1, <1>2 DEF RequestOK

\* What a request knows is not lost when the tables grow.
LEMMA KeepsKnowing ==
  ASSUME Grows, NEW q \in Slot, RequestOK(q)
  PROVE  RequestOK(q)'
  <1>1. CASE q.pc = "idle"
    <2>1. q \notin JoinRequest
      BY <1>1 DEF JoinRequest
    <2> QED
      BY <1>1, <2>1 DEF RequestOK
  <1>2. CASE q.pc # "idle"
    <2>1. q.user \in Users /\ q.room \in Rooms
      BY <1>2, Kinds
    <2>2. /\ IsMember(q.user, q.room) => IsMember(q.user, q.room)'
          /\ Invited(q.user, q.room) => Invited(q.user, q.room)'
          /\ Exists(q.room) => Exists(q.room)' /\ isPrivate'[q.room] = isPrivate[q.room]
      BY <2>1 DEF Grows, IsMember, Invited, Exists
    <2> QED
      BY <2>2 DEF RequestOK, Grows
  <1> QED
    BY <1>1, <1>2

\* One request moves, the others keep what they know.
LEMMA OneMoves ==
  ASSUME IInv, Grows, NEW h \in Requests, NEW q \in Slot, RequestOK(q)',
         request' = [request EXCEPT ![h] = q]
  PROVE  request' \in [Requests -> Slot] /\ \A g \in Requests : RequestOK(request[g])'
  <1>1. request' \in [Requests -> Slot]
        /\ \A g \in Requests : request'[g] = IF g = h THEN q ELSE request[g]
    BY DEF IInv, Typed
  <1>2. ASSUME NEW g \in Requests
        PROVE  RequestOK(request[g])'
    <2>1. CASE g = h
      BY <1>1, <2>1 DEF RequestOK
    <2>2. CASE g # h
      <3>1. PICK p \in Slot : p = request[g] /\ RequestOK(p)
        BY DEF IInv, Typed
      <3>2. RequestOK(p)'
        BY <3>1, KeepsKnowing
      <3> QED
        BY <1>1, <2>2, <3>1, <3>2 DEF RequestOK
    <2> QED
      BY <2>1, <2>2
  <1> QED
    BY <1>1, <1>2

\* A request goes on, and the tables stay as they are.
LEMMA RequestMoves ==
  ASSUME IInv, NEW h \in Requests, NEW q \in Slot, RequestOK(q),
         request' = [request EXCEPT ![h] = q],
         UNCHANGED <<clock, isPrivate, rows, invites, joined>>
  PROVE  IInv'
  <1>1. Grows
    BY DEF Grows
  <1>2. RequestOK(q)'
    BY <1>1, KeepsKnowing
  <1>3. request' \in [Requests -> Slot] /\ \A g \in Requests : RequestOK(request[g])'
    BY <1>1, <1>2, OneMoves
  <1>4. Typed' /\ TablesOK'
    BY <1>3 DEF IInv, Typed, TablesOK, Owned, Exists, IsMember
  <1>5. MembershipUnique' /\ PrivateByInvitation' /\ JoinedIsMember'
    BY DEF IInv, MembershipUnique, PrivateByInvitation, JoinedIsMember, IsMember
  <1> QED
    BY <1>3, <1>4, <1>5 DEF IInv

\* A request ends, and the tables stay as they are.
LEMMA RequestEnds ==
  ASSUME IInv, NEW h \in Requests, Done(h),
         UNCHANGED <<clock, isPrivate, rows, invites, joined>>
  PROVE  IInv'
  BY RequestMoves, FreeSlot DEF Done

\* The same, when all that changes is where the request is.
LEMMA RequestGoes ==
  ASSUME IInv, NEW h \in Requests, NEW pc, Goto(h, pc),
         [request[h] EXCEPT !.pc = pc] \in Slot, RequestOK([request[h] EXCEPT !.pc = pc]),
         UNCHANGED <<clock, isPrivate, rows, invites, joined>>
  PROVE  IInv'
  <1>1. PICK q : q = [request[h] EXCEPT !.pc = pc]
    OBVIOUS
  <1>2. request' = [request EXCEPT ![h] = q]
    BY <1>1 DEF Goto, IInv, Typed
  <1> QED
    BY <1>1, <1>2, RequestMoves

\* What is known of the request whose step it is.
LEMMA Facts ==
  ASSUME IInv, NEW h \in Requests
  PROVE  request[h] \in Slot /\ RequestOK(request[h])
  BY DEF IInv, Typed

\* createRoom inserts a room and its first row together.
LEMMA CreateRoomKeeps ==
  ASSUME IInv, NEW u \in Users, NEW r \in Rooms, NEW private \in BOOLEAN,
         CreateRoom(u, r, private)
  PROVE  IInv'
  <1>1. PICK o : o = NewRow(u, r, "owner")
    OBVIOUS
  <1>2. o \in Row /\ o.room = r /\ o.member = u /\ o.role = "owner"
    BY <1>1 DEF NewRow, Row, IInv, Typed
  <1>3. /\ ~Exists(r) /\ isPrivate' = [isPrivate EXCEPT ![r] = private]
        /\ rows' = rows \cup {o}
        /\ UNCHANGED <<clock, invites, request, joined>>
    BY <1>1 DEF CreateRoom
  <1>4. isPrivate'[r] = private /\ private # None
        /\ \A x \in Rooms \ {r} : isPrivate'[x] = isPrivate[x]
    BY <1>3, RoomsAssumption DEF IInv, Typed
  <1>5. \A row \in rows : row \in Row /\ row.room \in Rooms /\ row.room # r
    BY <1>3 DEF IInv, TablesOK, Typed, Row
  <1>6. Grows
    BY <1>3, <1>4 DEF Grows
  <1>7. Typed'
    BY <1>2, <1>3 DEF IInv, Typed
  <1>8. \A h \in Requests : RequestOK(request[h])'
    <2>1. ASSUME NEW h \in Requests PROVE RequestOK(request[h])'
      <3>1. PICK q \in Slot : q = request[h] /\ RequestOK(q)
        BY Facts
      <3>2. RequestOK(q)'
        BY <1>6, <3>1, KeepsKnowing
      <3> QED
        BY <1>3, <3>1, <3>2 DEF RequestOK
    <2> QED
      BY <2>1
  <1>9. TablesOK'
    <2>1. \A row \in rows' : Exists(row.room)'
      BY <1>2, <1>3, <1>4, <1>5 DEF IInv, TablesOK, Exists
    <2>2. ASSUME NEW x \in Rooms, Exists(x)' PROVE Owned(x)'
      <3>1. CASE x = r
        BY <1>2, <1>3, <1>5, <3>1 DEF Owned
      <3>2. CASE x # r
        <4>1. Exists(x)
          BY <1>4, <2>2, <3>2 DEF Exists
        <4> QED
          BY <1>2, <1>3, <3>2, <4>1 DEF IInv, TablesOK, Owned
      <3> QED
        BY <3>1, <3>2
    <2>3. ASSUME NEW i \in invites
          PROVE  IsMember(i.by, i.r)' /\ isPrivate'[i.r] = TRUE
      <3>1. i.r \in Rooms /\ IsMember(i.by, i.r) /\ isPrivate[i.r] = TRUE
        BY DEF IInv, Typed, TablesOK, Invite
      <3>2. i.r # r
        BY <1>5, <3>1 DEF IsMember
      <3> QED
        BY <1>3, <1>4, <3>1, <3>2 DEF IsMember
    <2> QED
      BY <1>3, <2>1, <2>2, <2>3 DEF TablesOK
  <1>10. MembershipUnique'
    BY <1>2, <1>3, <1>5 DEF IInv, MembershipUnique
  <1>11. PrivateByInvitation'
    <2>1. ASSUME NEW row \in rows, isPrivate'[row.room] = TRUE, row.role = "member"
          PROVE  \E i \in invites : /\ i.u = row.member /\ i.r = row.room
                                    /\ IsMember(i.by, i.r)'
      <3>1. isPrivate[row.room] = TRUE
        BY <1>4, <1>5, <2>1
      <3> QED
        BY <1>3, <2>1, <3>1 DEF IInv, PrivateByInvitation, IsMember
    <2> QED
      BY <1>2, <1>3, <2>1 DEF PrivateByInvitation
  <1>12. JoinedIsMember'
    BY <1>3 DEF IInv, JoinedIsMember, IsMember
  <1> QED
    BY <1>7, <1>8, <1>9, <1>10, <1>11, <1>12 DEF IInv

\* A member of a private room hands out an invite.
LEMMA IssueInviteKeeps ==
  ASSUME IInv, NEW h \in Requests, IssueInvite(h)
  PROVE  IInv'
  <1>1. PICK q \in InviteRequest : q = request[h] /\ RequestOK(q)
    BY Facts, Kinds DEF IssueInvite, At
  <1>2. /\ q.user \in Users /\ q.room \in Rooms /\ q.invitee \in Users
        /\ isPrivate[q.room] = TRUE /\ IsMember(q.user, q.room)
    BY <1>1 DEF InviteRequest, RequestOK, IssueInvite, At
  <1>3. PICK i : i = [u |-> q.invitee, r |-> q.room, exp |-> clock + Validity, by |-> q.user]
    OBVIOUS
  <1>4. i \in Invite /\ i.u = q.invitee /\ i.r = q.room /\ i.by = q.user
    BY <1>2, <1>3, RoomsAssumption DEF Invite, IInv, Typed
  <1>5. /\ invites' = invites \/ invites' = invites \cup {i}
        /\ request' = [request EXCEPT ![h] = NoRequest]
        /\ UNCHANGED <<clock, isPrivate, rows, joined>>
    BY <1>1, <1>3 DEF IssueInvite, Done
  <1>6. Grows
    BY <1>5 DEF Grows
  <1>7. request' \in [Requests -> Slot] /\ \A g \in Requests : RequestOK(request[g])'
    BY <1>5, <1>6, OneMoves, FreeSlot
  <1>8. Typed'
    BY <1>4, <1>5, <1>7 DEF IInv, Typed
  <1>9. TablesOK'
    <2>1. \A j \in invites' : IsMember(j.by, j.r) /\ isPrivate[j.r] = TRUE
      BY <1>2, <1>4, <1>5 DEF IInv, TablesOK
    <2> QED
      BY <1>5, <2>1 DEF IInv, TablesOK, Owned, Exists, IsMember
  <1>10. MembershipUnique' /\ PrivateByInvitation' /\ JoinedIsMember'
    BY <1>5 DEF IInv, MembershipUnique, PrivateByInvitation, JoinedIsMember, IsMember
  <1> QED
    BY <1>7, <1>8, <1>9, <1>10 DEF IInv

\* A row is inserted for a user who may be in the room, and is not yet.
LEMMA InsertMembershipKeeps ==
  ASSUME IInv, NEW h \in Requests, InsertMembership(h)
  PROVE  IInv'
  <1>1. PICK q \in JoinRequest : q = request[h] /\ RequestOK(q)
    BY Facts, Kinds DEF InsertMembership, At
  <1>2. /\ q.user \in Users /\ q.room \in Rooms /\ Exists(q.room)
        /\ isPrivate[q.room] = FALSE \/ Invited(q.user, q.room)
    BY <1>1 DEF JoinRequest, RequestOK, InsertMembership, At
  <1>3. CASE ~Insertable(q.user, q.room)
    BY <1>1, <1>3, RequestEnds DEF InsertMembership
  <1>4. CASE Insertable(q.user, q.room)
    <2>1. PICK n : n = NewRow(q.user, q.room, "member")
      OBVIOUS
    <2>2. n \in Row /\ n.room = q.room /\ n.member = q.user /\ n.role = "member"
      BY <1>2, <2>1 DEF NewRow, Row, IInv, Typed
    <2>3. PICK p : p = [q EXCEPT !.pc = "join answer"]
      OBVIOUS
    <2>4. p \in JoinRequest /\ p.pc = "join answer" /\ p.user = q.user /\ p.room = q.room
          /\ p.invite = q.invite
      BY <2>3 DEF JoinRequest
    <2>5. /\ rows' = rows \cup {n}
          /\ request' = [request EXCEPT ![h] = p]
          /\ UNCHANGED <<clock, isPrivate, invites, joined>>
      BY <1>1, <1>4, <2>1, <2>3 DEF InsertMembership, Goto, IInv, Typed
    <2>6. Grows
      BY <2>5 DEF Grows
    <2>7. RequestOK(p)'
      BY <1>1, <2>2, <2>4, <2>5 DEF RequestOK, IsMember
    <2>8. request' \in [Requests -> Slot] /\ \A g \in Requests : RequestOK(request[g])'
      BY <2>4, <2>5, <2>6, <2>7, OneMoves DEF Slot
    <2>9. Typed'
      BY <2>2, <2>5, <2>8 DEF IInv, Typed
    <2>10. TablesOK'
      BY <1>2, <2>2, <2>5 DEF IInv, TablesOK, Owned, Exists, IsMember
    <2>11. MembershipUnique'
      BY <1>4, <2>2, <2>5 DEF IInv, MembershipUnique, Insertable, IsMember
    <2>12. \A i \in invites : IsMember(i.by, i.r)'
      BY <2>5 DEF IInv, TablesOK, IsMember
    <2>13. PrivateByInvitation'
      <3>1. ASSUME isPrivate[n.room] = TRUE
            PROVE  \E i \in invites : i.u = n.member /\ i.r = n.room
        BY <1>2, <2>2, <3>1 DEF Invited
      <3> QED
        BY <2>5, <2>12, <3>1 DEF IInv, PrivateByInvitation
    <2>14. JoinedIsMember'
      BY <2>5 DEF IInv, JoinedIsMember, IsMember
    <2> QED
      BY <2>8, <2>9, <2>10, <2>11, <2>13, <2>14 DEF IInv
  <1> QED
    BY <1>3, <1>4

\* Whoever is told "Joined room" is a member.
LEMMA AnswerJoinKeeps ==
  ASSUME IInv, NEW h \in Requests, AnswerJoin(h)
  PROVE  IInv'
  <1>1. PICK u \in Users, r \in Rooms : u = request[h].user /\ r = request[h].room
    BY Facts, Kinds DEF AnswerJoin, At
  <1>2. IsMember(u, r)
    BY <1>1, Facts DEF AnswerJoin, At, RequestOK
  <1>3. /\ joined' = joined \cup {<<u, r>>}
        /\ request' = [request EXCEPT ![h] = NoRequest]
        /\ UNCHANGED <<clock, isPrivate, rows, invites>>
    BY <1>1 DEF AnswerJoin, Done
  <1>4. Grows
    BY <1>3 DEF Grows
  <1>5. request' \in [Requests -> Slot] /\ \A g \in Requests : RequestOK(request[g])'
    BY <1>3, <1>4, OneMoves, FreeSlot
  <1>6. Typed' /\ TablesOK'
    BY <1>1, <1>3, <1>5 DEF IInv, Typed, TablesOK, Owned, Exists, IsMember
  <1>7. MembershipUnique' /\ PrivateByInvitation'
    BY <1>3 DEF IInv, MembershipUnique, PrivateByInvitation, IsMember
  <1>8. JoinedIsMember'
    BY <1>2, <1>3 DEF IInv, JoinedIsMember, IsMember
  <1> QED
    BY <1>5, <1>6, <1>7, <1>8 DEF IInv

\* inviteUserToRoom finds the room, and verifies that its user is a member.
LEMMA InviteStepsKeep ==
  ASSUME IInv, NEW h \in Requests, FindInviteRoom(h) \/ VerifyInviter(h)
  PROVE  IInv'
  <1>1. PICK q \in InviteRequest : q = request[h]
    BY Facts, Kinds DEF FindInviteRoom, VerifyInviter, At
  <1>2. UNCHANGED <<clock, isPrivate, rows, invites, joined>>
    BY DEF FindInviteRoom, VerifyInviter
  <1>3. CASE Done(h)
    BY <1>2, <1>3, RequestEnds
  <1>4. ASSUME NEW pc \in {"invite verify", "invite invitee"}, Goto(h, pc),
               Exists(q.room),
               pc = "invite invitee" =>
                 isPrivate[q.room] = TRUE /\ IsMember(q.user, q.room)
        PROVE  IInv'
    <2>1. PICK p : p = [q EXCEPT !.pc = pc]
      OBVIOUS
    <2>2. p \in InviteRequest /\ p.pc = pc /\ p.user = q.user /\ p.room = q.room
      BY <2>1 DEF InviteRequest
    <2>3. p \in Slot /\ p \notin JoinRequest
      BY <2>2, Kinds DEF Slot
    <2>4. RequestOK(p)
      BY <1>4, <2>2, <2>3 DEF RequestOK
    <2> QED
      BY <1>1, <1>2, <1>4, <2>1, <2>3, <2>4, RequestGoes
  <1>5. CASE FindInviteRoom(h)
    BY <1>1, <1>3, <1>4, <1>5 DEF FindInviteRoom
  <1>6. CASE VerifyInviter(h)
    <2>1. Exists(q.room)
      BY <1>1, <1>6, Facts DEF VerifyInviter, At, RequestOK
    <2> QED
      BY <1>1, <1>3, <1>4, <1>6, <2>1 DEF VerifyInviter
  <1> QED
    BY <1>5, <1>6

\* A join request goes on with what its query found, in the room it names.
LEMMA JoinGoes ==
  ASSUME IInv, NEW h \in Requests, NEW q \in JoinRequest, q = request[h],
         NEW pc \in {"join invite", "join find", "join insert", "join answer"},
         Goto(h, pc), UNCHANGED <<clock, isPrivate, rows, invites, joined>>,
         pc = "join invite" => q.invite # None,
         pc \in {"join find", "join insert"} =>
           Exists(q.room) /\ (isPrivate[q.room] = FALSE \/ Invited(q.user, q.room)),
         pc = "join answer" => IsMember(q.user, q.room)
  PROVE  IInv'
  <1>1. PICK p : p = [q EXCEPT !.pc = pc]
    OBVIOUS
  <1>2. p \in JoinRequest /\ p.pc = pc /\ p.user = q.user /\ p.room = q.room
        /\ p.invite = q.invite
    BY <1>1 DEF JoinRequest
  <1>3. q.invite \in invites \cup {None}
    BY Facts DEF RequestOK
  <1>4. RequestOK(p)
    BY <1>2, <1>3 DEF RequestOK
  <1> QED
    BY <1>1, <1>2, <1>4, RequestGoes DEF Slot

\* The room of the path says whether an invite is needed.
LEMMA FindJoinRoomKeeps ==
  ASSUME IInv, NEW h \in Requests, FindJoinRoom(h)
  PROVE  IInv'
  <1>1. PICK q \in JoinRequest : q = request[h] /\ q.room \in Rooms
    BY Facts, Kinds DEF FindJoinRoom, At
  <1>2. UNCHANGED <<clock, isPrivate, rows, invites, joined>>
    BY DEF FindJoinRoom
  <1>3. isPrivate[q.room] \in {TRUE, FALSE} \/ ~Exists(q.room)
    BY <1>1 DEF IInv, Typed, Exists
  <1>4. CASE ~Exists(q.room)
    <2>1. isPrivate[q.room] = None /\ None \notin BOOLEAN
      BY <1>4, RoomsAssumption DEF Exists
    <2>2. Done(h)
      BY <1>1, <1>4, <2>1 DEF FindJoinRoom
    <2> QED
      BY <1>2, <2>2, RequestEnds
  <1>5. CASE Exists(q.room) /\ isPrivate[q.room] = FALSE
    <2>1. Goto(h, "join find")
      BY <1>1, <1>5 DEF FindJoinRoom
    <2> QED
      BY <1>1, <1>2, <1>5, <2>1, JoinGoes
  <1>6. CASE Exists(q.room) /\ isPrivate[q.room] = TRUE
    <2>1. IF q.invite = None THEN Done(h) ELSE Goto(h, "join invite")
      BY <1>1, <1>6 DEF FindJoinRoom
    <2> QED
      BY <1>1, <1>2, <2>1, JoinGoes, RequestEnds
  <1> QED
    BY <1>3, <1>4, <1>5, <1>6

\* The invite names the user, and the private room that is joined.
LEMMA VerifyInviteKeeps ==
  ASSUME IInv, NEW h \in Requests, VerifyInvite(h)
  PROVE  IInv'
  <1>1. PICK q \in JoinRequest : q = request[h]
    BY Facts, Kinds DEF VerifyInvite, At
  <1>2. PICK i \in invites : i = q.invite /\ i \in Invite /\ i.r \in Rooms
    BY <1>1, Facts DEF VerifyInvite, At, RequestOK, IInv, Typed, Invite
  <1>3. UNCHANGED <<clock, isPrivate, rows, invites, joined>>
    BY DEF VerifyInvite
  <1>4. CASE Done(h)
    BY <1>3, <1>4, RequestEnds
  <1>5. CASE ~Done(h)
    <2>1. PICK p : p = [[q EXCEPT !.pc = "join find"] EXCEPT !.room = i.r]
      OBVIOUS
    <2>2. p \in JoinRequest /\ p.pc = "join find" /\ p.user = q.user /\ p.room = i.r
          /\ p.invite = i
      BY <1>2, <2>1 DEF JoinRequest
    <2>3. i.u = q.user /\ isPrivate[i.r] = TRUE
          /\ request' = [request EXCEPT ![h].pc = "join find", ![h].room = i.r]
      BY <1>1, <1>2, <1>5 DEF VerifyInvite
    <2>4. request' = [request EXCEPT ![h] = p]
      BY <1>1, <2>1, <2>3 DEF IInv, Typed
    <2>5. Exists(i.r) /\ Invited(p.user, p.room)
      BY <1>2, <2>2, <2>3, RoomsAssumption DEF Exists, Invited
    <2>6. RequestOK(p)
      BY <2>2, <2>5 DEF RequestOK
    <2> QED
      BY <1>3, <2>2, <2>4, <2>6, RequestMoves DEF Slot
  <1> QED
    BY <1>4, <1>5

\* Already a member, or about to be one.
LEMMA FindMembershipKeeps ==
  ASSUME IInv, NEW h \in Requests, FindMembership(h)
  PROVE  IInv'
  <1>1. PICK q \in JoinRequest : q = request[h]
    BY Facts, Kinds DEF FindMembership, At
  <1>2. /\ Exists(q.room) /\ (isPrivate[q.room] = FALSE \/ Invited(q.user, q.room))
        /\ UNCHANGED <<clock, isPrivate, rows, invites, joined>>
    BY <1>1, Facts DEF FindMembership, At, RequestOK
  <1>3. CASE IsMember(q.user, q.room)
    BY <1>1, <1>2, <1>3, JoinGoes DEF FindMembership
  <1>4. CASE ~IsMember(q.user, q.room)
    BY <1>1, <1>2, <1>4, JoinGoes DEF FindMembership
  <1> QED
    BY <1>3, <1>4

\* A request that arrives knows nothing; an invite it brings was handed out.
LEMMA ArrivalKeeps ==
  ASSUME IInv, NEW h \in Requests, NEW u \in Users, NEW r \in Rooms,
         \/ \E invitee \in Users : StartInvite(h, u, r, invitee)
         \/ \E invite \in invites \cup {None} : StartJoin(h, u, r, invite)
  PROVE  IInv'
  <1>1. ASSUME NEW v \in Users, StartInvite(h, u, r, v)
        PROVE  IInv'
    <2>1. PICK q : q = [pc |-> "invite room", user |-> u, room |-> r, invitee |-> v]
      OBVIOUS
    <2>2. q \in InviteRequest /\ q.pc = "invite room"
      BY <2>1 DEF InviteRequest
    <2>3. q \in Slot /\ q \notin JoinRequest
      BY <2>2, Kinds DEF Slot
    <2>4. RequestOK(q)
      BY <2>2, <2>3 DEF RequestOK
    <2> QED
      BY <1>1, <2>1, <2>3, <2>4, RequestMoves DEF StartInvite
  <1>2. ASSUME NEW i \in invites \cup {None}, StartJoin(h, u, r, i)
        PROVE  IInv'
    <2>1. PICK q : q = [pc |-> "join room", user |-> u, room |-> r, invite |-> i]
      OBVIOUS
    <2>2. q \in JoinRequest /\ q.pc = "join room" /\ q.invite = i
      BY <2>1 DEF JoinRequest, IInv, Typed
    <2>3. RequestOK(q)
      BY <2>2 DEF RequestOK
    <2> QED
      BY <1>2, <2>1, <2>2, <2>3, RequestMoves DEF StartJoin, Slot
  <1> QED
    BY <1>1, <1>2

\* Time passes: memberships and invites keep their stamps.
LEMMA TickKeeps ==
  ASSUME IInv, Tick
  PROVE  IInv'
  <1>1. clock' \in Nat /\ UNCHANGED <<isPrivate, rows, invites, request, joined>>
    BY DEF Tick, IInv, Typed
  <1>2. Typed' /\ TablesOK'
    BY <1>1 DEF IInv, Typed, TablesOK, Owned, Exists, IsMember
  <1>3. MembershipUnique' /\ PrivateByInvitation' /\ JoinedIsMember'
    BY <1>1 DEF IInv, MembershipUnique, PrivateByInvitation, JoinedIsMember, IsMember
  <1>4. \A h \in Requests : RequestOK(request[h])'
    BY <1>1 DEF IInv, RequestOK, Exists, IsMember, Invited
  <1> QED
    BY <1>2, <1>3, <1>4 DEF IInv

\* A step of something else.
LEMMA StutterKeeps ==
  ASSUME IInv, UNCHANGED vars
  PROVE  IInv'
  <1>1. UNCHANGED <<clock, isPrivate, rows, invites, request, joined>>
    BY DEF vars
  <1>2. Typed' /\ TablesOK'
    BY <1>1 DEF IInv, Typed, TablesOK, Owned, Exists, IsMember
  <1>3. MembershipUnique' /\ PrivateByInvitation' /\ JoinedIsMember'
    BY <1>1 DEF IInv, MembershipUnique, PrivateByInvitation, JoinedIsMember, IsMember
  <1>4. \A h \in Requests : RequestOK(request[h])'
    BY <1>1 DEF IInv, RequestOK, Exists, IsMember, Invited
  <1> QED
    BY <1>2, <1>3, <1>4 DEF IInv

\* At the start there is no room, no member and no request.
LEMMA InitOK == Init => IInv
  <1> SUFFICES ASSUME Init PROVE IInv
    OBVIOUS
  <1>1. Typed
    BY FreeSlot, RoomsAssumption DEF Init, Typed
  <1>2. \A r \in Rooms : ~Exists(r)
    BY DEF Init, Exists
  <1>3. TablesOK
    BY <1>2 DEF Init, TablesOK
  <1>4. MembershipUnique /\ PrivateByInvitation /\ JoinedIsMember
    BY DEF Init, MembershipUnique, PrivateByInvitation, JoinedIsMember
  <1>5. \A h \in Requests : RequestOK(request[h])
    BY FreeSlot DEF Init
  <1> QED
    BY <1>1, <1>3, <1>4, <1>5 DEF IInv

\* The invariant of RoomsService: the tables are as promised, and every request
\* in flight is right about its room.
THEOREM Invariance == Spec => []IInv
  <1>1. IInv /\ [Next]_vars => IInv'
    <2> SUFFICES ASSUME IInv, [Next]_vars PROVE IInv'
      OBVIOUS
    <2>1. ASSUME NEW u \in Users, NEW r \in Rooms, NEW private \in BOOLEAN,
                 CreateRoom(u, r, private)
          PROVE  IInv'
      BY <2>1, CreateRoomKeeps
    <2>2. ASSUME NEW h \in Requests, NEW u \in Users, NEW r \in Rooms,
                 \/ \E invitee \in Users : StartInvite(h, u, r, invitee)
                 \/ \E invite \in invites \cup {None} : StartJoin(h, u, r, invite)
          PROVE  IInv'
      BY <2>2, ArrivalKeeps
    <2>3. ASSUME NEW h \in Requests, Step(h) PROVE IInv'
      <3>1. CASE FindInviteRoom(h) \/ VerifyInviter(h)
        BY <3>1, InviteStepsKeep
      <3>2. CASE IssueInvite(h)
        BY <3>2, IssueInviteKeeps
      <3>3. CASE FindJoinRoom(h)
        BY <3>3, FindJoinRoomKeeps
      <3>4. CASE VerifyInvite(h)
        BY <3>4, VerifyInviteKeeps
      <3>5. CASE FindMembership(h)
        BY <3>5, FindMembershipKeeps
      <3>6. CASE InsertMembership(h)
        BY <3>6, InsertMembershipKeeps
      <3>7. CASE AnswerJoin(h)
        BY <3>7, AnswerJoinKeeps
      <3>8. CASE DbError(h)
        BY <3>8, RequestEnds DEF DbError
      <3> QED
        BY <2>3, <3>1, <3>2, <3>3, <3>4, <3>5, <3>6, <3>7, <3>8 DEF Step
    <2> QED
      BY <2>1, <2>2, <2>3, TickKeeps, StutterKeeps DEF Next
  <1> QED
    BY InitOK, <1>1, PTL DEF Spec

------------------------------------------------------------------------------
\* TypeOK, and the invite a request decodes was handed out.
THEOREM TypeCorrect == Spec => []TypeOK
  <1>1. IInv => TypeOK
    BY DEF IInv, Typed, TypeOK, Slot, RequestOK, At
  <1> QED
    BY Invariance, <1>1, PTL

\* A room exists together with exactly one owner (createRoom, joinRoom).
THEOREM RoomOwned == Spec => []RoomsAreOwned
  <1>1. IInv => RoomsAreOwned
    <2> SUFFICES ASSUME IInv, NEW r \in Rooms
                 PROVE  Exists(r) <=>
                        Cardinality({row \in rows : row.room = r /\ row.role = "owner"}) = 1
      BY DEF RoomsAreOwned
    <2>1. CASE Exists(r)
      <3>1. PICK o \in rows :
              \A row \in rows : row.room = r /\ row.role = "owner" <=> row = o
        BY <2>1 DEF IInv, TablesOK, Owned
      <3>2. {row \in rows : row.room = r /\ row.role = "owner"} = {o}
        BY <3>1
      <3> QED
        BY <2>1, <3>2, FS_Singleton
    <2>2. CASE ~Exists(r)
      <3>1. {row \in rows : row.room = r /\ row.role = "owner"} = {}
        BY <2>2 DEF IInv, TablesOK
      <3> QED
        BY <2>2, <3>1, FS_EmptySet
    <2> QED
      BY <2>1, <2>2
  <1> QED
    BY Invariance, <1>1, PTL

\* However many requests race, a user has one row in a room (joinRoom, and the
\* unique constraint of room_members).
THEOREM OneMembership == Spec => []MembershipUnique
  <1>1. IInv => MembershipUnique
    BY DEF IInv
  <1> QED
    BY Invariance, <1>1, PTL

\* Who is in a private room without having founded it was invited to it by a
\* member (inviteUserToRoom, joinRoom).
THEOREM PrivateInvited == Spec => []PrivateByInvitation
  <1>1. IInv => PrivateByInvitation
    BY DEF IInv
  <1> QED
    BY Invariance, <1>1, PTL

\* Whoever is told "Joined room" is a member (joinRoom).
THEOREM JoinedMember == Spec => []JoinedIsMember
  <1>1. IInv => JoinedIsMember
    BY DEF IInv
  <1> QED
    BY Invariance, <1>1, PTL
------------------------------------------------------------------------------
\* A room of the promise is what its row says.
LEMMA KindOf ==
  ASSUME Typed, NEW r \in Rooms
  PROVE  /\ ~Exists(r) => kind[r] = None
         /\ isPrivate[r] = TRUE => kind[r] = "private"
         /\ isPrivate[r] = FALSE => kind[r] = "public"
         /\ Exists(r) => kind[r] # None
  <1>1. isPrivate[r] \in {TRUE, FALSE, None} /\ None # TRUE /\ None # FALSE
        /\ None # "private" /\ None # "public"
    BY RoomsAssumption DEF Typed
  <1>2. ~Exists(r) => kind[r] = None
    BY <1>1 DEF kind, Exists
  <1>3. isPrivate[r] = TRUE => kind[r] = "private"
    BY <1>1 DEF kind, Exists
  <1>4. isPrivate[r] = FALSE => kind[r] = "public"
    BY <1>1 DEF kind, Exists
  <1> QED
    BY <1>1, <1>2, <1>3, <1>4 DEF Exists

\* The tables are all that the promise sees.
LEMMA Hidden ==
  /\ UNCHANGED isPrivate => UNCHANGED kind
  /\ UNCHANGED rows => UNCHANGED members
  /\ UNCHANGED invites => UNCHANGED invited
  <1>1. UNCHANGED isPrivate => UNCHANGED kind
    BY DEF kind, Exists
  <1>2. UNCHANGED rows => UNCHANGED members
    BY DEF members
  <1>3. UNCHANGED invites => UNCHANGED invited
    BY DEF invited
  <1> QED
    BY <1>1, <1>2, <1>3

\* A room is founded.
LEMMA CreateRoomFounds ==
  ASSUME IInv, NEW u \in Users, NEW r \in Rooms, NEW private \in BOOLEAN,
         CreateRoom(u, r, private)
  PROVE  Promise!Found(u, r)
  <1>1. PICK o : o = NewRow(u, r, "owner")
    OBVIOUS
  <1>2. /\ ~Exists(r) /\ isPrivate' = [isPrivate EXCEPT ![r] = private]
        /\ rows' = rows \cup {o} /\ o.room = r /\ o.member = u
        /\ UNCHANGED invites
    BY <1>1 DEF CreateRoom, NewRow
  <1>3. \A row \in rows : row.room # r
    BY <1>2 DEF IInv, TablesOK
  <1>4. kind[r] = None
    BY <1>2, KindOf DEF IInv
  <1>5. members' = [members EXCEPT ![r] = {u}]
    <2>1. ASSUME NEW x \in Rooms
          PROVE  {row.member : row \in {y \in rows' : y.room = x}}
                 = IF x = r THEN {u} ELSE {row.member : row \in {y \in rows : y.room = x}}
      BY <1>2, <1>3
    <2> QED
      BY <2>1 DEF members
  <1>6. \E k \in {"public", "private"} : kind' = [kind EXCEPT ![r] = k]
    <2>1. PICK k \in {"public", "private"} : k = IF private = TRUE THEN "private" ELSE "public"
      OBVIOUS
    <2>2. private # None /\ isPrivate'[r] = private
          /\ \A x \in Rooms \ {r} : isPrivate'[x] = isPrivate[x]
      BY <1>2, RoomsAssumption DEF IInv, Typed
    <2>3. kind'[r] = k
      BY <2>1, <2>2 DEF kind, Exists
    <2>4. \A x \in Rooms \ {r} : kind'[x] = kind[x]
      BY <2>2 DEF kind, Exists
    <2>5. kind = [x \in Rooms |-> kind[x]] /\ kind' = [x \in Rooms |-> kind'[x]]
      BY DEF kind
    <2> QED
      BY <2>3, <2>4, <2>5
  <1>7. UNCHANGED invited
    BY <1>2 DEF invited
  <1> QED
    BY <1>4, <1>5, <1>6, <1>7 DEF Promise!Found

\* A member invites who is none, or nothing is promised.
LEMMA IssueInviteInvites ==
  ASSUME IInv, NEW h \in Requests, IssueInvite(h)
  PROVE  \/ \E host, u \in Users, r \in Rooms : Promise!Invite(host, u, r)
         \/ UNCHANGED <<kind, members, invited>>
  <1>1. PICK q \in InviteRequest : q = request[h] /\ RequestOK(q)
    BY Facts, Kinds DEF IssueInvite, At
  <1>2. /\ q.user \in Users /\ q.room \in Rooms /\ q.invitee \in Users
        /\ isPrivate[q.room] = TRUE /\ IsMember(q.user, q.room)
    BY <1>1 DEF InviteRequest, RequestOK, IssueInvite, At
  <1>3. UNCHANGED <<kind, members>>
    BY Hidden DEF IssueInvite
  <1>4. CASE IsMember(q.invitee, q.room)
    <2>1. invites' = invites
      BY <1>1, <1>4 DEF IssueInvite
    <2> QED
      BY <1>3, <2>1 DEF invited
  <1>5. CASE ~IsMember(q.invitee, q.room)
    <2>1. PICK i : i = [u |-> q.invitee, r |-> q.room, exp |-> clock + Validity,
                        by |-> q.user]
      OBVIOUS
    <2>2. invites' = invites \cup {i} /\ i.u = q.invitee /\ i.r = q.room /\ i.by = q.user
      BY <1>1, <1>5, <2>1 DEF IssueInvite
    <2>3. invited' = invited \cup {<<q.user, q.invitee, q.room>>}
      BY <2>2 DEF invited
    <2>4. q.user \in members[q.room] /\ q.invitee \notin members[q.room]
      BY <1>2, <1>5 DEF members, IsMember
    <2>5. kind[q.room] = "private"
      BY <1>2, KindOf DEF IInv
    <2> QED
      BY <1>2, <1>3, <2>3, <2>4, <2>5 DEF Promise!Invite
  <1> QED
    BY <1>4, <1>5

\* A user is admitted, or another request was first.
LEMMA InsertMembershipAdmits ==
  ASSUME IInv, NEW h \in Requests, InsertMembership(h)
  PROVE  \/ \E u \in Users, r \in Rooms : kind[r] # None /\ Promise!Admit(u, r)
         \/ UNCHANGED <<kind, members, invited>>
  <1>1. PICK q \in JoinRequest : q = request[h] /\ RequestOK(q)
    BY Facts, Kinds DEF InsertMembership, At
  <1>2. /\ q.user \in Users /\ q.room \in Rooms /\ Exists(q.room)
        /\ isPrivate[q.room] = FALSE \/ Invited(q.user, q.room)
    BY <1>1 DEF JoinRequest, RequestOK, InsertMembership, At
  <1>3. UNCHANGED <<kind, invited>>
    BY Hidden DEF InsertMembership
  <1>4. CASE ~Insertable(q.user, q.room)
    <2>1. rows' = rows
      BY <1>1, <1>4 DEF InsertMembership
    <2> QED
      BY <1>3, <2>1 DEF members
  <1>5. CASE Insertable(q.user, q.room)
    <2>1. PICK n : n = NewRow(q.user, q.room, "member")
      OBVIOUS
    <2>2. rows' = rows \cup {n} /\ n.room = q.room /\ n.member = q.user
      BY <1>1, <1>5, <2>1 DEF InsertMembership, NewRow
    <2>3. ASSUME NEW x \in Rooms
          PROVE  {row.member : row \in {y \in rows' : y.room = x}}
                 = {row.member : row \in {y \in rows : y.room = x}}
                   \cup (IF x = q.room THEN {q.user} ELSE {})
      BY <2>2
    <2>4. members' = [members EXCEPT ![q.room] = @ \cup {q.user}]
      BY <2>3 DEF members
    <2>5. q.user \notin members[q.room]
      BY <1>2, <1>5 DEF members, Insertable, IsMember
    <2>6. kind[q.room] = "public" \/ \E host \in Users : <<host, q.user, q.room>> \in invited
      <3>1. CASE isPrivate[q.room] = FALSE
        BY <1>2, <3>1, KindOf DEF IInv
      <3>2. CASE Invited(q.user, q.room)
        <4>1. PICK i \in invites : i.u = q.user /\ i.r = q.room /\ i.by \in Users
          BY <3>2 DEF Invited, IInv, Typed, Invite
        <4> QED
          BY <4>1 DEF invited
      <3> QED
        BY <1>2, <3>1, <3>2
    <2>7. kind[q.room] # None
      BY <1>2, KindOf DEF IInv
    <2> QED
      BY <1>2, <1>3, <2>4, <2>5, <2>6, <2>7 DEF Promise!Admit
  <1> QED
    BY <1>4, <1>5

\* Every step is one of Membership, or changes nothing it speaks of.
LEMMA StepRefines ==
  ASSUME IInv, [Next]_vars
  PROVE  [Promise!Next]_<<kind, members, invited>>
  <1>1. ASSUME NEW u \in Users, NEW r \in Rooms, NEW private \in BOOLEAN,
               CreateRoom(u, r, private)
        PROVE  Promise!Next
    BY <1>1, CreateRoomFounds DEF Promise!Next
  <1>2. ASSUME NEW h \in Requests, NEW u \in Users, NEW r \in Rooms,
               \/ \E invitee \in Users : StartInvite(h, u, r, invitee)
               \/ \E invite \in invites \cup {None} : StartJoin(h, u, r, invite)
        PROVE  UNCHANGED <<isPrivate, rows, invites>>
    BY <1>2 DEF StartInvite, StartJoin
  <1>3. ASSUME NEW h \in Requests, Step(h)
        PROVE  [Promise!Next]_<<kind, members, invited>>
    <2>1. CASE IssueInvite(h)
      BY <2>1, IssueInviteInvites DEF Promise!Next
    <2>2. CASE InsertMembership(h)
      BY <2>2, InsertMembershipAdmits DEF Promise!Next
    <2>3. CASE \/ FindInviteRoom(h) \/ VerifyInviter(h) \/ FindJoinRoom(h)
               \/ VerifyInvite(h) \/ FindMembership(h) \/ AnswerJoin(h) \/ DbError(h)
      <3>1. UNCHANGED <<isPrivate, rows, invites>>
        BY <2>3 DEF FindInviteRoom, VerifyInviter, FindJoinRoom, VerifyInvite,
                    FindMembership, AnswerJoin, DbError
      <3> QED
        BY <3>1, Hidden
    <2> QED
      BY <1>3, <2>1, <2>2, <2>3 DEF Step
  <1>4. CASE Tick \/ UNCHANGED vars
    <2>1. UNCHANGED <<isPrivate, rows, invites>>
      BY <1>4 DEF Tick, vars
    <2> QED
      BY <2>1, Hidden
  <1> QED
    BY <1>1, <1>2, <1>3, <1>4, Hidden DEF Next

\* The queries of RoomsService, however they interleave, found, invite and admit
\* as Membership allows, and never let a member go.
THEOREM Refinement == Spec => ImplementsMembership
  <1>1. Init => Promise!Init
    <2> SUFFICES ASSUME Init PROVE Promise!Init
      OBVIOUS
    <2>1. kind = [r \in Rooms |-> None]
      <3>1. \A r \in Rooms : kind[r] = None
        BY InitOK, KindOf DEF IInv, Init, Exists
      <3> QED
        BY <3>1 DEF kind
    <2>2. members = [r \in Rooms |-> {}]
      BY DEF Init, members
    <2>3. invited = {}
      BY DEF Init, invited
    <2> QED
      BY <2>1, <2>2, <2>3 DEF Promise!Init
  <1>2. IInv /\ [Next]_vars => [Promise!Next]_<<kind, members, invited>>
    BY StepRefines
  <1> QED
    BY Invariance, <1>1, <1>2, PTL DEF Spec, ImplementsMembership, Promise!Spec,
       Promise!membershipVars
===============================================================================
