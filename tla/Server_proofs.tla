---------------------------- MODULE Server_proofs ----------------------------
(***************************************************************************)
(* Proofs about Server for every number of requests, sockets, shutdowns    *)
(* and outages, and every set of routes: its types, that nobody is served  *)
(* without a session once Redis is closed, that an error of Redis never    *)
(* fails a request about rooms, and why a user whose client has left may   *)
(* be left shown online.                                                   *)
(*                                                                         *)
(* What is said of requests rests on what Redis can do: closed, it stays   *)
(* closed.  A request that arrived after that is still to be refused, or   *)
(* was refused; which needs that an answer, once given, is the last thing  *)
(* that happens to a request.  For the rooms it is a matter of the table   *)
(* of routes.  What is said of sockets needs that a socket whose user was  *)
(* not set online yet is not shown as such.                                *)
(***************************************************************************)
EXTENDS Server, TLAPS

\* What holds of a request in flight.
RequestOK(r) ==
    /\ r.pc = "serve" => r.at \in 1..Len(RouteOf(r.route).stages)
    /\ r.code # 0 => r.pc = "answered"
    /\ r.late => redis = "quit"
    /\ r.late /\ RouteOf(r.route).guarded => r.pc \in {"extract", "guest"} \/ r.code = 401
    /\ r.route \in DOMAIN RoomRoutes /\ r.code = 500 => r.dbFailed

Typed ==
    /\ stage \in Stages
    /\ redis \in {"up", "away", "quit"}
    /\ outages \in 0..MaxOutages
    /\ request \in [Requests -> InFlightRequest \cup {NoRequest}]
    /\ socket \in [Sockets -> SocketPhases]
    /\ online \subseteq Sockets
    /\ beats \subseteq Sockets
    /\ stop \in [Stops -> StopPCs]

\* setUserOnline has not been answered.
Before == {"none", "handshake", "opening", "early"}

NotYetOnline == \A s \in online \cup beats : socket[s] \notin Before

\* What was issued before QUIT has been executed.
NoneAhead == redis = "quit" => \A s \in Sockets : socket[s] # "presence"

IInv ==
    /\ Typed
    /\ NotYetOnline
    /\ NoneAhead
    /\ \A q \in Requests : InFlight(q) => RequestOK(request[q])

\* Closed, Redis stays closed.
StaysQuit == redis = "quit" => redis' = "quit"

------------------------------------------------------------------------------
\* The routes: each service has one to three stages, and no stage of a request
\* about rooms that asks Redis lets its error through.
LEMMA Stages13 ==
  ASSUME NEW name \in RouteNames
  PROVE  Len(RouteOf(name).stages) \in 1..3
  <1>1. CASE name = "home"
    <2>1. RouteOf(name) = Home
      BY <1>1 DEF RouteOf, AuthRoutes, RoomRoutes
    <2>2. Home.stages = HealthCheck
      BY DEF Home, Route
    <2> QED
      BY <2>1, <2>2 DEF HealthCheck
  <1>2. CASE name \in DOMAIN AuthRoutes
    <2>1. AuthRoutes[name].stages \in {Register, Login, <<SessionKeys>>}
      BY <1>2 DEF AuthRoutes, Route, Logout
    <2>2. name # "home"
      BY <1>2 DEF AuthRoutes
    <2>3. RouteOf(name) = AuthRoutes[name]
      BY <1>2, <2>2 DEF RouteOf, AuthRoutes, RoomRoutes
    <2> QED
      BY <2>1, <2>3 DEF Register, Login
  <1>3. CASE name \in DOMAIN RoomRoutes
    <2>1. RoomRoutes[name].stages \in
            {CreateRoom, ListUserRooms, JoinRoom, InviteUserToRoom, GetRoomMessages,
             GetRoomMembers, GetRoomPresence, GetMessageReceipts}
      BY <1>3 DEF RoomRoutes, RoomRoute, Route
    <2>2. RouteOf(name) = RoomRoutes[name]
      BY <1>3 DEF RouteOf, AuthRoutes, RoomRoutes
    <2> QED
      BY <2>1, <2>2 DEF CreateRoom, ListUserRooms, JoinRoom, InviteUserToRoom,
         GetRoomMessages, GetRoomMembers, GetRoomPresence, GetMessageReceipts
  <1> QED
    BY <1>1, <1>2, <1>3 DEF RouteNames

\* The services of the room routes catch every error of Redis.
LEMMA RoomsMaskRedis ==
  ASSUME NEW name \in DOMAIN RoomRoutes,
         NEW i \in 1..Len(RouteOf(name).stages),
         RouteOf(name).stages[i].store # "database"
  PROVE  RouteOf(name).stages[i].masked
  <1>1. RoomRoutes[name].stages \in
          {CreateRoom, ListUserRooms, JoinRoom, InviteUserToRoom, GetRoomMessages,
           GetRoomMembers, GetRoomPresence, GetMessageReceipts}
    BY DEF RoomRoutes, RoomRoute, Route
  <1>2. RouteOf(name) = RoomRoutes[name]
    BY DEF RouteOf, AuthRoutes, RoomRoutes
  <1>3. PICK s : s = RouteOf(name).stages[i]
    OBVIOUS
  <1>4. s \in {Checked, Plain, ReceiptsOfPage, MarkPageRead, PresenceOfUsers,
               UsersInRoom, ReceiptsOfMessage}
    BY <1>1, <1>2, <1>3 DEF CreateRoom, ListUserRooms, JoinRoom, InviteUserToRoom,
       GetRoomMessages, GetRoomMembers, GetRoomPresence, GetMessageReceipts
  <1>5. s.store = "database" \/ s.masked
    BY <1>4 DEF Checked, Plain, ReceiptsOfPage, MarkPageRead, PresenceOfUsers,
       UsersInRoom, ReceiptsOfMessage, Stage
  <1> QED
    BY <1>3, <1>5

\* A request that is somewhere is in flight.
LEMMA Somewhere ==
  ASSUME IInv, NEW q \in Requests, request[q].pc # "idle"
  PROVE  request[q] \in InFlightRequest /\ RequestOK(request[q])
  <1>1. request[q] # NoRequest
    BY DEF NoRequest
  <1> QED
    BY <1>1 DEF IInv, Typed, InFlight

\* A record of the set of requests in flight is not an empty slot.
LEMMA IsInFlight ==
  ASSUME NEW r \in InFlightRequest
  PROVE  r # NoRequest
  BY DEF InFlightRequest, NoRequest

------------------------------------------------------------------------------
\* One request moves, everything else stays.
LEMMA RequestMoves ==
  ASSUME IInv, NEW q \in Requests, NEW r \in InFlightRequest \cup {NoRequest},
         r \in InFlightRequest => RequestOK(r),
         request' = [request EXCEPT ![q] = r],
         UNCHANGED <<stage, redis, outages, socket, online, beats, stop>>
  PROVE  IInv'
  <1>1. Typed' /\ NotYetOnline' /\ NoneAhead'
    BY DEF IInv, Typed, NotYetOnline, NoneAhead
  <1>2. ASSUME NEW p \in Requests, InFlight(p)'
        PROVE  RequestOK(request[p])'
    <2>1. CASE p = q
      <3>1. request'[p] = r /\ r \in InFlightRequest
        BY <1>2, <2>1 DEF IInv, Typed, InFlight
      <3> QED
        BY <3>1 DEF RequestOK
    <2>2. CASE p # q
      <3>1. request'[p] = request[p] /\ InFlight(p)
        BY <1>2, <2>2 DEF IInv, Typed, InFlight
      <3> QED
        BY <3>1 DEF IInv, RequestOK
    <2> QED
      BY <2>1, <2>2
  <1> QED
    BY <1>1, <1>2 DEF IInv

\* A request goes on without an answer.
LEMMA Goes ==
  ASSUME IInv, NEW q \in Requests, request[q].pc \notin {"idle", "answered"},
         NEW pc \in {"extract", "guest", "limit", "validate"},
         Goto(q, pc), request[q].late /\ RouteAt(q).guarded => pc = "guest",
         UNCHANGED <<stage, redis, outages, socket, online, beats, stop>>
  PROVE  IInv'
  <1>1. PICK o \in InFlightRequest : o = request[q] /\ RequestOK(o)
    BY Somewhere
  <1>2. PICK r : r = [o EXCEPT !.pc = pc]
    OBVIOUS
  <1>3. r \in InFlightRequest /\ r.pc = pc /\ r.route = o.route /\ r.at = o.at
        /\ r.late = o.late /\ r.dbFailed = o.dbFailed /\ r.code = o.code
    <2>1. pc \in RequestPCs
      BY DEF RequestPCs
    <2> QED
      BY <1>2, <2>1 DEF InFlightRequest
  <1>4. RequestOK(r)
    BY <1>1, <1>3 DEF RequestOK, RouteAt
  <1>5. request' = [request EXCEPT ![q] = r]
    BY <1>1, <1>2 DEF Goto, IInv, Typed
  <1> QED
    BY <1>3, <1>4, <1>5, RequestMoves

\* A request is answered, with a code that does not blame a store.
LEMMA Replies ==
  ASSUME IInv, NEW q \in Requests, request[q].pc \notin {"idle", "answered"},
         NEW code \in {200, 400, 401, 403, 429},
         Reply(q, code), request[q].late /\ RouteAt(q).guarded => code = 401,
         UNCHANGED <<stage, redis, outages, socket, online, beats, stop>>
  PROVE  IInv'
  <1>1. PICK o \in InFlightRequest : o = request[q] /\ RequestOK(o)
    BY Somewhere
  <1>2. PICK r : r = [o EXCEPT !.pc = "answered", !.code = code]
    OBVIOUS
  <1>3. r \in InFlightRequest /\ r.pc = "answered" /\ r.route = o.route /\ r.at = o.at
        /\ r.late = o.late /\ r.dbFailed = o.dbFailed /\ r.code = code
    <2>1. "answered" \in RequestPCs /\ code \in Codes
      BY DEF RequestPCs, Codes
    <2> QED
      BY <1>2, <2>1 DEF InFlightRequest
  <1>4. RequestOK(r)
    BY <1>1, <1>3 DEF RequestOK, RouteAt
  <1>5. request' = [request EXCEPT ![q] = r]
    BY <1>1, <1>2 DEF Reply, IInv, Typed
  <1> QED
    BY <1>3, <1>4, <1>5, RequestMoves

\* Whoever is past the guard of a route arrived before Redis was closed.
LEMMA PastGuard ==
  ASSUME IInv, NEW q \in Requests, request[q].pc \in {"limit", "validate", "serve"}
  PROVE  ~(request[q].late /\ RouteAt(q).guarded)
  <1>1. request[q].code # 0 => request[q].pc = "answered"
    BY Somewhere DEF RequestOK
  <1> QED
    BY <1>1, Somewhere DEF RequestOK, RouteAt

\* The next stage, or the answer.
LEMMA OnwardKeeps ==
  ASSUME IInv, NEW q \in Requests, At(q, "serve"), Onward(q),
         UNCHANGED <<stage, redis, outages, socket, online, beats, stop>>
  PROVE  IInv'
  <1>0. request[q].pc = "serve"
    BY DEF At
  <1>1. PICK o \in InFlightRequest : o = request[q] /\ RequestOK(o)
    BY <1>0, Somewhere
  <1>2. CASE request[q].at < Len(RouteAt(q).stages)
    <2>1. PICK r : r = [o EXCEPT !.at = o.at + 1]
      OBVIOUS
    <2>2. o.route \in RouteNames /\ o.at \in 0..3
      BY ServerAssumption DEF InFlightRequest
    <2>3. Len(RouteOf(o.route).stages) \in 1..3 /\ o.at \in 1..Len(RouteOf(o.route).stages)
      BY <1>0, <1>1, <2>2, Stages13 DEF RequestOK
    <2>4. o.at + 1 \in 1..Len(RouteOf(o.route).stages) /\ o.at + 1 \in 0..3
      <3>1. PICK n \in 1..3 : n = Len(RouteOf(o.route).stages)
        BY <2>3
      <3>2. PICK i \in 1..n : i = o.at
        BY <2>3, <3>1
      <3>3. i < n
        BY <1>1, <1>2, <3>1, <3>2 DEF RouteAt
      <3>4. i + 1 \in 1..n
        BY <3>3
      <3>5. i + 1 \in 0..3
        BY <3>3
      <3> QED
        BY <3>1, <3>2, <3>4, <3>5
    <2>5. r \in InFlightRequest /\ r.pc = o.pc /\ r.route = o.route /\ r.at = o.at + 1
          /\ r.late = o.late /\ r.dbFailed = o.dbFailed /\ r.code = o.code
      BY <2>1, <2>4 DEF InFlightRequest
    <2>6. RequestOK(r)
      BY <1>1, <2>4, <2>5 DEF RequestOK
    <2>7. request' = [request EXCEPT ![q] = r]
      BY <1>1, <1>2, <2>1 DEF Onward, IInv, Typed
    <2> QED
      BY <2>5, <2>6, <2>7, RequestMoves
  <1>3. CASE ~(request[q].at < Len(RouteAt(q).stages))
    <2>1. Reply(q, 200)
      BY <1>3 DEF Onward
    <2> QED
      BY <1>0, <2>1, PastGuard, Replies
  <1> QED
    BY <1>2, <1>3

------------------------------------------------------------------------------
\* A request arrives; after Redis is closed it is late, and still to be refused.
LEMMA ArriveKeeps ==
  ASSUME IInv, NEW q \in Requests, NEW name \in Served, Arrive(q, name)
  PROVE  IInv'
  <1>1. PICK pc \in {"extract", "guest"} :
          request' = [request EXCEPT ![q] = Request(pc, name, 0, redis = "quit", FALSE, 0)]
    BY DEF Arrive
  <1>2. PICK late \in BOOLEAN : late = (redis = "quit")
    OBVIOUS
  <1>3. PICK r : r = Request(pc, name, 0, late, FALSE, 0)
    OBVIOUS
  <1>4. r \in InFlightRequest /\ r.pc = pc /\ r.late = late /\ r.code = 0
    BY <1>3 DEF Request, InFlightRequest, RequestPCs, Codes
  <1>5. RequestOK(r)
    <2>1. r.late => redis = "quit"
      BY <1>2, <1>4, Zenon
    <2>2. r.pc # "serve" /\ r.pc \in {"extract", "guest"} /\ r.code = 0
      BY <1>4
    <2> QED
      BY <2>1, <2>2 DEF RequestOK
  <1>6. request' = [request EXCEPT ![q] = r]
    BY <1>1, <1>2, <1>3
  <1> QED
    BY <1>4, <1>5, <1>6, RequestMoves DEF Arrive

\* A step of a request on its way.
LEMMA RequestStepKeeps ==
  ASSUME IInv, NEW q \in Requests, RequestStep(q)
  PROVE  IInv'
  <1>1. CASE Extract(q)
    <2>1. request[q].pc = "extract" /\ UNCHANGED <<stage, redis, outages, socket, online, beats, stop>>
      BY <1>1 DEF Extract, At
    <2>2. CASE Goto(q, "guest")
      BY <2>1, <2>2, Goes
    <2>3. CASE redis = "up" /\ Goto(q, Admitted(request[q].route))
      <3>1. ~request[q].late
        BY <2>1, <2>3, Somewhere DEF RequestOK
      <3>2. Admitted(request[q].route) \in {"limit", "validate"}
        BY DEF Admitted
      <3> QED
        BY <2>1, <2>3, <3>1, <3>2, Goes
    <2> QED
      BY <1>1, <2>2, <2>3 DEF Extract
  <1>2. CASE Authorize(q)
    <2>1. request[q].pc = "guest" /\ UNCHANGED <<stage, redis, outages, socket, online, beats, stop>>
      BY <1>2 DEF Authorize, At
    <2>2. CASE RouteAt(q).guarded
      BY <1>2, <2>1, <2>2, Replies DEF Authorize
    <2>3. CASE ~RouteAt(q).guarded
      BY <1>2, <2>1, <2>3, Goes DEF Authorize
    <2> QED
      BY <2>2, <2>3
  <1>3. CASE CheckLimit(q)
    <2>1. request[q].pc = "limit" /\ UNCHANGED <<stage, redis, outages, socket, online, beats, stop>>
      BY <1>3 DEF CheckLimit, At
    <2> QED
      BY <1>3, <2>1, PastGuard, Goes, Replies DEF CheckLimit
  <1>4. CASE Validate(q)
    <2>1. request[q].pc = "validate"
          /\ UNCHANGED <<stage, redis, outages, socket, online, beats, stop>>
      BY <1>4 DEF Validate, At
    <2>2. CASE Reply(q, 400)
      BY <2>1, <2>2, PastGuard, Replies
    <2>3. CASE request' = [request EXCEPT ![q].pc = "serve", ![q].at = 1]
      <3>1. PICK o \in InFlightRequest : o = request[q] /\ RequestOK(o)
        BY <2>1, Somewhere
      <3>2. PICK r : r = [o EXCEPT !.pc = "serve", !.at = 1]
        OBVIOUS
      <3>3. r \in InFlightRequest /\ r.pc = "serve" /\ r.route = o.route /\ r.at = 1
            /\ r.late = o.late /\ r.dbFailed = o.dbFailed /\ r.code = o.code
        <4>1. "serve" \in RequestPCs
          BY DEF RequestPCs
        <4>2. 1 \in 0..3
          OBVIOUS
        <4>3. r \in InFlightRequest
          BY <3>2, <4>1, <4>2 DEF InFlightRequest
        <4> QED
          BY <3>2, <4>3 DEF InFlightRequest
      <3>4. r.at \in 1..Len(RouteOf(r.route).stages)
        <4>1. r.route \in RouteNames
          BY <3>3, ServerAssumption DEF InFlightRequest
        <4>2. Len(RouteOf(r.route).stages) \in 1..3
          BY <4>1, Stages13
        <4>3. \A n \in 1..3 : 1 \in 1..n
          OBVIOUS
        <4> QED
          BY <3>3, <4>2, <4>3
      <3>5. ~(o.late /\ RouteOf(o.route).guarded) /\ o.code = 0
        BY <2>1, <3>1, PastGuard DEF RouteAt, RequestOK
      <3>6. RequestOK(r)
        BY <3>1, <3>3, <3>4, <3>5 DEF RequestOK
      <3>7. request' = [request EXCEPT ![q] = r]
        BY <2>3, <3>1, <3>2 DEF IInv, Typed
      <3> QED
        BY <2>1, <3>3, <3>6, <3>7, RequestMoves
    <2> QED
      BY <1>4, <2>2, <2>3 DEF Validate
  <1>5. CASE Serve(q)
    BY <1>5, OnwardKeeps DEF Serve
  <1>6. CASE Refuse(q)
    <2>1. request[q].pc = "serve"
      BY <1>6 DEF Refuse, At
    <2> QED
      BY <1>6, <2>1, PastGuard, Replies DEF Refuse
  <1>7. CASE Fail(q)
    <2>1. request[q].pc = "serve" /\ UNCHANGED <<stage, redis, outages, socket, online, beats, stop>>
      BY <1>7 DEF Fail, At
    <2>2. CASE Current(q).masked
      BY <1>7, <2>1, <2>2, OnwardKeeps DEF Fail
    <2>3. CASE ~Current(q).masked
      <3>1. PICK o \in InFlightRequest : o = request[q] /\ RequestOK(o)
        BY <2>1, Somewhere
      <3>2. PICK db \in BOOLEAN : db = (Current(q).store = "database")
        OBVIOUS
      <3>3. PICK r : r = [o EXCEPT !.pc = "answered", !.code = 500, !.dbFailed = db]
        OBVIOUS
      <3>4. r \in InFlightRequest /\ r.pc = "answered" /\ r.route = o.route /\ r.at = o.at
            /\ r.late = o.late /\ r.dbFailed = db /\ r.code = 500
        <4>1. "answered" \in RequestPCs /\ 500 \in Codes
          BY DEF RequestPCs, Codes
        <4>2. r \in InFlightRequest
          BY <3>3, <4>1 DEF InFlightRequest
        <4> QED
          BY <3>3, <4>2 DEF InFlightRequest
      <3>5. ~(o.late /\ RouteOf(o.route).guarded)
        BY <2>1, <3>1, PastGuard DEF RouteAt
      <3>6. o.route \in DOMAIN RoomRoutes => db
        <4>1. o.at \in 1..Len(RouteOf(o.route).stages)
          BY <2>1, <3>1 DEF RequestOK
        <4> QED
          BY <2>3, <3>1, <3>2, <4>1, RoomsMaskRedis DEF Current, RouteAt
      <3>7. RequestOK(r)
        BY <3>1, <3>4, <3>5, <3>6 DEF RequestOK
      <3>8. request' = [request EXCEPT ![q] = r]
        BY <1>7, <2>3, <3>1, <3>2, <3>3 DEF Fail, IInv, Typed
      <3> QED
        BY <2>1, <3>4, <3>7, <3>8, RequestMoves
    <2> QED
      BY <2>2, <2>3
  <1>8. CASE Finish(q)
    BY <1>8, IsInFlight, RequestMoves DEF Finish
  <1> QED
    BY <1>1, <1>2, <1>3, <1>4, <1>5, <1>6, <1>7, <1>8 DEF RequestStep

\* Requests do not notice the rest, as long as Redis stays closed once it is.
LEMMA RequestsStay ==
  ASSUME IInv, StaysQuit, UNCHANGED request
  PROVE  \A q \in Requests : InFlight(q)' => RequestOK(request[q])'
  <1>1. \A q \in Requests : InFlight(q) => RequestOK(request[q])
    BY DEF IInv
  <1> QED
    BY <1>1 DEF InFlight, RequestOK, StaysQuit

\* What a step of a socket, its client or its heartbeat does to it.
Moves(s) == SocketStep(s) \/ ClientStep(s) \/ Beat(s)

\* Phases only go on; a user is online, or about to be, after setUserOnline only.
LEMMA SocketsKeep ==
  ASSUME IInv, NEW s \in Sockets, Moves(s)
  PROVE  IInv'
  <1> USE DEF Moves, SocketStep, ClientStep, Beat, Connect, Authenticate, CloseEarly,
          SetUserOnline, BeatGet, BeatSet, Disconnect, ClearPresence, FailToClear,
          Cleared, LookUp, LookUpFails
  <1>1. UNCHANGED <<stage, redis, outages, request>>
    OBVIOUS
  <1>2. stop' \in [Stops -> StopPCs]
    BY DEF Begin, IInv, Typed, StopPCs
  <1>3. PICK next \in SocketPhases :
          /\ socket' = [socket EXCEPT ![s] = next]
          /\ socket[s] \notin Before => next \notin Before
          /\ next = "presence" => socket[s] = "presence" \/ redis # "quit"
          /\ s \in online' \cup beats' => s \in online \cup beats \/ next \notin Before
    <2>1. CASE BeatGet(s) \/ BeatSet(s)
      <3>1. socket' = [socket EXCEPT ![s] = socket[s]] /\ socket[s] \in SocketPhases
        BY <2>1 DEF IInv, Typed
      <3>2. s \in online' \cup beats' => s \in online \cup beats
        BY <2>1
      <3> QED
        BY <3>1, <3>2
    <2>2. CASE ~(BeatGet(s) \/ BeatSet(s))
      BY <2>2 DEF QuitIssued, SocketPhases, Before
    <2> QED
      BY <2>1, <2>2
  <1>4. \A x \in Sockets : socket'[x] = IF x = s THEN next ELSE socket[x]
    BY <1>3 DEF IInv, Typed
  <1>5. online' \subseteq online \cup {s} /\ beats' \subseteq beats \cup {s}
    OBVIOUS
  <1> USE <1>1
  <1> HIDE DEF Moves, SocketStep, ClientStep, Beat, Connect, Authenticate, CloseEarly,
           SetUserOnline, BeatGet, BeatSet, Disconnect, ClearPresence, FailToClear,
           Cleared, LookUp, LookUpFails
  <1>6. Typed'
    BY <1>2, <1>3, <1>5 DEF IInv, Typed
  <1>7. NotYetOnline'
    <2> SUFFICES ASSUME NEW x \in online' \cup beats' PROVE socket'[x] \notin Before
      BY DEF NotYetOnline
    <2>1. x \in Sockets
      BY <1>6 DEF Typed
    <2>2. x \in online \cup beats => socket[x] \notin Before
      BY DEF IInv, NotYetOnline
    <2>3. CASE x = s
      BY <1>3, <1>4, <2>1, <2>2, <2>3
    <2>4. CASE x # s
      BY <1>4, <1>5, <2>1, <2>2, <2>4
    <2> QED
      BY <2>3, <2>4
  <1>8. \A q \in Requests : InFlight(q)' => RequestOK(request[q])'
    BY RequestsStay DEF StaysQuit
  <1>9. NoneAhead'
    BY <1>3, <1>4 DEF IInv, NoneAhead
  <1> QED
    BY <1>6, <1>7, <1>8, <1>9 DEF IInv

\* Start, shutdown, and Redis going away and coming back.
LEMMA ProcessKeeps ==
  ASSUME IInv,
         \/ Listen \/ ExitEarly \/ GoAway \/ ComeBack
         \/ \E p \in Stops : StopStep(p) \/ Signal(p)
  PROVE  IInv'
  <1> USE DEF Listen, ExitEarly, GoAway, ComeBack, StopStep, Signal, CloseDatabase,
          CloseQueues, CloseRedis, CloseHttp, Exit
  <1>1. UNCHANGED <<request, online, beats>>
    OBVIOUS
  <1>2. StaysQuit
    BY DEF StaysQuit
  <1>3. stage' \in Stages
    BY DEF Stages, IInv, Typed
  <1>4. redis' \in {"up", "away", "quit"}
    BY DEF IInv, Typed
  <1>5. outages' \in 0..MaxOutages
    BY ServerAssumption DEF IInv, Typed
  <1>6. stop' \in [Stops -> StopPCs]
    BY DEF Begin, StopPCs, IInv, Typed
  <1>7. \/ UNCHANGED socket
        \/ socket' = [s \in Sockets |-> IF socket[s] = "presence" THEN "lost" ELSE socket[s]]
    OBVIOUS
  <1> HIDE DEF Listen, ExitEarly, GoAway, ComeBack, StopStep, Signal, CloseDatabase,
           CloseQueues, CloseRedis, CloseHttp, Exit
  <1>8. /\ socket' \in [Sockets -> SocketPhases]
        /\ \A s \in Sockets : socket[s] \notin Before => socket'[s] \notin Before
    BY <1>7 DEF IInv, Typed, SocketPhases, Before
  <1>9. Typed'
    BY <1>1, <1>3, <1>4, <1>5, <1>6, <1>8 DEF IInv, Typed
  <1>10. NotYetOnline'
    BY <1>1, <1>8 DEF IInv, Typed, NotYetOnline
  <1>11. NoneAhead'
    <2>1. redis' = "quit" => redis = "quit" \/ \A s \in Sockets : socket'[s] # "presence"
      BY DEF Listen, ExitEarly, GoAway, ComeBack, StopStep, Signal, CloseDatabase,
         CloseQueues, CloseRedis, CloseHttp, Exit
    <2> QED
      BY <1>7, <2>1 DEF IInv, NoneAhead
  <1> QED
    BY <1>1, <1>2, <1>9, <1>10, <1>11, RequestsStay DEF IInv

\* At the start nothing is in flight.
LEMMA InitOK == Init => IInv
  <1> SUFFICES ASSUME Init PROVE IInv
    OBVIOUS
  <1>1. Typed
    BY ServerAssumption DEF Init, Typed, Stages, SocketPhases, StopPCs
  <1>2. NotYetOnline /\ NoneAhead
    BY DEF Init, NotYetOnline, NoneAhead
  <1>3. \A q \in Requests : ~InFlight(q)
    BY DEF Init, InFlight
  <1> QED
    BY <1>1, <1>2, <1>3 DEF IInv

\* The invariant of the process.
THEOREM Invariance == Spec => []IInv
  <1>1. IInv /\ [Next]_vars => IInv'
    <2> SUFFICES ASSUME IInv, [Next]_vars PROVE IInv'
      OBVIOUS
    <2>1. CASE \/ Listen \/ ExitEarly \/ GoAway \/ ComeBack
               \/ \E p \in Stops : StopStep(p) \/ Signal(p)
      BY <2>1, ProcessKeeps
    <2>2. ASSUME NEW q \in Requests,
                 RequestStep(q) \/ \E name \in Served : Arrive(q, name)
          PROVE  IInv'
      BY <2>2, RequestStepKeeps, ArriveKeeps
    <2>3. ASSUME NEW s \in Sockets, Moves(s)
          PROVE  IInv'
      BY <2>3, SocketsKeep
    <2>4. CASE UNCHANGED vars
      <3>1. UNCHANGED <<stage, redis, outages, request, socket, online, beats, stop>>
        BY <2>4 DEF vars
      <3>2. Typed' /\ NotYetOnline' /\ NoneAhead'
        BY <3>1 DEF IInv, Typed, NotYetOnline, NoneAhead
      <3> QED
        BY <3>1, <3>2, RequestsStay DEF IInv, StaysQuit
    <2> QED
      BY <2>1, <2>2, <2>3, <2>4 DEF Next, Moves
  <1> QED
    BY InitOK, <1>1, PTL DEF Spec

------------------------------------------------------------------------------
\* TypeOK: no request is ever past the last stage of its service.
THEOREM TypeCorrect == Spec => []TypeOK
  <1>1. IInv => TypeOK
    BY DEF IInv, Typed, TypeOK, RequestOK, RouteAt
  <1> QED
    BY Invariance, <1>1, PTL

\* Once Redis is closed nobody gets past the guard of a route, although the
\* limiter lets everybody through (ExtractToken, Auth and RateLimit middlewares).
THEOREM RefusedAfterQuit == Spec => []NoServiceAfterQuit
  <1>1. IInv => NoServiceAfterQuit
    BY DEF IInv, NoServiceAfterQuit, RequestOK, RouteAt
  <1> QED
    BY Invariance, <1>1, PTL

\* Only the database makes a request about rooms fail (RoomsService,
\* PresenceService and sendError).
THEOREM RoomsOutliveRedis == Spec => []RoomsSurviveRedis
  <1>1. IInv => RoomsSurviveRedis
    BY DEF IInv, RoomsSurviveRedis, RequestOK
  <1> QED
    BY Invariance, <1>1, PTL

\* A user whose client has left is left shown online by a client that left before
\* there was a disconnect handler, by a handler whose command was lost to QUIT, or
\* by a heartbeat in flight, and by nothing else (socket.ts, PresenceService, and
\* RedisClient, whose commands wait).
THEOREM GhostsExplained == Spec => GhostsHaveACause
  <1> DEFINE Caused(s) ==
        /\ ~Ghost(s) /\ Ghost(s)'
             => socket[s] \in {"early", "lost"} \/ (s \in beats /\ s \notin beats')
        /\ socket[s] = "presence" /\ socket'[s] = "lost" => redis = "away"
  <1>1. IInv /\ [Next]_vars => [\A s \in Sockets : Caused(s)]_vars
    <2> SUFFICES ASSUME IInv, Next, NEW s \in Sockets PROVE Caused(s)
      BY DEF vars
    <2>1. ASSUME NEW x \in Sockets, Moves(x) PROVE Caused(s)
      <3>1. CASE x # s
        <4>1. socket'[s] = socket[s] /\ (s \in online' <=> s \in online)
          BY <2>1, <3>1 DEF Moves, SocketStep, ClientStep, Beat, Connect, Authenticate,
             CloseEarly, SetUserOnline, BeatGet, BeatSet, Disconnect, ClearPresence,
             FailToClear, Cleared, LookUp, LookUpFails, IInv, Typed
        <4> QED
          BY <4>1 DEF Ghost
      <3>2. CASE x = s
        <4>1. \A next : socket' = [socket EXCEPT ![s] = next] => socket'[s] = next
          BY DEF IInv, Typed
        <4>2. s \in online => socket[s] \notin Before
          BY DEF IInv, NotYetOnline
        <4>3. CASE SocketStep(s)
          BY <4>1, <4>2, <4>3 DEF SocketStep, Authenticate, SetUserOnline, ClearPresence,
             FailToClear, Cleared, LookUp, LookUpFails, Ghost, Before
        <4>4. CASE ClientStep(s)
          BY <4>1, <4>2, <4>4 DEF ClientStep, Connect, CloseEarly, Disconnect, Ghost, Before
        <4>5. CASE Beat(s)
          BY <4>5 DEF Beat, BeatGet, BeatSet, Ghost
        <4> QED
          BY <2>1, <3>2, <4>3, <4>4, <4>5 DEF Moves
      <3> QED
        BY <3>1, <3>2
    <2>2. CASE \E p \in Stops : CloseRedis(p)
      <3>1. /\ online' = online
            /\ redis = "up" => socket[s] # "presence"
            /\ redis = "quit" => socket[s] # "presence"
            /\ socket'[s] = IF socket[s] = "presence" THEN "lost" ELSE socket[s]
        BY <2>2 DEF CloseRedis, IInv, NoneAhead
      <3> QED
        BY <3>1 DEF Ghost, IInv, Typed
    <2>3. CASE UNCHANGED <<socket, online>>
      BY <2>3 DEF Ghost
    <2>4. \/ \E x \in Sockets : Moves(x)
          \/ \E p \in Stops : CloseRedis(p)
          \/ UNCHANGED <<socket, online>>
      BY DEF Next, Moves, Listen, ExitEarly, GoAway, ComeBack, StopStep, Signal,
         CloseDatabase, CloseQueues, CloseHttp, Exit, RequestStep, Arrive, Extract,
         Authorize, CheckLimit, Validate, Serve, Refuse, Fail, Finish
    <2> QED
      BY <2>1, <2>2, <2>3, <2>4
  <1> QED
    BY Invariance, <1>1, PTL DEF Spec, GhostsHaveACause
=============================================================================
