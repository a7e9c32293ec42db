------------------------------- MODULE Routes -------------------------------
(***************************************************************************)
(* The REST routes, as a table: which are guarded by AuthMiddleware, which *)
(* validate a DTO, which rate limit RateLimitMiddleware picks for them,    *)
(* and the stages of the service behind each.  A stage asks one store;     *)
(* consecutive queries whose failures end the request are one stage.  A    *)
(* path is the sequence of its segments, without the prefix /api/v1, which *)
(* Express strips before req.path.                                         *)
(***************************************************************************)
EXTENDS Integers, Sequences

\* refuses: the service may throw an Exception of its own at this stage; masked:
\* an error of the store is logged, and a default taken in place of its answer.
Stage(store, refuses, masked) == [store |-> store, refuses |-> refuses, masked |-> masked]

Checked == Stage("database", TRUE, FALSE)
Plain == Stage("database", FALSE, FALSE)
SessionKeys == Stage("redis", FALSE, FALSE)

\* isHealthy of the database and of Redis.
DatabaseHealth == Stage("database", FALSE, TRUE)
RedisHealth == Stage("redis", FALSE, TRUE)

\* The receipts of messages: none, when the query fails.
ReceiptsOfMessage == Stage("database", FALSE, TRUE)
ReceiptsOfPage == Stage("database", FALSE, TRUE)
MarkPageRead == Stage("database", FALSE, TRUE)

\* Mutant: getMultipleUserPresence lets the error of MGET through.
PresenceOfUsersUnmasked == Stage("redis", FALSE, FALSE)

\* getMultipleUserPresence: without Redis everybody is offline.
PresenceOfUsers == Stage("redis", FALSE, TRUE)

\* getRoomUsers: without Redis nobody is in the room.
UsersInRoom == Stage("redis", FALSE, TRUE)

\* The services.
HealthCheck == <<DatabaseHealth, RedisHealth>>
Register == <<Checked>>
Login == <<Checked, SessionKeys>>
CreateRoom == <<Checked>>
ListUserRooms == <<Plain>>
JoinRoom == <<Checked>>
InviteUserToRoom == <<Checked>>
GetRoomMessages == <<Checked, ReceiptsOfPage, MarkPageRead>>
GetRoomMembers == <<Checked, PresenceOfUsers>>
GetRoomPresence == <<Checked, UsersInRoom, PresenceOfUsers>>
GetMessageReceipts == <<Checked, ReceiptsOfMessage>>

Route(method, path, guarded, dto, stages) ==
    [method |-> method, path |-> path, guarded |-> guarded, dto |-> dto, stages |-> stages]

Home == Route("GET", <<>>, FALSE, FALSE, HealthCheck)

Logout(segment) ==
    Route("POST", <<"auth", segment>>, TRUE, FALSE, <<SessionKeys>>)

AuthRoutes ==
    [register  |-> Route("POST", <<"auth", "register">>, FALSE, TRUE, Register),
     login     |-> Route("POST", <<"auth", "login">>, FALSE, TRUE, Login),
     logout    |-> Logout("logout"),
     logoutAll |-> Logout("logout-all")]

RoomRoute(method, path, stages) == Route(method, <<"rooms">> \o path, TRUE, TRUE, stages)

RoomRoutes ==
    [create    |-> RoomRoute("POST", <<>>, CreateRoom),
     list      |-> RoomRoute("GET", <<>>, ListUserRooms),
     join      |-> RoomRoute("POST", <<"id", "join">>, JoinRoom),
     invite    |-> RoomRoute("POST", <<"id", "invitations", "id">>, InviteUserToRoom),
     messages  |-> RoomRoute("GET", <<"id", "messages">>, GetRoomMessages),
     members   |-> RoomRoute("GET", <<"id", "members">>, GetRoomMembers),
     presence  |-> RoomRoute("GET", <<"id", "presence">>, GetRoomPresence),
     receipts  |-> RoomRoute("GET", <<"id", "messages", "id", "receipts">>,
                             GetMessageReceipts)]

RouteNames == {"home"} \cup DOMAIN AuthRoutes \cup DOMAIN RoomRoutes

RouteOf(name) ==
    CASE name = "home" -> Home
      [] name \in DOMAIN AuthRoutes -> AuthRoutes[name]
      [] name \in DOMAIN RoomRoutes -> RoomRoutes[name]

\* path.includes('/rooms/') and path.includes('/' followed by segment)
UnderRooms(path) == Len(path) > 1 /\ path[1] = "rooms"
Includes(path, segment) == \E i \in 1..Len(path) : path[i] = segment

Limit(maxRequests, windowSeconds, keyPrefix) ==
    [maxRequests |-> maxRequests, windowSeconds |-> windowSeconds, keyPrefix |-> keyPrefix]

NoLimit == Limit(0, 0, "none")

\* getRateLimitConfig: the first rule that matches.  No route has a segment
\* that begins with "invite": invitations get the general limit.
RateLimitConfig(path, method) ==
    IF UnderRooms(path) /\ Includes(path, "messages") /\ method = "GET"
      THEN Limit(30, 60, "rate_limit:get_messages")
    ELSE IF path = <<"rooms">> /\ method = "POST"
      THEN Limit(5, 300, "rate_limit:create_room")
    ELSE IF UnderRooms(path) /\ Includes(path, "join") /\ method = "POST"
      THEN Limit(10, 60, "rate_limit:join_room")
    ELSE IF UnderRooms(path) /\ Includes(path, "invite") /\ method = "POST"
      THEN Limit(20, 300, "rate_limit:create_invite")
    ELSE IF method # "GET" THEN Limit(100, 60, "rate_limit:api_general")
    ELSE NoLimit

\* RateLimitMiddleware is on the routes of RoomsController only.
Limited(name) ==
    name \in DOMAIN RoomRoutes
    /\ RateLimitConfig(RouteOf(name).path, RouteOf(name).method) # NoLimit
=============================================================================
