------------------------------- MODULE Server -------------------------------
(***************************************************************************)
(* The process (index.ts): start, the way of a REST request through the    *)
(* middlewares, its controller and service, sockets as far as they keep    *)
(* the HTTP server open, and shutdown, with outages of Redis and failures  *)
(* of the database.                                                        *)
(*                                                                         *)
(* ioredis is configured with maxRetriesPerRequest: null: while Redis is   *)
(* away a command waits, it does not fail.  After quit every command fails *)
(* at once.  The database shutdown disconnects is not the one the services *)
(* use: Database.setup makes a second client, so that closing it changes   *)
(* nothing for a request in flight.                                        *)
(*                                                                         *)
(* The commands of the process share one connection to Redis, and are      *)
(* executed in the order they were issued: those ahead of QUIT are still   *)
(* executed, those behind it never are.                                    *)
(*                                                                         *)
(* A socket is authenticated, its user is set online, and only then does   *)
(* it have a heartbeat and a disconnect handler.  The handler removes its  *)
(* presence, and looks up its user if it was in a room.  Each socket has a *)
(* user of its own.                                                        *)
(***************************************************************************)
EXTENDS Routes, FiniteSets

CONSTANTS
    Requests,       \* slots for REST requests in flight: a bound on concurrency
    Served,         \* the routes used in this instance
    Sockets,        \* connections, each used once
    Stops,          \* calls of shutdown: a bound on signals and uncaught errors
    MaxOutages      \* bound: how often Redis goes away

ASSUME ServerAssumption ==
    Served \subseteq RouteNames /\ MaxOutages \in Nat

VARIABLES
    stage,          \* of the process, see Stages
    redis,          \* "up", "away" or "quit"
    outages,
    request,        \* slot -> the request in flight
    socket,         \* socket -> where it is in its life
    online,         \* sockets whose user's status was last written as online
    beats,          \* sockets with a heartbeat between its GET and its SETEX
    stop            \* call of shutdown -> where it is

vars == <<stage, redis, outages, request, socket, online, beats, stop>>

Stages == {"starting", "listening", "closing", "exited"}

\* "early": closed while setUserOnline is awaited; "orphan": what becomes of it.
\* "presence", "lost": its disconnect handler clears its presence, with a command
\* ahead of QUIT or one that will never be executed.
SocketPhases == {"none", "handshake", "opening", "open", "early", "orphan", "presence",
                 "lost", "lookup", "gone"}

StopPCs == {"idle", "database", "redis", "quitting", "http", "closing", "over"}

NoRequest == [pc |-> "idle"]

\* at: the stage of the service a request is in; late: it arrived after quit;
\* dbFailed: one of its statements failed; code: of the answer.
Request(pc, route, at, late, dbFailed, code) ==
    [pc |-> pc, route |-> route, at |-> at, late |-> late, dbFailed |-> dbFailed,
     code |-> code]

Init ==
    /\ stage = "starting"
    /\ redis = "up"
    /\ outages = 0
    /\ request = [q \in Requests |-> NoRequest]
    /\ socket = [s \in Sockets |-> "none"]
    /\ online = {}
    /\ beats = {}
    /\ stop = [p \in Stops |-> "idle"]

Running == stage \in {"listening", "closing"}

InFlight(q) == request[q] # NoRequest

At(q, pc) == Running /\ request[q].pc = pc

RouteAt(q) == RouteOf(request[q].route)

------------------------------------------------------------------------------
\* Start.

\* start, after the database has connected: everything else is synchronous.
Listen ==
    /\ stage = "starting"
    /\ stage' = "listening"
    /\ UNCHANGED <<redis, outages, request, socket, online, beats, stop>>

\* The connection fails, or a signal comes first: shutdown finds nothing to
\* close and exits.
ExitEarly ==
    /\ stage = "starting"
    /\ stage' = "exited"
    /\ UNCHANGED <<redis, outages, request, socket, online, beats, stop>>

------------------------------------------------------------------------------
\* A REST request.

\* On a new connection, or on one that was kept alive; without a token it goes on
\* as a guest's at once.
Arrive(q, name) ==
    /\ Running /\ ~InFlight(q)
    /\ \E pc \in {"extract", "guest"} :
         request' = [request EXCEPT ![q] =
             Request(pc, name, 0, redis = "quit", FALSE, 0)]
    /\ UNCHANGED <<stage, redis, outages, socket, online, beats, stop>>

Goto(q, pc) == request' = [request EXCEPT ![q].pc = pc]

Reply(q, code) ==
    request' = [request EXCEPT ![q] = [@ EXCEPT !.pc = "answered", !.code = code]]

\* Where a request of a user goes: the limiter, or its controller.
Admitted(name) == IF Limited(name) THEN "limit" ELSE "validate"

\* Mutant: a failure of Redis does not make a guest.
ExtractFailsOpen(q) ==
    /\ At(q, "extract") /\ redis # "away"
    /\ Goto(q, "guest") \/ Goto(q, Admitted(request[q].route))
    /\ UNCHANGED <<stage, redis, outages, socket, online, beats, stop>>

\* ExtractTokenMiddleware.  A token whose session is over, and a failure of
\* Redis, make a guest.
Extract(q) ==
    /\ At(q, "extract") /\ redis # "away"
    /\ \/ Goto(q, "guest")
       \/ redis = "up" /\ Goto(q, Admitted(request[q].route))
    /\ UNCHANGED <<stage, redis, outages, socket, online, beats, stop>>

\* AuthMiddleware answers a guest on a guarded route.
Authorize(q) ==
    /\ At(q, "guest")
    /\ IF RouteAt(q).guarded THEN Reply(q, 401) ELSE Goto(q, "validate")
    /\ UNCHANGED <<stage, redis, outages, socket, online, beats, stop>>

\* RateLimitMiddleware: 429, or on to the controller; the limiter, and the
\* middleware, let the request through when Redis fails.
CheckLimit(q) ==
    /\ At(q, "limit") /\ redis # "away"
    /\ \/ redis = "up" /\ Reply(q, 429)
       \/ Goto(q, "validate")
    /\ UNCHANGED <<stage, redis, outages, socket, online, beats, stop>>

\* plainToInstance and validateOrReject, where the controller has a DTO.
Validate(q) ==
    /\ At(q, "validate")
    /\ \/ RouteAt(q).dto /\ Reply(q, 400)
       \/ request' = [request EXCEPT ![q] = [@ EXCEPT !.pc = "serve", !.at = 1]]
    /\ UNCHANGED <<stage, redis, outages, socket, online, beats, stop>>

\* Mutant: one stage too many.
OnwardAgain(q) ==
    IF request[q].at <= Len(RouteAt(q).stages)
      THEN request' = [request EXCEPT ![q].at = @ + 1]
      ELSE Reply(q, 200)

\* The next stage of the service, or sendSuccess after the last.
Onward(q) ==
    IF request[q].at < Len(RouteAt(q).stages)
      THEN request' = [request EXCEPT ![q].at = @ + 1]
      ELSE Reply(q, 200)

Current(q) == RouteAt(q).stages[request[q].at]

\* A stage succeeds...
Serve(q) ==
    /\ At(q, "serve")
    /\ Current(q).store = "redis" => redis = "up"
    /\ Onward(q)
    /\ UNCHANGED <<stage, redis, outages, socket, online, beats, stop>>

\* ... or the service throws an Exception, for which sendError has a code...
Refuse(q) ==
    /\ At(q, "serve") /\ Current(q).refuses
    /\ Reply(q, 403)
    /\ UNCHANGED <<stage, redis, outages, socket, online, beats, stop>>

\* Mutant: the controller does not catch the error, and Express gets no answer.
FailHangs(q) ==
    LET db == Current(q).store = "database"
    IN  /\ At(q, "serve")
        /\ db \/ redis = "quit"
        /\ IF ~Current(q).masked THEN Goto(q, "lost") ELSE Onward(q)
        /\ UNCHANGED <<stage, redis, outages, socket, online, beats, stop>>

\* ... or the store fails: the failure is masked, or answered with 500.
Fail(q) ==
    LET db == Current(q).store = "database"
    IN  /\ At(q, "serve")
        /\ db \/ redis = "quit"
        /\ IF ~Current(q).masked
             THEN request' = [request EXCEPT ![q] =
                     [@ EXCEPT !.pc = "answered", !.code = 500, !.dbFailed = db]]
           ELSE Onward(q)
        /\ UNCHANGED <<stage, redis, outages, socket, online, beats, stop>>

\* The answer has been sent.
Finish(q) ==
    /\ At(q, "answered")
    /\ request' = [request EXCEPT ![q] = NoRequest]
    /\ UNCHANGED <<stage, redis, outages, socket, online, beats, stop>>

------------------------------------------------------------------------------
\* Sockets.

\* A client connects to the HTTP server.
Connect(s) ==
    /\ stage = "listening" /\ socket[s] = "none"
    /\ socket' = [socket EXCEPT ![s] = "handshake"]
    /\ UNCHANGED <<stage, redis, outages, request, online, beats, stop>>

\* authenticateSocket: it waits while Redis is away, and an error is a refusal,
\* after which the connection is closed.  The handler of an authenticated socket
\* calls setUserOnline first.
Authenticate(s) ==
    /\ Running /\ socket[s] = "handshake" /\ redis # "away"
    /\ \E next \in {"opening", "gone"} :
         /\ next = "opening" => redis = "up"
         /\ socket' = [socket EXCEPT ![s] = next]
    /\ UNCHANGED <<stage, redis, outages, request, online, beats, stop>>

\* The client closes before there is a disconnect handler.
CloseEarly(s) ==
    /\ Running /\ socket[s] \in {"handshake", "opening"}
    /\ socket' = [socket EXCEPT ![s] = IF @ = "opening" THEN "early" ELSE "gone"]
    /\ UNCHANGED <<stage, redis, outages, request, online, beats, stop>>

\* setUserOnline, whose errors are swallowed, is answered: the heartbeat is
\* started and the handlers are registered, also those of a socket that is closed.
SetUserOnline(s) ==
    /\ Running /\ socket[s] \in {"opening", "early"} /\ redis # "away"
    /\ online' = IF redis = "up" THEN online \cup {s} ELSE online
    /\ socket' = [socket EXCEPT ![s] = IF @ = "opening" THEN "open" ELSE "orphan"]
    /\ UNCHANGED <<stage, redis, outages, request, beats, stop>>

\* A heartbeat reads the status with GET; what it asked before the socket was
\* closed is executed before what the disconnect handler asks...
BeatGet(s) ==
    /\ Running /\ socket[s] \in {"open", "orphan", "presence"} /\ redis = "up"
    /\ s \in online
    /\ beats' = beats \cup {s}
    /\ UNCHANGED <<stage, redis, outages, request, socket, online, stop>>

\* ... and writes what it read back with SETEX, whose errors are swallowed.
BeatSet(s) ==
    /\ Running /\ s \in beats /\ redis # "away"
    /\ beats' = beats \ {s}
    /\ online' = IF redis = "up" THEN online \cup {s} ELSE online
    /\ UNCHANGED <<stage, redis, outages, request, socket, stop>>

QuitIssued == redis = "quit" \/ \E p \in Stops : stop[p] = "quitting"

\* The disconnect handler stops the heartbeat and asks Redis to clear the presence.
Disconnect(s) ==
    /\ Running /\ socket[s] = "open"
    /\ socket' = [socket EXCEPT ![s] = IF QuitIssued THEN "lost" ELSE "presence"]
    /\ UNCHANGED <<stage, redis, outages, request, online, beats, stop>>

\* After its presence the handler looks up its user, if it was in a room.
Cleared(s) == \E next \in {"lookup", "gone"} : socket' = [socket EXCEPT ![s] = next]

\* Mutant: commands fail while Redis is away.
ClearPresenceGivesUp(s) ==
    /\ Running /\ socket[s] = "presence"
    /\ online' = IF redis = "up" THEN online \ {s} ELSE online
    /\ Cleared(s)
    /\ UNCHANGED <<stage, redis, outages, request, beats, stop>>

\* handleUserDisconnect: setUserOffline is executed...
ClearPresence(s) ==
    /\ Running /\ socket[s] = "presence" /\ redis = "up"
    /\ online' = online \ {s}
    /\ Cleared(s)
    /\ UNCHANGED <<stage, redis, outages, request, beats, stop>>

\* ... or fails because the connection is closed; the error is swallowed.
FailToClear(s) ==
    /\ Running /\ socket[s] = "lost" /\ redis = "quit"
    /\ Cleared(s)
    /\ UNCHANGED <<stage, redis, outages, request, online, beats, stop>>

LookUp(s) ==
    /\ Running /\ socket[s] = "lookup"
    /\ socket' = [socket EXCEPT ![s] = "gone"]
    /\ UNCHANGED <<stage, redis, outages, request, online, beats, stop>>

Begin(p) == stop[p] = "idle" /\ stop' = [stop EXCEPT ![p] = "database"]

\* The disconnect handler has no catch: an error of its query is an unhandled
\* rejection, and shuts the whole server down.
LookUpFails(s, p) ==
    /\ Running /\ socket[s] = "lookup"
    /\ socket' = [socket EXCEPT ![s] = "gone"]
    /\ Begin(p)
    /\ UNCHANGED <<stage, redis, outages, request, online, beats>>

------------------------------------------------------------------------------
\* Shutdown.  It may be called again while it is under way.

Signal(p) ==
    /\ Running
    /\ Begin(p)
    /\ UNCHANGED <<stage, redis, outages, request, socket, online, beats>>

\* dbRef.close(), whether it succeeds or not.
CloseDatabase(p) ==
    /\ Running /\ stop[p] = "database"
    /\ stop' = [stop EXCEPT ![p] = "redis"]
    /\ UNCHANGED <<stage, redis, outages, request, socket, online, beats>>

\* Mutant: an error of redisRef.close() ends shutdown.
CloseQueuesThrows(p) ==
    /\ Running /\ stop[p] = "redis"
    /\ \E next \in {"quitting", "over"} : stop' = [stop EXCEPT ![p] = next]
    /\ UNCHANGED <<stage, redis, outages, request, socket, online, beats>>

\* redisRef.close() closes the workers and the queue, and issues QUIT.  It may
\* throw first, and does when the connection is closed already.
CloseQueues(p) ==
    /\ Running /\ stop[p] = "redis"
    /\ \E next \in {"quitting", "http"} : stop' = [stop EXCEPT ![p] = next]
    /\ UNCHANGED <<stage, redis, outages, request, socket, online, beats>>

\* QUIT is executed after what was issued before it.  While Redis is away ioredis
\* may close at once, and drop the commands that had no answer yet.
CloseRedis(p) ==
    /\ Running /\ stop[p] = "quitting"
    /\ redis = "up" => \A s \in Sockets : socket[s] # "presence"
    /\ redis' = "quit"
    /\ stop' = [stop EXCEPT ![p] = "http"]
    /\ socket' = [s \in Sockets |-> IF socket[s] = "presence" THEN "lost" ELSE socket[s]]
    /\ UNCHANGED <<stage, outages, request, online, beats>>

\* httpServer.close(): no new connection from here on.
CloseHttp(p) ==
    /\ Running /\ stop[p] = "http"
    /\ stage' = "closing"
    /\ stop' = [stop EXCEPT ![p] = "closing"]
    /\ UNCHANGED <<redis, outages, request, socket, online, beats>>

Connected == \E s \in Sockets : socket[s] \in {"handshake", "opening", "open"}

\* Its callback, when every connection has ended, and process.exit.
Exit(p) ==
    /\ Running /\ stop[p] = "closing"
    /\ ~Connected /\ \A q \in Requests : ~InFlight(q)
    /\ stage' = "exited"
    /\ stop' = [stop EXCEPT ![p] = "over"]
    /\ UNCHANGED <<redis, outages, request, socket, online, beats>>

------------------------------------------------------------------------------
GoAway ==
    /\ redis = "up" /\ outages < MaxOutages
    /\ redis' = "away"
    /\ outages' = outages + 1
    /\ UNCHANGED <<stage, request, socket, online, beats, stop>>

ComeBack ==
    /\ redis = "away"
    /\ redis' = "up"
    /\ UNCHANGED <<stage, outages, request, socket, online, beats, stop>>

------------------------------------------------------------------------------
RequestStep(q) ==
    \/ Extract(q) \/ Authorize(q) \/ CheckLimit(q) \/ Validate(q) \/ Serve(q)
    \/ Refuse(q) \/ Fail(q) \/ Finish(q)

SocketStep(s) ==
    \/ Authenticate(s) \/ SetUserOnline(s) \/ ClearPresence(s) \/ FailToClear(s)
    \/ LookUp(s) \/ \E p \in Stops : LookUpFails(s, p)

ClientStep(s) == Connect(s) \/ CloseEarly(s) \/ Disconnect(s)

Beat(s) == BeatGet(s) \/ BeatSet(s)

StopStep(p) ==
    \/ CloseDatabase(p) \/ CloseQueues(p) \/ CloseRedis(p) \/ CloseHttp(p) \/ Exit(p)

Next ==
    \/ Listen \/ ExitEarly
    \/ \E q \in Requests : RequestStep(q) \/ \E name \in Served : Arrive(q, name)
    \/ \E s \in Sockets : SocketStep(s) \/ ClientStep(s) \/ Beat(s)
    \/ \E p \in Stops : StopStep(p) \/ Signal(p)
    \/ GoAway \/ ComeBack

Spec == Init /\ [][Next]_vars

\* What was started goes on: steps of requests, of the handlers of sockets and of
\* shutdown.  Closing Redis is only sure to end while Redis is there.  Nothing
\* is assumed of clients, of heartbeats, of signals, or of Redis.
Fairness ==
    /\ \A q \in Requests : WF_vars(RequestStep(q))
    /\ \A s \in Sockets : WF_vars(SocketStep(s))
    /\ \A p \in Stops :
          /\ WF_vars(CloseDatabase(p)) /\ WF_vars(redis # "away" /\ CloseQueues(p))
          /\ WF_vars(redis # "away" /\ CloseRedis(p))
          /\ WF_vars(CloseHttp(p)) /\ WF_vars(Exit(p))

FairSpec == Spec /\ Fairness

------------------------------------------------------------------------------
RequestPCs == {"extract", "guest", "limit", "validate", "serve", "answered"}

Codes == {0, 200, 400, 401, 403, 429, 500}

InFlightRequest ==
    [pc : RequestPCs, route : Served, at : 0..3, late : BOOLEAN, dbFailed : BOOLEAN,
     code : Codes]

\* Types; in particular a request is never past the last stage of its service.
TypeOK ==
    /\ stage \in Stages
    /\ redis \in {"up", "away", "quit"}
    /\ outages \in 0..MaxOutages
    /\ request \in [Requests -> InFlightRequest \cup {NoRequest}]
    /\ \A q \in Requests :
         InFlight(q) /\ request[q].pc = "serve" => request[q].at \in 1..Len(RouteAt(q).stages)
    /\ socket \in [Sockets -> SocketPhases]
    /\ online \subseteq Sockets
    /\ beats \subseteq Sockets
    /\ stop \in [Stops -> StopPCs]

\* Once Redis is closed, and until the HTTP server is, requests keep arriving
\* that cannot be authenticated: none of them gets past the guard of its route,
\* although the limiter behind it lets requests through when Redis fails.
NoServiceAfterQuit ==
    \A q \in Requests :
        InFlight(q) /\ request[q].late /\ RouteAt(q).guarded
            => request[q].pc \in {"extract", "guest"} \/ request[q].code = 401

\* Redis failing, at any point of a request, never makes a request about rooms
\* answer 500: only the database does.  (Where it fails the token check, before
\* the request gets to its controller, the request is a guest's: 401.)
RoomsSurviveRedis ==
    \A q \in Requests :
        InFlight(q) /\ request[q].route \in DOMAIN RoomRoutes /\ request[q].code = 500
            => request[q].dbFailed

\* The client of the socket has left, nothing that was started on its account is
\* still to clear its presence, and its user is shown online.
Ghost(s) == s \in online /\ socket[s] \in {"orphan", "lookup", "gone"}

\* The ways to become one: the client left while setUserOnline was awaited, before
\* the disconnect handler was there; the command of the handler was lost to QUIT;
\* or a heartbeat that had read the status before wrote it back after.  And what
\* was issued ahead of QUIT is lost to it in an outage only.  So an outage alone,
\* however long, makes no ghost, nor does a shutdown of a handler that ran first.
GhostsHaveACause ==
    [][\A s \in Sockets :
          /\ ~Ghost(s) /\ Ghost(s)'
               => socket[s] \in {"early", "lost"} \/ (s \in beats /\ s \notin beats')
          /\ socket[s] = "presence" /\ socket'[s] = "lost" => redis = "away"]_vars

\* Every request is answered, shutting down or not, if Redis comes back.
EveryRequestAnswered ==
    <>[](redis # "away") => \A q \in Requests : InFlight(q) ~> ~InFlight(q)

Stopping == \E p \in Stops : stop[p] # "idle"

\* A shutdown ends, however many run at once and whatever fails in it, if clients
\* disconnect and send no more requests.  While one socket stays open it does not.
StopsWhenQuiet ==
    (<>[](redis # "away") /\ <>[](~Connected /\ \A q \in Requests : ~InFlight(q)))
        => (Stopping ~> stage = "exited")
==============================================================================
