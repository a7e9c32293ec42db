# A TLA+ model of the chat backend

TLA+ modules, TLC configurations and TLAPS proofs for the real-time chat server
in `src/` (Express + Socket.IO, Redis for presence, sessions and rate limits,
MySQL through Prisma for rooms, messages and receipts). Everything is modelled
from the code; where a comment or the repository's README says something else,
a run shows the difference (see "Where the code and its documentation differ").

## 1. The system

One Node.js process. JavaScript runs without interruption between two `await`s,
so the unit of interleaving is *what a handler does from one await to the next*.
Redis commands go through one FIFO connection (ioredis) and take effect in the
order they are issued; each database statement is atomic; nothing spans two
statements but the transaction of `createRoom`.

| Component (source under `src/src`) | State | Operations | Depends on |
|---|---|---|---|
| `RateLimiterService` (`app/users/rate-limiter.service.ts`) | a Redis sorted set per identifier, with a TTL | `checkRateLimit`, `getRateLimitStatus`, `resetRateLimit` | Redis |
| `SocketService` (`app/realtime/socket.ts`) | per socket: Socket.IO rooms, `currentRoomId`, heartbeat timer | connection, `join_room`, `send_message`, `typing`, `message_read`, `mark_messages_read`, `leave_room`, `disconnect` | all the services below, the limiter |
| `PresenceService` (`app/users/presence.service.ts`) | `presence:user:<id>` (status, TTL 30 s or 24 h), `room:presence:<id>` (a set) | set online/offline, heartbeat (GET, SETEX), read, add/remove in a room, disconnect | Redis, timers |
| `MessageReceiptsService` (`app/messages/…`) | table `message_receipts` | create receipts, mark read (one, many), unread, listing | database |
| `RoomsService`, `RoomsController` (`app/rooms/…`) | tables `rooms`, `room_members`, `messages`; invites are signed, not stored | create, invite, join, list rooms/messages/members/presence/receipts | database, presence, receipts |
| `AuthService`, `ExtractToken`, `Auth` middlewares, socket authentication | a Redis key per session | login, logout, logout-all; check and extend on every request | Redis, database |
| `RateLimitMiddleware` (`middlewares/rate-limit.ts`) | none | choose a limit for a path, call the limiter | limiter |
| `ValidationService` (`app/realtime/services/…`) | none | check a message against rules, clean it | – |
| controllers, `BaseController` | none | validate a DTO, call the service, answer its result or error | all services |
| `PaginationService`, `UserService`, `BaseService` | none (request fields for logs) | listing arithmetic, lookups | database |
| start-up and shutdown (`index.ts`, `app/app.ts`, `config/*`) | references to server, database, Redis | start, signals, `shutdown` | all |
| `RedisClient`'s job queue, `JobProcessor`, `MailClient` | a BullMQ queue nobody adds to | – | Redis |

What is hard here:

* **Interleaving**: several handlers of one socket run at once; membership,
  `currentRoomId`, presence and TTLs are read before an await and used after it.
* **Partial failure**: most services catch and log their own errors and answer a
  default, so that a handler goes on with half of its work done.
* **Crash**: Redis and the database survive a process that dies between two
  statements; timers and `socket.data` do not.
* **Timing**: key expiry in Redis against stamps taken by the process; heartbeats
  every 15 s against a TTL of 30 s; sessions whose TTL is read and then extended.
* **Outages and shutdown**: a command to Redis waits while Redis is away and fails
  once it is closed; `shutdown` closes the stores before it waits for the clients.
* **Protocol sequence**: handlers are registered only after an await; the ids in
  a client's request need not match its room; an invite names its own room.

`PROJECT.json` lists each hazard at its line with the property that covers it.

## 2. The modules

| Module | Models | Is used by |
|---|---|---|
| `SlidingWindow` | abstract: what a sliding-window limiter promises | `RateLimiter` |
| `RateLimiter` | `RateLimiterService` | `MCRateLimiter`, `RateLimiter_proofs` |
| `ChatDomain` | the constants the chat modules share | the next four |
| `Presence` | `PresenceService`: keys, and one operator per Redis command | `Gateway` |
| `MessageReceipts` | the tables and `MessageReceiptsService`: one operator per statement | `Gateway` |
| `Gateway` | `SocketService` over the two, with `getRoomMessages` of REST | `MCGateway`, `Gateway_proofs` |
| `RoomChat` | abstract: what the chat promises about messages and receipts | `Gateway` |
| `Sessions` | sessions: login, token checks, logouts | `MCSessions`, `Sessions_proofs` |
| `Membership` | abstract: who may become a member | `Rooms` |
| `Rooms` | `RoomsService`: create, invite, join | `MCRooms`, `Rooms_proofs` |
| `Routes` | the table of REST routes: guards, limits, and the stages of each service | `Server` |
| `Server` | the process: requests through their middlewares, sockets, `shutdown`, outages | `MCServer`, `Server_proofs` |
| `Content` | `ValidationService`: rules and cleaning of a message | its own run, `Content_proofs` |
| `RateLimiter_proofs`, `Gateway_proofs`, `GatewayDelivery_proofs`, `GatewayPresence_proofs`, `Sessions_proofs`, `Rooms_proofs`, `Server_proofs`, `Content_proofs` | theorems | – |

The `MC*` modules add only instances (who owns which socket, who is a member at
the start, which routes are served) and symmetry sets.

### State and actions

**RateLimiter.** `zset`/`expireAt` are the sorted set and the TTL of each
identifier's key. A member `${now}-${Math.random()}` is its score and the number
of its attempt. `Admit` and `Deny` are the two ways a check's pipeline ends
(the pipeline is one step, at a clock up to `Lag` later than its stamp;
`Stamps` keeps them in order, the connection being FIFO). If Redis fails in it, the
request is allowed where the count is missing or exec throws (`FailOpen`), and
refused where ZCARD answered and only a later command failed (`FailDeny`);
`PartOfPipeline` says what may have been written by then. `AnswerDenied` is the
rest of a refusal (ZREM, ZRANGE), and `AnswerFails` the same when a command fails:
the catch block then allows the request after all. `GetRateLimitStatus` and `ResetRateLimit` the
other methods, `Tick` the clock with Redis's key expiry. `log` is history.

**Gateway.** `task[h]` is a handler in flight with its program counter, socket,
user, room and what it read. `StartJoin`, `StartSend`, `StartTyping`, `StartRead`,
`StartFetch` receive an event; the actions from there on are its steps, for
`join_room`: `RefuseJoin`/`CheckJoin` (limit, validation, membership), `EnterRoom`
(`socket.join`, `currentRoomId`, SADD), `ReadPresence`, `CheckTtl`, `MarkOffline`
(`getUserPresence`), `FinishJoin`; for `send_message`: `RefuseSend`, `AcceptSend`,
`VerifySend`, `CreateMessage`, `FindRecipients`, `CreateReceipts`, `FailReceipts`,
`Broadcast`; for `typing`: `RefuseTyping`, `AcceptTyping`, `ShowTyping`; for a
listing over REST: `VerifyFetch`, `FetchPage`, `FetchReceipts`, `MarkFetched`.
`BecomeMember` is the join over REST, as far as the gateway notices. `DbError` is a
failing statement that ends a handler in its catch. `LeaveRoom` is one step, since
all it changes it changes before its first await takes effect. `Connect`/`Opened`
are the connection handler before and after `setUserOnline`; a socket that closes
in between (`CloseEarly`) is never heard of again. `Disconnect`/`CleanUp` are the
disconnect handler, `BeatGet`/`BeatSet` a heartbeat, `Tick` a heartbeat period
(15 s; a TTL of 30 s is `OnlineTtl = 2`), `Crash` the end of the process. `sent`,
`delivered`, `unreceipted` and the `audience` of a message are history.

**Sessions.** `expireAt` holds the session keys. `Login`; `Arrive` (a request
with a token, or a socket), `CheckTtl`, `Extend`, then `Serve`, `Logout` or
`ListSessions`/`DeleteNext`, `Answer`; `RedisError`; `Tick`. `ended`, `due` and
`late` are history: what a logout owes, and whether a request came after one.

**Rooms.** `isPrivate`, `rows` (of `room_members`, with the time, so that a
second row of a user would be a different one), `invites`, and requests in
flight: `CreateRoom`; `StartInvite`, `FindInviteRoom`, `VerifyInviter`,
`IssueInvite`; `StartJoin`, `FindJoinRoom`, `VerifyInvite`, `FindMembership`,
`InsertMembership`, `AnswerJoin`; `DbError`; `Tick`.

**Routes** is a table. A route has the guard and the DTO its controller declares,
a limit (`RateLimitConfig`, the first rule that matches its path) and the stages of
its service: which store each asks, whether it may refuse, and whether its error is
*masked* by a default (as every read of presence and of receipts is) or ends the
request.

**Server.** `request[q]` is a REST request on its way: `Arrive`, `Extract` (the
token), `Authorize` (a guest), `CheckLimit`, `Validate`, then `Serve`, `Refuse` or
`Fail` at each stage of its service, and `Finish`. `socket[s]` is a connection of a
user of its own, from the handshake on: `Connect`, `Authenticate` (the token, a wait
while Redis is away), `SetUserOnline`, which is awaited before there is a heartbeat or
a disconnect handler, so that a client that closes meanwhile (`CloseEarly`) leaves an
orphan; then `Disconnect`, its handler's `ClearPresence`, or `FailToClear` if Redis is
closed, and `LookUp`, whose error nobody catches (`LookUpFails`: the process shuts
itself down). `online` are the users last written as online; `BeatGet` and `BeatSet`
are a heartbeat, whose SETEX may follow a disconnect. (How long a written status
lasts, and what two devices of a user do to each other, is the gateway's.) `stop[p]` is
one call of `shutdown`, of which several may run: `Signal`, `CloseDatabase`,
`CloseQueues`, `CloseRedis`, `CloseHttp`, `Exit`. The connection to Redis is FIFO: QUIT
is issued by `CloseQueues` and takes effect in `CloseRedis`, after the commands issued
before it, and a disconnect handler that runs behind it is `lost`; so are commands that
have no answer when an outage lets ioredis close at once. `redis` goes
away and comes back (`GoAway`, `ComeBack`) until it is closed. The second client
that `Database.setup` makes is the one `shutdown` disconnects, so that closing the
database changes nothing for a request in flight.

**Content.** A text is a sequence of tokens, one per kind of character the rules
and patterns distinguish; a script tag is one token. The rules count characters
(`Length`, `Punctuation`), and `isLikelySpam` words: a word is known by where it begins
(`WordStarts`), and two are the same up to the case of their letters (`SameWord`). `Accept`/`Reject` are `validateMessage` on the text as it
came, `Sanitize` the five replacements of `sanitizeMessage` in their order. What a
replacement leaves are the positions it does not drop, in increasing order (`Nth`).

## 3. What the runs check

Passing runs (the longest takes about one minute on two workers):

| Run | Instance | Shows |
|---|---|---|
| `RateLimiter` | one identifier, limit 2 per 2 s, two ticks to a second, lag 1, 8 ticks, 5 checks, 1 failure in a pipeline or in an answer | `WindowLimit`: no window of `Window - Lag` admits more than the limit. `DeniedOnlyWhenBusy`: no refusal without as many attempts in the window. `RetryAfterPositive`. `ImplementsSlidingWindow`: refinement. (1,355,922 states) |
| `GatewayMessages` | two users with a socket each, one room that one of them founded, one message, two handlers, every event but `leave_room` and time | `OnlyMembersTakePart`, `ReceiptsWellFormed`, `BroadcastAfterReceipts`, `NothingStoredIsDropped`, `OnlyRecipientsRead`, `StatusNeverRegresses`, `ImplementsRoomChat` (468,494 states) |
| `GatewayPresence` | one user on two devices, two rooms, one handler, heartbeats, one crash, fairness | `SoleSessionOnline`, `SoleSessionListed`, `CurrentRoomIsJoined`, `DisconnectedFadesOut` (203,982 states) |
| `Sessions` | two users, two requests in flight, two tokens, two clock steps | `NoResurrection`, `RevokedIsRefused`, `LogoutEnds` |
| `Rooms` | two users, two rooms, two requests in flight, one clock step | `RoomsAreOwned`, `MembershipUnique`, `PrivateByInvitation`, `JoinedIsMember`, `ImplementsMembership` (465,134 states) |
| `Server` | one request at a time of six shapes of route, one socket, two shutdowns, one outage, fairness | `NoServiceAfterQuit`, `RoomsSurviveRedis`, `GhostsHaveACause`, `EveryRequestAnswered`, `StopsWhenQuiet` (167,430 states) |
| `Content` | every text of up to six tokens, at most eighteen characters, runs and words at most twice | `NoTagSurvives`, `ScriptTextIsDropped`, `PlainTextKeepsRules` (1,427,225 states) |

Each also checks its module's type invariant where it adds something.

*Bounds.* `MaxTime`, `MaxAttempts`, `MaxFaults`, `MaxCrashes`, `MaxTokens`,
`MaxOutages` and the slots (`Handlers`, `Requests`, `Stops`) bound the instances.
Two slots give every race of two handlers, and no handler of this code waits for
another, so a race of three adds only the same pairs. In `RateLimiter`, eight ticks
are two windows, so that entries age out, the key expires and fills again;
identifiers do not share keys, so one is enough (the proof is for any number). In
`Rooms`, an invite is valid for one of two instants, so it is used both in time and
too late. In `Sessions`, TTLs of 1, 2 and 3 ticks keep the order of 20 minutes, 5
and 30 days. In `Server`, requests share nothing but Redis and the process, so one
slot, used again and again, meets every state of both; the six routes are one of
each shape of guard, limit and stages; two calls of `shutdown` overlap in every
way. Sockets share nothing else either, and have a user each, so one passes through
every state of Redis and of `shutdown`, at each await of its life; the proof of
`GhostsHaveACause` is for any number. In `Content`, six tokens are enough for a tag inside a script element, a script element
inside a tag, and blanks on either side of each; the limits of 2000 characters,
of runs of ten, of a word five times in fewer than 50 words and of ratios above ten
characters become 18, 2, 2 in fewer than 4, and 2, so that each rule refuses some of
the texts and none refuses most of them.

*Split of the gateway.* `Events` says which client events and whether time occur
in an instance; the two passing runs together fire every action.
`GatewayPresence` assumes `Punctual` (a heartbeat's two commands and
`setUserOnline` take less than 15 s): without it a heartbeat could miss a TTL of
30 s. `EarlyClose` is off in it because of the finding `OrphanHeartbeat`, whose run
turns it on and drops `Punctual`.

*Deadlock* is checked where clocks, crashes and connections leave something to
do or nothing to wait for; it is off where an instance really stops: when all
sockets are closed and nothing more is asked, when the process has exited, or when
a text has been dealt with.

*Fairness.* In `Gateway` (`FairSpec`): weak fairness of every handler in flight, of
the connection and disconnect handlers, of heartbeats that are due, and of time: the
event loop runs what is settled, and queries answer or fail. In `Server`: weak
fairness of requests, the handlers of sockets and the steps of `shutdown`; closing Redis
is only sure to end while Redis is there. Nothing is assumed of clients, of crashes,
of signals, of the heartbeats of `Server`, or of Redis coming back: `EveryRequestAnswered` and `StopsWhenQuiet`
name what they need of those as a condition.

### Where the code and its documentation differ

Runs that TLC must find violated, each with an entry under "findings":

* `RateLimiterRefused`: a refused request is *not* taken out of the window; ZREM
  is given a member with a new random part. A client that keeps trying is refused
  until it pauses.
* `JoinUnread`: joining a room over the socket marks nothing as read:
  `getUnreadMessages` combines `select` and `include`, which Prisma rejects, and
  answers `[]` from its catch block.
* `TwoSessions`: when one of two devices disconnects the user goes offline, and
  the other device's heartbeat keeps the offline status alive.
* `RoomGhost`: after the last disconnect a user may still be listed in a room.
* `OrphanHeartbeat`: a socket that closes during `setUserOnline` leaves a
  heartbeat that is never cleared; its user reads as online for ever.

Met while modelling, without a run of their own: the limit for invites is chosen by
`/invite` (`rate-limit.ts:133`), while the controller serves
`/rooms/:roomId/invitations/:inviteeId`, so invites get the general limit (`Routes`
says so); `README.md:252` says that the database is closed cleanly, while `shutdown`
disconnects a second client made for the purpose, and the one in use stays open
until the process exits; a shutdown ends only when the last client disconnects, as
`httpServer.close` waits for sockets nobody closes (the condition of
`StopsWhenQuiet`); a client that closes in mid-handshake stays online without any
shutdown, and one that disconnects behind QUIT, or while a heartbeat of it is between
its two commands, is shown online until the TTL ends (the causes in
`GhostsHaveACause`); a text may pass the rules and be stored as a blank after its tags
were removed (`PlainTextKeepsRules` is about texts without markup for that reason), and
one without markup may be stored as a text the rules would refuse as spam, since the
share of its punctuation is taken before blanks are collapsed: "!!!!abcd", ten blanks
and "efg" is accepted, and stored with one blank (`PlainTextKeepsRules` promises the
spam rule only where no blank was dropped).

## 4. What is proved

With TLAPS, for all values of the constants that satisfy the named assumptions
(`LimiterAssumption`; `PresenceAssumption` and `GatewayAssumption`;
`SessionsAssumption`; `RoomsAssumption`; `ServerAssumption`; `ContentAssumption`),
users, rooms, handlers and so on being any sets, and texts of any length. Every safety
property a passing run checks is stated by a theorem:

* `RateLimiter_proofs`: `TypeCorrect`, `LimitHolds` (`WindowLimit`), `Refinement`
  (`ImplementsSlidingWindow`), `RefusalsAreDue` (`DeniedOnlyWhenBusy`) and
  `DelaysArePositive` (`RetryAfterPositive`). `WindowLimit` is not inductive: it
  needs `Kept`, that every granted request younger than `Window - Lag` is still in
  the sorted set and that the key will not expire before it is too old to count;
  `Numbered`, that attempts carry distinct numbers below the next one; and
  `FiniteKeys`, so that cardinalities are numbers. `Inv` is their conjunction.
  A step that grants adds one element to a window whose granted requests are all
  among those counted (`WindowIsCounted`, `GrantKeepsLimit`); every other step
  grants nothing (`NoGrantKeepsLimit`), so only `Kept` has to be re-established.
  The refinement maps `Admit` to `Grant`, a reset to `Forget`, the rest to a
  stutter or to `Pass`. Refusals need three more parts (`RefusalInvariance`):
  `Traced`, that each member of a sorted set is a logged request, so that the pruned
  set a refusal counted injects into the attempts of its window (`DenyWasBusy`; later
  steps add to the log, or turn a refusal into a permission, `Relabelled`); `Fresh`, that between a refusal and its ZRANGE nothing
  as old as its window comes into the set, from which a delay of at least one second
  follows whatever other checks have done to the set; and `Answered`, that a logged
  refusal has a delay or is pending itself.
* `Gateway_proofs`: `TypeCorrect`, `MembersOnly` (`OnlyMembersTakePart`) and
  `ReceiptsCorrect` (`ReceiptsWellFormed`). The inductive invariant `IInv` adds
  what each handler in flight knows (`TaskOK`): from `join enter` on, its user is
  a member of its room; from `send create` on too; once the message is stored,
  the message is the user's own in that room; recipients found are members other
  than the sender. It survives other handlers' steps because membership and
  messages only grow (`KeepsInformed`), and one handler's step disturbs no other
  (`OneMoves`). There is one lemma per group of actions; `Frame` takes the steps
  that leave the tables alone.
* `GatewayDelivery_proofs`, on top of it: `ReceiptsFirst` (`BroadcastAfterReceipts`),
  `NothingDropped` (`NothingStoredIsDropped`), `RecipientsOnly`
  (`OnlyRecipientsRead`), `StatusAdvances` (`StatusNeverRegresses`),
  `CurrentRoomJoined` (`CurrentRoomIsJoined`) and `Refinement`
  (`ImplementsRoomChat`). None of them is inductive: between storing and pushing, a
  message's receipts are partly in a handler's variables. `Delivery` says that one
  handler at most carries a message, that nobody has it yet, and that those of its
  audience without a receipt are among the recipients the handler has found or is
  about to find. Every step is one of the five that send a message or is `Quiet`
  (`HandlerIsQuiet`), and `Quiet` steps keep `Delivery` at once. The read status of a
  pushed message cannot fall because no receipt is ever created for it again. For the
  current room, `Joined` adds that a socket whose handlers are not registered has
  none. For the refinement, storing a message maps to `Post`, creating receipts to
  `Issue`, pushing to `Push`, marking to `Read`, and the rest to a stutter.
* `GatewayPresence_proofs`, on top of both: `SoleOnline` (`SoleSessionOnline`) and
  `SoleListed` (`SoleSessionListed`), for a user all of whose other sockets were never
  used (`Sole`). Both keys are written blindly, so the invariant follows every value
  that is on its way to a write. `Shown` says that the heartbeat in flight does not
  carry "offline", that the TTL is at least 1, and at least 2 wherever the socket may
  yet wait for a whole period (`Ahead`), and that no `getUserPresence` has decided that
  the status is over (`Undecided`): the TTL it reads is positive as long as `Ahead`
  holds. `Dormant` keeps sockets that are not open from beating and those that are not
  closed from cleaning up. `SoleOnline` assumes `Punctual` and `OnlineTtl >= 2`: the
  code has a period of 15 s (`presence.service.ts`) and a TTL of 30 s, and both
  hypotheses are needed, as a status of one period would run out between two beats.
  `SoleListed` needs neither: a room's list is changed for a user only by the user's
  own join, leave and disconnect. It is about the 24 h after a room's last join, as
  the expiry of the room's key is not modelled (section 5).
* `Sessions_proofs`: `TypeCorrect`, `LogoutEndsSessions` (`LogoutEnds`),
  `RevokedRefused` (`RevokedIsRefused`) and `LoginsOnly` (`NoResurrection`). A logout
  acts on a list it read earlier: `RequestOK` says that what it still owes is alive,
  its user's, and on the list once there is one. That a refused token stays refused
  needs that a session in `ended` is dead, which an extension keeps because EXPIRE
  ignores a missing key.
* `Rooms_proofs`: `TypeCorrect`, `RoomOwned` (`RoomsAreOwned`), `OneMembership`
  (`MembershipUnique`), `PrivateInvited` (`PrivateByInvitation`), `JoinedMember`
  (`JoinedIsMember`) and `Refinement` (`ImplementsMembership`). Requests act on what
  earlier queries found (`RequestOK`: the room exists, and is public or one the user
  was invited to); that stays true because tables only grow (`Grows`). What a request
  found *missing* may be there by now: that a membership stays unique rests on the
  constraint alone. `TablesOK` ties rows to rooms and invites to inviters.
* `Server_proofs`: `TypeCorrect`, `RefusedAfterQuit` (`NoServiceAfterQuit`),
  `RoomsOutliveRedis` (`RoomsSurviveRedis`) and `GhostsExplained`
  (`GhostsHaveACause`). The invariant adds of each request that it is late only
  if Redis is closed, and has a code only once it is answered; closed, Redis stays
  closed (`StaysQuit`). The rest is a matter of the table: each service has one to
  three stages (`Stages13`), and those of the room routes that ask Redis mask its
  errors (`RoomsMaskRedis`). For ghosts it adds that nobody is online before
  `SetUserOnline` (`NotYetOnline`), and that with Redis closed no disconnect handler
  has a command ahead of QUIT (`NoneAhead`).
* `Content_proofs`: `NoMarkupStored` (`NoTagSurvives`), `ScriptTextDropped`
  (`ScriptTextIsDropped`) and `PlainTextStaysWellFormed` (`PlainTextKeepsRules`). The
  invariant (`Cleaned`) is small; the work is in what cleaning does to a text of any
  length. `NthFacts` says that `Nth` is increasing and finds every position kept, by
  counting; a "<" left with a ">" after it would have been dropped up to the first
  ">" after it (`FirstPosition`: a set of positions has a first). For the other two,
  `Squeezes` says that what collapsing and trimming drop is blanks, none of them right
  behind another token; it is transitive, and takes no position out of a script element
  (`ScriptsAreSqueezed`), so that each stored letter has one of its own outside of
  them (`LettersComeFrom`). A run of non-blanks stood in one piece before
  (`RunsStoodTogether`), and there is no run of blanks (`SqueezedIsWellFormed`). Where
  no blank was dropped the text is the one received but for newlines that became
  spaces, and the spam rules do not tell those apart (`BlanksAreAlike`). Without markup
  a token is a character (`PlainCharacters`). Induction stands behind none of this but
  the least element of a set of numbers.

Only model-checked: liveness and its fairness (`DisconnectedFadesOut`,
`EveryRequestAnswered`, `StopsWhenQuiet`), which is out of the prover's reach, and the
five disagreements, which are counterexamples.

## 5. What is not modelled, and why

* Composition of the limiter with the gateway: a handler may be refused or allowed
  at any time, which is more than the limiter does; its own state does not depend on
  the handlers either, so that nothing is learnt from the product of the two.
* Registration's race for one e-mail address (the unique index decides, the second
  is answered 500 instead of 409), the hashing of passwords, and the half of
  `auth.service.ts` that is commented out. Registration and login are one stage of
  `Routes` with their outcomes.
* Errors of Redis in `PresenceService` while the gateway runs (each method logs and
  goes on; `Server` has them for the reads of REST and for disconnects) and the 24 h
  expiry of a room's presence key: after that, whoever is in a room that nobody
  has joined since drops off its list.
* ioredis re-sends commands after a reconnect; a pipeline executed twice would
  count its own request. `RateLimiter` executes a pipeline, or part of it, once.
* Blocked words (the list is empty); punctuation other than "<", ">" and the slash of a
  closing tag, which adds to the ratio and to nothing else; and the shape checks of ids and of typing data (a handler may refuse).
* `deleted_at` of rooms, members, messages and users: no code ever sets it.
* Paging: a page is the whole room; `skip` and `take` are arithmetic on an index.
* VARCHAR(191) for a content of up to 2000 characters: what happens depends on the
  SQL mode of the database.
* The request fields that `BaseService` keeps for log lines on singletons: concurrent
  requests overwrite them, and nothing but logs reads them.
* Configuration and dependency injection (read once), the job queue (no job is ever
  added, the processor knows no job name) and mail.
* Several server processes: the code has no Socket.IO adapter for more than one.

## 6. Plan

What is left, in order of what it would show:

1. Re-sent pipelines in `RateLimiter`, with the bound on the error they add.
2. Registration as a race of requests for the unique index.
3. What two devices of one user are promised, beyond the finding `TwoSessions`: which
   of the presence keys still tell the truth, and after how long.
