------------------------------- MODULE Gateway -------------------------------
(***************************************************************************)
(* SocketService (app/realtime/socket.ts) over the presence keys and the   *)
(* message tables, together with the REST handler that lists messages      *)
(* (getRoomMessages in app/rooms/rooms.service.ts).                        *)
(*                                                                         *)
(* A handler is an async function: it runs without interruption from one   *)
(* await to the next, and between two awaits anything else may run.  A     *)
(* handler in flight is a task with a program counter, and a step of it is *)
(* what it does from one await to the next.  A Redis command takes effect  *)
(* when it is issued (one FIFO connection); a database statement takes     *)
(* effect when its step runs.  A rate limiter's verdict, and validation of *)
(* the payload, are nondeterministic here: RateLimiter models the first.   *)
(*                                                                         *)
(* Phases of a socket:                                                     *)
(*   new      not yet connected                                            *)
(*   opening  in the connection handler, awaiting setUserOnline: no event  *)
(*            handler is registered yet, events are dropped                *)
(*   open     handlers registered, heartbeat running                       *)
(*   lost     closed while opening: nobody heard the disconnect            *)
(*   orphan   a lost socket whose connection handler went on to start the  *)
(*            heartbeat                                                    *)
(*   closed   its disconnect handler has run, or the process died          *)
(***************************************************************************)
EXTENDS Presence, MessageReceipts

CONSTANTS
    Sockets,        \* connections, each used once
    UserOf,         \* the user a socket authenticated as
    Handlers,       \* slots for handlers in flight: a bound on concurrency
    Founders,       \* room -> its members at the start
    Events,         \* what happens in this instance: client events, and time
    Punctual,       \* heartbeats and connection set-up take less than a period
    EarlyClose,     \* a socket may close while it is opening
    DbFaults,       \* database statements may fail
    MaxCrashes      \* bound: number of crashes of the process

EventKinds == {"join", "leave", "send", "type", "read", "fetch", "member",
               "disconnect", "time"}

ASSUME GatewayAssumption ==
    /\ UserOf \in [Sockets -> Users]
    /\ Founders \in [Rooms -> SUBSET Users]
    /\ Events \subseteq EventKinds
    /\ Punctual \in BOOLEAN /\ EarlyClose \in BOOLEAN /\ DbFaults \in BOOLEAN
    /\ MaxCrashes \in Nat
    /\ None \notin Rooms \cup Sockets \cup Users \cup Message
    /\ None \notin [room : Rooms, sender : Users]

VARIABLES
    phase,          \* socket -> where it is in its life
    ioRooms,        \* socket -> the Socket.IO rooms it is in
    current,        \* socket -> socket.data.currentRoomId
    cleanup,        \* socket -> room its disconnect handler has yet to clean
    beat,           \* socket -> its heartbeat, see Beats
    task,           \* handler slot -> the handler in flight
    crashes,
    sent,           \* history: messages whose receive_message was emitted
    delivered,      \* history: <<socket, message>> that received it
    unreceipted     \* history: messages whose receipts failed

socketVars == <<phase, ioRooms, current, cleanup, beat>>
history == <<sent, delivered, unreceipted>>
vars == <<socketVars, task, crashes, history, presenceVars, dbVars>>

Phases == {"new", "opening", "open", "lost", "orphan", "closed"}

\* A heartbeat is off, waiting for its period, due, or in the middle of
\* updateLastSeen with the status its GET read.
Beats == {"off", "waiting", "due", "online", "offline"}

PCs == {"idle",
        "join check", "join enter", "join presence", "join ttl",
        "join offline", "join unread",
        "send limit", "send verify", "send create", "send recipients",
        "send receipts", "send broadcast", "type limit", "type lookup",
        "read", "fetch verify", "fetch page", "fetch receipts", "fetch mark"}

Task == [pc : PCs, sock : Sockets \cup {None}, user : Users \cup {None},
         room : Rooms \cup {None}, ids : SUBSET MessageIds, to : SUBSET Users]

Idle == [pc |-> "idle", sock |-> None, user |-> None, room |-> None,
         ids |-> {}, to |-> {}]

Init ==
    /\ PresenceInit
    /\ DbInit(Founders)
    /\ phase = [s \in Sockets |-> "new"]
    /\ ioRooms = [s \in Sockets |-> {}]
    /\ current = [s \in Sockets |-> None]
    /\ cleanup = [s \in Sockets |-> None]
    /\ beat = [s \in Sockets |-> "off"]
    /\ task = [h \in Handlers |-> Idle]
    /\ crashes = 0
    /\ sent = {} /\ delivered = {} /\ unreceipted = {}

At(h, pc) == task[h].pc = pc

Goto(h, pc) == task' = [task EXCEPT ![h].pc = pc]

Done(h) == task' = [task EXCEPT ![h] = Idle]

Start(h, pc, s, u, r, ids) ==
    /\ At(h, "idle")
    /\ task' = [task EXCEPT ![h] =
         [pc |-> pc, sock |-> s, user |-> u, room |-> r, ids |-> ids, to |-> {}]]

\* An event reaches a registered handler of an open socket.
Receive(h, kind, pc, s, r, ids) ==
    /\ kind \in Events
    /\ phase[s] = "open"
    /\ Start(h, pc, s, UserOf[s], r, ids)
    /\ UNCHANGED <<socketVars, crashes, history, presenceVars, dbVars>>

------------------------------------------------------------------------------
\* Connection and disconnection.

Connect(s) ==
    /\ phase[s] = "new"
    /\ phase' = [phase EXCEPT ![s] = "opening"]
    /\ SetUserOnline(UserOf[s])
    /\ UNCHANGED <<ioRooms, current, cleanup, beat, task, crashes, history,
                   roomUsers, dbVars>>

\* setUserOnline was answered: startHeartbeat and the handlers, whether or not
\* the socket is still there.
Opened(s) ==
    /\ \/ phase[s] = "opening" /\ phase' = [phase EXCEPT ![s] = "open"]
       \/ phase[s] = "lost" /\ phase' = [phase EXCEPT ![s] = "orphan"]
    /\ beat' = [beat EXCEPT ![s] = "waiting"]
    /\ UNCHANGED <<ioRooms, current, cleanup, task, crashes, history,
                   presenceVars, dbVars>>

CloseEarly(s) ==
    /\ EarlyClose
    /\ phase[s] = "opening"
    /\ phase' = [phase EXCEPT ![s] = "lost"]
    /\ UNCHANGED <<ioRooms, current, cleanup, beat, task, crashes, history,
                   presenceVars, dbVars>>

\* clearInterval stops the timer, not an updateLastSeen it has started.
StopBeat(b) == IF b \in {"online", "offline"} THEN b ELSE "off"

\* The disconnect handler up to its first await.  The socket has left its
\* Socket.IO rooms; only the current room will be cleaned up.
Disconnect(s) ==
    /\ "disconnect" \in Events
    /\ phase[s] = "open"
    /\ phase' = [phase EXCEPT ![s] = "closed"]
    /\ ioRooms' = [ioRooms EXCEPT ![s] = {}]
    /\ beat' = [beat EXCEPT ![s] = StopBeat(@)]
    /\ cleanup' = [cleanup EXCEPT ![s] = current[s]]
    /\ SetUserOffline(UserOf[s])
    /\ UNCHANGED <<current, task, crashes, history, roomUsers, dbVars>>

\* The rest of handleUserDisconnect.
CleanUp(s) ==
    /\ cleanup[s] # None
    /\ RemoveUserFromRoom(cleanup[s], UserOf[s])
    /\ cleanup' = [cleanup EXCEPT ![s] = None]
    /\ UNCHANGED <<phase, ioRooms, current, beat, task, crashes, history,
                   status, ttl, dbVars>>

\* updateLastSeen: a GET, and a SETEX of what it read.
BeatGet(s) ==
    /\ beat[s] = "due"
    /\ beat' = [beat EXCEPT ![s] =
         IF status[UserOf[s]] = "absent" THEN "waiting" ELSE status[UserOf[s]]]
    /\ UNCHANGED <<phase, ioRooms, current, cleanup, task, crashes, history,
                   presenceVars, dbVars>>

\* Mutant: a heartbeat in flight escapes clearInterval.
BeatSetKeepsTimer(s) ==
    /\ beat[s] \in {"online", "offline"}
    /\ WriteLastSeen(UserOf[s], beat[s])
    /\ beat' = [beat EXCEPT ![s] = "waiting"]
    /\ UNCHANGED <<phase, ioRooms, current, cleanup, task, crashes, history,
                   roomUsers, dbVars>>

BeatSet(s) ==
    /\ beat[s] \in {"online", "offline"}
    /\ WriteLastSeen(UserOf[s], beat[s])
    /\ beat' = [beat EXCEPT ![s] =
         IF phase[s] \in {"open", "orphan"} THEN "waiting" ELSE "off"]
    /\ UNCHANGED <<phase, ioRooms, current, cleanup, task, crashes, history,
                   roomUsers, dbVars>>

\* A heartbeat period passes.
Tick ==
    /\ "time" \in Events
    /\ Punctual => \A s \in Sockets : /\ beat[s] \in {"off", "waiting"}
                                      /\ phase[s] # "opening"
    /\ PresenceTick
    /\ beat' = [s \in Sockets |-> IF beat[s] = "waiting" THEN "due" ELSE beat[s]]
    /\ UNCHANGED <<phase, ioRooms, current, cleanup, task, crashes, history, dbVars>>

\* The process dies: connections, timers and handlers are gone, Redis and the
\* database keep what they have.
Crash ==
    /\ crashes < MaxCrashes
    /\ crashes' = crashes + 1
    /\ phase' = [s \in Sockets |-> IF phase[s] = "new" THEN "new" ELSE "closed"]
    /\ ioRooms' = [s \in Sockets |-> {}]
    /\ current' = [s \in Sockets |-> None]
    /\ cleanup' = [s \in Sockets |-> None]
    /\ beat' = [s \in Sockets |-> "off"]
    /\ task' = [h \in Handlers |-> Idle]
    /\ UNCHANGED <<history, presenceVars, dbVars>>

------------------------------------------------------------------------------
\* join_room.

StartJoin(h, s, r) == Receive(h, "join", "join check", s, r, {})

\* Rate limited, invalid, or no such room: join_room_error.
RefuseJoin(h) ==
    /\ At(h, "join check")
    /\ Done(h)
    /\ UNCHANGED <<socketVars, crashes, history, presenceVars, dbVars>>

\* Mutant: no membership check.
CheckJoinUnchecked(h) ==
    /\ At(h, "join check")
    /\ Goto(h, "join enter")
    /\ UNCHANGED <<socketVars, crashes, history, presenceVars, dbVars>>

CheckJoin(h) ==
    /\ At(h, "join check")
    /\ IF IsMember(task[h].user, task[h].room) THEN Goto(h, "join enter") ELSE Done(h)
    /\ UNCHANGED <<socketVars, crashes, history, presenceVars, dbVars>>

\* socket.join does nothing on a closed socket; the rest of the step does not
\* look whether the socket is still connected.
EnterRoom(h) ==
    LET s == task[h].sock
        r == task[h].room
    IN  /\ At(h, "join enter")
        /\ ioRooms' = [ioRooms EXCEPT ![s] =
                         IF phase[s] = "open" THEN @ \cup {r} ELSE @]
        /\ current' = [current EXCEPT ![s] = r]
        /\ AddUserToRoom(r, task[h].user)
        /\ Goto(h, "join presence")
        /\ UNCHANGED <<phase, cleanup, beat, crashes, history, status, ttl, dbVars>>

\* getUserPresence: GET, TTL of an online status, and SETEX when it is over.
ReadPresence(h) ==
    /\ At(h, "join presence")
    /\ Goto(h, IF status[task[h].user] = "online" THEN "join ttl" ELSE "join unread")
    /\ UNCHANGED <<socketVars, crashes, history, presenceVars, dbVars>>

CheckTtl(h) ==
    /\ At(h, "join ttl")
    /\ Goto(h, IF StatusExpired(task[h].user) THEN "join offline" ELSE "join unread")
    /\ UNCHANGED <<socketVars, crashes, history, presenceVars, dbVars>>

MarkOffline(h) ==
    /\ At(h, "join offline")
    /\ SetUserOffline(task[h].user)
    /\ Goto(h, "join unread")
    /\ UNCHANGED <<socketVars, crashes, history, roomUsers, dbVars>>

\* getUnreadMessages, markMultipleAsRead of its answer, joined_room.
FinishJoin(h) ==
    LET u == task[h].user
    IN  /\ At(h, "join unread")
        /\ MarkAsRead(GetUnreadMessages(u, task[h].room), u)
        /\ Done(h)
        /\ UNCHANGED <<socketVars, crashes, history, presenceVars>>

\* A database error ends a handler in its catch block, which undoes nothing; an
\* update of receipts that fails is logged and swallowed.
DbError(h) ==
    /\ DbFaults
    /\ \E pc \in {"join check", "join unread", "send verify", "send create",
                   "type lookup", "read", "fetch verify", "fetch page",
                   "fetch mark"} : At(h, pc)
    /\ Done(h)
    /\ UNCHANGED <<socketVars, crashes, history, presenceVars, dbVars>>

------------------------------------------------------------------------------
\* send_message.

StartSend(h, s, r) == Receive(h, "send", "send limit", s, r, {})

RefuseSend(h) ==
    /\ At(h, "send limit")
    /\ Done(h)
    /\ UNCHANGED <<socketVars, crashes, history, presenceVars, dbVars>>

\* The limiter allowed it: is the socket in the room?
AcceptSend(h) ==
    /\ At(h, "send limit")
    /\ IF current[task[h].sock] = task[h].room THEN Goto(h, "send verify") ELSE Done(h)
    /\ UNCHANGED <<socketVars, crashes, history, presenceVars, dbVars>>

VerifySend(h) ==
    /\ At(h, "send verify")
    /\ IF IsMember(task[h].user, task[h].room) THEN Goto(h, "send create") ELSE Done(h)
    /\ UNCHANGED <<socketVars, crashes, history, presenceVars, dbVars>>

CreateMessage(h, m) ==
    /\ At(h, "send create")
    /\ InsertMessage(m, task[h].room, task[h].user)
    /\ task' = [task EXCEPT ![h].pc = "send recipients", ![h].ids = {m}]
    /\ UNCHANGED <<socketVars, crashes, history, presenceVars>>

\* Mutant: createDeliveryReceipts does not wait for createMany.
FindRecipientsOnly(h) ==
    /\ At(h, "send recipients")
    /\ task' = [task EXCEPT ![h].pc = "send broadcast"]
    /\ UNCHANGED <<socketVars, crashes, history, presenceVars, dbVars>>

\* createDeliveryReceipts, which returns early when there is no recipient.
FindRecipients(h) ==
    LET to == Recipients(task[h].room, task[h].user)
    IN  /\ At(h, "send recipients")
        /\ task' = [task EXCEPT
              ![h].pc = IF to = {} THEN "send broadcast" ELSE "send receipts",
              ![h].to = to]
        /\ UNCHANGED <<socketVars, crashes, history, presenceVars, dbVars>>

CreateReceipts(h) ==
    /\ At(h, "send receipts")
    /\ InsertReceipts(task[h].ids, task[h].to)
    /\ Goto(h, "send broadcast")
    /\ UNCHANGED <<socketVars, crashes, history, presenceVars>>

\* Mutant: the error ends send_message.
FailReceiptsThrows(h) ==
    /\ DbFaults
    /\ At(h, "send recipients") \/ At(h, "send receipts")
    /\ unreceipted' = unreceipted \cup task[h].ids
    /\ Done(h)
    /\ UNCHANGED <<socketVars, crashes, sent, delivered, presenceVars, dbVars>>

\* An error of either statement is logged and swallowed.
FailReceipts(h) ==
    /\ DbFaults
    /\ At(h, "send recipients") \/ At(h, "send receipts")
    /\ unreceipted' = unreceipted \cup task[h].ids
    /\ Goto(h, "send broadcast")
    /\ UNCHANGED <<socketVars, crashes, sent, delivered, presenceVars, dbVars>>

\* Mutant: sockets looked up by user.
ListenersByUser(r) == {UserOf[s] : s \in {x \in Sockets : r \in ioRooms[x]}}

\* io.to(roomId).emit('receive_message')
Listeners(r) == {s \in Sockets : r \in ioRooms[s]}

\* Mutant: the emit is retried.
BroadcastRetried(h) ==
    /\ At(h, "send broadcast")
    /\ sent' = sent \cup task[h].ids
    /\ delivered' = delivered \cup (Listeners(task[h].room) \X task[h].ids)
    /\ Done(h) \/ UNCHANGED task
    /\ UNCHANGED <<socketVars, crashes, unreceipted, presenceVars, dbVars>>

Broadcast(h) ==
    /\ At(h, "send broadcast")
    /\ sent' = sent \cup task[h].ids
    /\ delivered' = delivered \cup (Listeners(task[h].room) \X task[h].ids)
    /\ Done(h)
    /\ UNCHANGED <<socketVars, crashes, unreceipted, presenceVars, dbVars>>

------------------------------------------------------------------------------
\* typing: the room is looked at, membership is not.

StartTyping(h, s, r) == Receive(h, "type", "type limit", s, r, {})

\* Rate limited, or invalid: nobody is told.
RefuseTyping(h) ==
    /\ At(h, "type limit")
    /\ Done(h)
    /\ UNCHANGED <<socketVars, crashes, history, presenceVars, dbVars>>

\* Mutant: currentRoomId is not looked at.
AcceptTypingAnywhere(h) ==
    /\ At(h, "type limit")
    /\ Goto(h, "type lookup")
    /\ UNCHANGED <<socketVars, crashes, history, presenceVars, dbVars>>

AcceptTyping(h) ==
    /\ At(h, "type limit")
    /\ IF current[task[h].sock] = task[h].room THEN Goto(h, "type lookup") ELSE Done(h)
    /\ UNCHANGED <<socketVars, crashes, history, presenceVars, dbVars>>

\* getUserPublic was answered: the others in the room see the user typing.
ShowTyping(h) ==
    /\ At(h, "type lookup")
    /\ Done(h)
    /\ UNCHANGED <<socketVars, crashes, history, presenceVars, dbVars>>

------------------------------------------------------------------------------
\* message_read and mark_messages_read: the ids are the client's, and may name
\* messages of any room.

StartRead(h, s, r, ids) ==
    /\ current[s] = r
    /\ Receive(h, "read", "read", s, r, ids)

ExecRead(h) ==
    /\ At(h, "read")
    /\ MarkAsRead(task[h].ids, task[h].user)
    /\ Done(h)
    /\ UNCHANGED <<socketVars, crashes, history, presenceVars>>

------------------------------------------------------------------------------
\* leave_room: everything but its notifications happens before its first await.

\* Mutant: currentRoomId is not reset.
LeaveRoomNoReset(s, r) ==
    /\ "leave" \in Events
    /\ phase[s] = "open"
    /\ ioRooms' = [ioRooms EXCEPT ![s] = @ \ {r}]
    /\ RemoveUserFromRoom(r, UserOf[s])
    /\ UNCHANGED <<phase, current, cleanup, beat, task, crashes, history, status,
                   ttl, dbVars>>

\* Mutant: the user is removed from the current room, whichever is left.
LeaveRoomCurrent(s, r) ==
    /\ "leave" \in Events
    /\ phase[s] = "open" /\ current[s] # None
    /\ ioRooms' = [ioRooms EXCEPT ![s] = @ \ {r}]
    /\ current' = [current EXCEPT ![s] = IF @ = r THEN None ELSE @]
    /\ RemoveUserFromRoom(current[s], UserOf[s])
    /\ UNCHANGED <<phase, cleanup, beat, task, crashes, history, status, ttl, dbVars>>

LeaveRoom(s, r) ==
    /\ "leave" \in Events
    /\ phase[s] = "open"
    /\ ioRooms' = [ioRooms EXCEPT ![s] = @ \ {r}]
    /\ current' = [current EXCEPT ![s] = IF @ = r THEN None ELSE @]
    /\ RemoveUserFromRoom(r, UserOf[s])
    /\ UNCHANGED <<phase, cleanup, beat, task, crashes, history, status, ttl, dbVars>>

------------------------------------------------------------------------------
\* REST: list the messages of a room, and join it (RoomsService).

StartFetch(h, u, r) ==
    /\ "fetch" \in Events
    /\ Start(h, "fetch verify", None, u, r, {})
    /\ UNCHANGED <<socketVars, crashes, history, presenceVars, dbVars>>

VerifyFetch(h) ==
    /\ At(h, "fetch verify")
    /\ IF IsMember(task[h].user, task[h].room) THEN Goto(h, "fetch page") ELSE Done(h)
    /\ UNCHANGED <<socketVars, crashes, history, presenceVars, dbVars>>

FetchPage(h) ==
    /\ At(h, "fetch page")
    /\ task' = [task EXCEPT ![h].pc = "fetch receipts", ![h].ids = Page(task[h].room)]
    /\ UNCHANGED <<socketVars, crashes, history, presenceVars, dbVars>>

\* getMessagesWithReceipts: the read status of each message, or of none when the
\* query fails, before the caller's own receipts are marked.
FetchReceipts(h) ==
    /\ At(h, "fetch receipts")
    /\ Goto(h, "fetch mark")
    /\ UNCHANGED <<socketVars, crashes, history, presenceVars, dbVars>>

\* markMultipleAsRead, and the answer.
MarkFetched(h) ==
    /\ At(h, "fetch mark")
    /\ MarkAsRead(task[h].ids, task[h].user)
    /\ Done(h)
    /\ UNCHANGED <<socketVars, crashes, history, presenceVars>>

BecomeMember(r, u) ==
    /\ "member" \in Events
    /\ AddMember(r, u)
    /\ UNCHANGED <<socketVars, task, crashes, history, presenceVars>>

------------------------------------------------------------------------------
JoinStep(h) ==
    \/ RefuseJoin(h) \/ CheckJoin(h) \/ EnterRoom(h) \/ ReadPresence(h)
    \/ CheckTtl(h) \/ MarkOffline(h) \/ FinishJoin(h)

SendStep(h) ==
    \/ RefuseSend(h) \/ AcceptSend(h) \/ VerifySend(h)
    \/ \E m \in MessageIds : CreateMessage(h, m)
    \/ FindRecipients(h) \/ CreateReceipts(h) \/ FailReceipts(h) \/ Broadcast(h)

TypingStep(h) == RefuseTyping(h) \/ AcceptTyping(h) \/ ShowTyping(h)

FetchStep(h) == VerifyFetch(h) \/ FetchPage(h) \/ FetchReceipts(h) \/ MarkFetched(h)

\* A handler in flight goes on.
Step(h) ==
    \/ JoinStep(h) \/ SendStep(h) \/ TypingStep(h) \/ FetchStep(h) \/ ExecRead(h)
    \/ DbError(h)

Receipt(h) ==
    \E s \in Sockets, r \in Rooms :
        \/ StartJoin(h, s, r)
        \/ StartSend(h, s, r)
        \/ StartTyping(h, s, r)
        \/ \E ids \in SUBSET MessageIds : StartRead(h, s, r, ids)

SocketStep(s) ==
    \/ Connect(s) \/ Opened(s) \/ CloseEarly(s) \/ Disconnect(s) \/ CleanUp(s)
    \/ BeatGet(s) \/ BeatSet(s)
    \/ \E r \in Rooms : LeaveRoom(s, r)

Next ==
    \/ \E h \in Handlers : Step(h) \/ Receipt(h)
    \/ \E h \in Handlers, u \in Users, r \in Rooms : StartFetch(h, u, r)
    \/ \E s \in Sockets : SocketStep(s)
    \/ \E r \in Rooms, u \in Users : BecomeMember(r, u)
    \/ Tick
    \/ Crash

Spec == Init /\ [][Next]_vars

\* Promises that were issued settle, and timers fire: every handler that is in
\* flight goes on, every connection handler and disconnect handler finishes,
\* every heartbeat that is due runs, and time passes.  Nothing is assumed of
\* what clients do.
Fairness ==
    /\ \A h \in Handlers : WF_vars(Step(h))
    /\ \A s \in Sockets : /\ WF_vars(Opened(s)) /\ WF_vars(CleanUp(s))
                          /\ WF_vars(BeatGet(s)) /\ WF_vars(BeatSet(s))
    /\ WF_vars(Tick)

FairSpec == Spec /\ Fairness

------------------------------------------------------------------------------
\* Types of the state.
TypeOK ==
    /\ PresenceType
    /\ DbType
    /\ phase \in [Sockets -> Phases]
    /\ ioRooms \in [Sockets -> SUBSET Rooms]
    /\ current \in [Sockets -> Rooms \cup {None}]
    /\ cleanup \in [Sockets -> Rooms \cup {None}]
    /\ beat \in [Sockets -> Beats]
    /\ task \in [Handlers -> Task]
    /\ crashes \in Nat
    /\ sent \subseteq MessageIds
    /\ delivered \subseteq Sockets \X MessageIds
    /\ unreceipted \subseteq MessageIds

\* "Only room members can join a room over WebSocket, send/receive messages"
\* (README): a socket in a Socket.IO room, a sender, a receiver and whoever is
\* about to be shown as typing are members, although membership is read one or
\* more steps before it is used, and not at all by the typing handler.
OnlyMembersTakePart ==
    /\ \A s \in Sockets : \A r \in ioRooms[s] : IsMember(UserOf[s], r)
    /\ \A m \in Stored : IsMember(messages[m].sender, messages[m].room)
    /\ \A d \in delivered : /\ d[2] \in Stored
                             /\ IsMember(UserOf[d[1]], messages[d[2]].room)
    /\ \A h \in Handlers :
         At(h, "type lookup") => IsMember(task[h].user, task[h].room)

\* A receipt is owed by a member, other than the sender, for a stored message,
\* and only a receipt that exists is read: createDeliveryReceipts finds the
\* recipients and inserts their rows in separate statements, and the ids that
\* clients mark as read are not checked at all.
ReceiptsWellFormed ==
    /\ read \subseteq receipts
    /\ \A p \in receipts : /\ p[1] \in Stored
                           /\ IsMember(p[2], messages[p[1]].room)
                           /\ p[2] # messages[p[1]].sender

\* The room a connected socket may send to is one whose messages it receives,
\* whatever the order of concurrent joins, leaves and a disconnect.
CurrentRoomIsJoined ==
    \A s \in Sockets :
        phase[s] = "open" /\ current[s] # None => current[s] \in ioRooms[s]

\* When a message reaches anyone, everyone who was in the room when it was
\* stored, but the sender, has a receipt for it (unless the statements that
\* create receipts failed).
BroadcastAfterReceipts ==
    \A m \in sent \ unreceipted : \A u \in messages[m].audience :
        u # messages[m].sender => <<m, u>> \in receipts

\* A receipt becomes read, and read for good, only by a step of a handler that
\* runs for its recipient.
OnlyRecipientsRead ==
    [][/\ read \subseteq read'
       /\ \A p \in read' \ read : \E h \in Handlers :
              task[h].user = p[2] /\ task'[h] = Idle]_vars

\* A user with one connection in all, and the connection open, is online: the
\* heartbeat keeps ahead of PRESENCE_TTL, and no stale write of a heartbeat or
\* of getUserPresence puts the user offline.
SoleSessionOnline ==
    \A s \in Sockets :
        (phase[s] = "open" /\ \A o \in Sockets \ {s} :
                                 UserOf[o] = UserOf[s] => phase[o] = "new")
            => status[UserOf[s]] = "online"

\* A user with one connection in all is listed in the room the connection is in.
SoleSessionListed ==
    \A s \in Sockets :
        (phase[s] = "open" /\ current[s] # None /\ \A o \in Sockets \ {s} :
                                 UserOf[o] = UserOf[s] => phase[o] = "new")
            => UserOf[s] \in roomUsers[current[s]]

\* No handler gives up between storing a message and pushing it, even when its
\* sender disconnects or creating the receipts fails: a stored message was
\* pushed or a handler is about to, unless the process died.
Sending == {"send recipients", "send receipts", "send broadcast"}

NothingStoredIsDropped ==
    \A m \in Stored :
        m \in sent \/ crashes > 0 \/ \E h \in Handlers :
                                     task[h].pc \in Sending /\ m \in task[h].ids

Advances ==
    {<<"unread", "partially_read">>, <<"unread", "all_read">>,
     <<"partially_read", "all_read">>}

StatusesAdvance ==
    \A m \in sent : \/ ReadStatus(m)' = ReadStatus(m)
                    \/ <<ReadStatus(m), ReadStatus(m)'>> \in Advances

\* Once a message has been pushed, the read status that listings show for it
\* only advances: nobody joins its recipients any more, nothing is unread.
StatusNeverRegresses == [][StatusesAdvance]_vars

\* No socket of the user is connected, as far as the network goes.
Disconnected(u) ==
    \A s \in Sockets : UserOf[s] = u => phase[s] \notin {"opening", "open"}

\* A user whose connections are all gone stops being shown as online, whether
\* they closed or the process died, and whatever heartbeat was in flight.
DisconnectedFadesOut ==
    \A u \in Users :
        Disconnected(u) ~> status[u] # "online" \/ ~Disconnected(u)

\* The gateway implements RoomChat: its members, receipts and deliveries are the
\* rows of the database and the emits of Socket.IO; a post is a row of messages.
posts == [m \in MessageIds |->
            IF messages[m] = None THEN None
            ELSE [room |-> messages[m].room, sender |-> messages[m].sender]]

Chat == INSTANCE RoomChat WITH Sessions <- Sockets, OwnerOf <- UserOf

ImplementsRoomChat == Chat!Spec

------------------------------------------------------------------------------
\* What the documentation and comments say and the code does not do.

\* README: "When a user joins a room, all unread messages for that user in that
\* room are automatically marked as read."
JoinMarksAllRead ==
    [][\A h \in Handlers, u \in Users, r \in Rooms :
          (/\ At(h, "join unread") /\ task[h].user = u /\ task[h].room = r
           /\ task'[h] = Idle)
              => Unread(u, r)' = {}]_vars

\* Comment of startHeartbeat: "Start heartbeat for keeping user online".
HeartbeatKeepsOnline ==
    \A u \in Users :
        (\E s \in Sockets : UserOf[s] = u /\ phase[s] = "open")
            ~> (status[u] = "online"
                \/ ~\E s \in Sockets : UserOf[s] = u /\ phase[s] = "open")

\* README: "join/leave/ disconnect events update room presence": a user none of
\* whose sockets is left, and whose handlers are over, is listed in no room.
DisconnectClearsRooms ==
    \A u \in Users :
        (/\ \A s \in Sockets : UserOf[s] = u =>
                phase[s] \in {"new", "closed"} /\ cleanup[s] = None
         /\ \A h \in Handlers : task[h].user # u)
            => \A r \in Rooms : u \notin roomUsers[r]
==============================================================================
