---------------------------- MODULE Gateway_proofs ----------------------------
(***************************************************************************)
(* Proofs about Gateway for every value of its constants: its types, that  *)
(* only members take part, and that receipts are well formed.              *)
(*                                                                         *)
(* Membership is read in one step of a handler and used in later ones, so  *)
(* neither property is inductive by itself.  TaskOK says what a handler in *)
(* flight carries from its earlier steps: past its check it runs for a     *)
(* member, past CreateMessage its message is stored as it will be sent,    *)
(* and past FindRecipients its recipients are members.  MembersHere says   *)
(* that a current room, which the typing handler trusts, is one of the     *)
(* user's.  All of it stays true because rows of room_members and messages *)
(* are never deleted.                                                      *)
(***************************************************************************)
EXTENDS Gateway, TLAPS

\* The places of a handler that serves a client of a socket.
ClientPCs == {"join check", "join enter", "join presence", "join ttl",
              "join offline", "join unread",
              "send limit", "send verify", "send create", "send recipients",
              "send receipts", "send broadcast", "type limit", "type lookup", "read"}

\* A handler of a socket runs for its user; every handler has a user and a room.
Placed(t) ==
    /\ t.pc \in ClientPCs =>
         t.sock \in Sockets /\ t.user = UserOf[t.sock]
    /\ t.pc # "idle" => t.user \in Users /\ t.room \in Rooms

\* What a handler in flight knows from its earlier steps.
Informed(t) ==
    /\ t.pc \in {"join enter", "send create", "type lookup"} => IsMember(t.user, t.room)
    /\ t.pc \in {"send recipients", "send receipts", "send broadcast"} =>
         \A m \in t.ids : /\ m \in Stored
                          /\ messages[m].room = t.room
                          /\ messages[m].sender = t.user
    /\ t.pc = "send receipts" => t.to \subseteq Recipients(t.room, t.user)

TaskOK(t) == t \in Task /\ Placed(t) /\ Informed(t)

TasksOK == \A h \in Handlers : TaskOK(task[h])

\* Sockets are in rooms of their users, and so are those who sent and received.
MembersHere ==
    /\ \A s \in Sockets : \A r \in ioRooms[s] : IsMember(UserOf[s], r)
    /\ \A s \in Sockets : current[s] # None => IsMember(UserOf[s], current[s])
    /\ \A m \in Stored : IsMember(messages[m].sender, messages[m].room)
    /\ \A d \in delivered : /\ d[2] \in Stored
                             /\ IsMember(UserOf[d[1]], messages[d[2]].room)

IInv == TypeOK /\ TasksOK /\ MembersHere /\ ReceiptsWellFormed

\* The tables only grow, and a message that is stored stays as it is.
Grows ==
    /\ \A r \in Rooms : members[r] \subseteq members'[r]
    /\ \A m \in Stored : m \in Stored' /\ messages'[m] = messages[m]


------------------------------------------------------------------------------
\* An idle handler promises nothing.
LEMMA IdleOK == TaskOK(Idle) /\ TaskOK(Idle)'
  BY DEF TaskOK, Idle, Task, PCs, Placed, Informed, ClientPCs

\* What a handler knows is not lost when the tables grow.
LEMMA KeepsInformed ==
  ASSUME TypeOK, Grows, NEW t, TaskOK(t)
  PROVE  TaskOK(t)'
  <1>1. t \in Task /\ Placed(t)
    BY DEF TaskOK
  <1>2. t.pc \in {"join enter", "send create", "type lookup"} => IsMember(t.user, t.room)'
    <2> SUFFICES ASSUME t.pc \in {"join enter", "send create", "type lookup"}
                 PROVE  IsMember(t.user, t.room)'
      OBVIOUS
    <2>1. IsMember(t.user, t.room)
      BY DEF TaskOK, Informed
    <2>2. t.room \in Rooms
      BY <1>1 DEF Placed
    <2> QED
      BY <2>1, <2>2 DEF IsMember, Grows
  <1>3. t.pc \in {"send recipients", "send receipts", "send broadcast"} =>
          \A m \in t.ids : /\ m \in Stored'
                           /\ messages'[m].room = t.room
                           /\ messages'[m].sender = t.user
    BY DEF TaskOK, Informed, Grows
  <1>4. t.pc = "send receipts" => t.to \subseteq Recipients(t.room, t.user)'
    <2> SUFFICES ASSUME t.pc = "send receipts"
                 PROVE  t.to \subseteq Recipients(t.room, t.user)'
      OBVIOUS
    <2>1. t.to \subseteq Recipients(t.room, t.user)
      BY DEF TaskOK, Informed
    <2>2. t.room \in Rooms
      BY <1>1 DEF Placed
    <2> QED
      BY <2>1, <2>2 DEF Recipients, Grows
  <1> QED
    BY <1>1, <1>2, <1>3, <1>4 DEF TaskOK, Informed, Placed, Task

\* One handler moves, the others keep what they know.
LEMMA OneMoves ==
  ASSUME TypeOK, TasksOK, Grows, NEW h \in Handlers, NEW t,
         task' = [task EXCEPT ![h] = t], TaskOK(t)'
  PROVE  TasksOK' /\ task' \in [Handlers -> Task]
  <1>1. ASSUME NEW g \in Handlers
        PROVE  TaskOK(task[g])'
    <2>1. CASE g = h
      <3>1. task'[g] = t
        BY <2>1 DEF TypeOK
      <3> QED
        BY <3>1 DEF TaskOK, Placed, Informed
    <2>2. CASE g # h
      <3>1. PICK u : u = task[g]
        OBVIOUS
      <3>2. TaskOK(u)'
        BY <3>1, KeepsInformed DEF TasksOK
      <3>3. task'[g] = u
        BY <2>2, <3>1 DEF TypeOK
      <3> QED
        BY <3>2, <3>3 DEF TaskOK, Placed, Informed
    <2> QED
      BY <2>1, <2>2
  <1>2. task' \in [Handlers -> Task]
    BY <1>1 DEF TypeOK, TaskOK
  <1> QED
    BY <1>1, <1>2 DEF TasksOK

\* Sockets come and go, leave rooms and beat: no handler and no table is touched,
\* and nobody enters a Socket.IO room.
LEMMA SocketSteps ==
  ASSUME IInv, UNCHANGED <<task, history, dbVars>>, TypeOK',
         \A s \in Sockets : /\ ioRooms'[s] \subseteq ioRooms[s]
                            /\ current'[s] \in {current[s], None}
  PROVE  IInv'
  <1>1. TasksOK'
    BY DEF IInv, TasksOK, TaskOK, Placed, Informed, IsMember, Stored, Recipients,
           dbVars
  <1>2. MembersHere'
    BY DEF IInv, MembersHere, IsMember, Stored, dbVars, history
  <1>3. ReceiptsWellFormed'
    BY DEF IInv, ReceiptsWellFormed, IsMember, Stored, dbVars
  <1> QED
    BY <1>1, <1>2, <1>3 DEF IInv

\* A handler goes on and does nothing else.
LEMMA HandlerMoves ==
  ASSUME IInv, NEW h \in Handlers, NEW t, TaskOK(t),
         task' = [task EXCEPT ![h] = t],
         UNCHANGED <<socketVars, crashes, history, presenceVars, dbVars>>
  PROVE  IInv'
  <1>1. Grows
    BY DEF Grows, Stored, dbVars
  <1>2. TaskOK(t)'
    BY <1>1, KeepsInformed DEF IInv
  <1>3. TasksOK' /\ task' \in [Handlers -> Task]
    BY <1>1, <1>2, OneMoves DEF IInv
  <1>4. TypeOK'
    BY <1>3 DEF IInv, TypeOK, PresenceType, DbType, socketVars, history,
                presenceVars, dbVars
  <1>5. MembersHere'
    BY DEF IInv, MembersHere, IsMember, Stored, socketVars, history, dbVars
  <1>6. ReceiptsWellFormed'
    BY DEF IInv, ReceiptsWellFormed, IsMember, Stored, dbVars
  <1> QED
    BY <1>3, <1>4, <1>5, <1>6 DEF IInv

\* The same, when all that changes is where the handler is.
LEMMA HandlerGoes ==
  ASSUME IInv, NEW h \in Handlers, NEW pc \in PCs, Goto(h, pc),
         TaskOK([task[h] EXCEPT !.pc = pc]),
         UNCHANGED <<socketVars, crashes, history, presenceVars, dbVars>>
  PROVE  IInv'
  <1>1. PICK t : t = [task[h] EXCEPT !.pc = pc]
    OBVIOUS
  <1>2. task' = [task EXCEPT ![h] = t]
    BY <1>1 DEF Goto, IInv, TypeOK
  <1> QED
    BY <1>1, <1>2, HandlerMoves

\* A handler that ends, and does nothing else, leaves the invariant alone.
LEMMA HandlerEnds ==
  ASSUME IInv, NEW h \in Handlers, Done(h),
         UNCHANGED <<socketVars, crashes, history, presenceVars, dbVars>>
  PROVE  IInv'
  BY IdleOK, HandlerMoves DEF Done

\* A step of a handler whose effect is on the tables or on history.
LEMMA Frame ==
  ASSUME IInv, Grows, NEW h \in Handlers, NEW t, TaskOK(t)',
         task' = [task EXCEPT ![h] = t],
         UNCHANGED <<socketVars, crashes, presenceVars>>,
         DbType', MembersHere', ReceiptsWellFormed',
         sent' \subseteq MessageIds, delivered' \subseteq Sockets \X MessageIds,
         unreceipted' \subseteq MessageIds
  PROVE  IInv'
  <1>1. TasksOK' /\ task' \in [Handlers -> Task]
    BY OneMoves DEF IInv
  <1>2. TypeOK'
    BY <1>1 DEF IInv, TypeOK, PresenceType, socketVars, presenceVars
  <1> QED
    BY <1>1, <1>2 DEF IInv

------------------------------------------------------------------------------
\* The steps of sockets and of time.
LEMMA SocketStepsKeep ==
  ASSUME IInv, NEW s \in Sockets, SocketStep(s)
  PROVE  IInv'
  <1> USE GatewayAssumption, PresenceAssumption
  <1>0. TypeOK /\ UserOf[s] \in Users
    BY DEF IInv
  <1>1. CASE Connect(s)
    BY <1>0, <1>1, SocketSteps
       DEF Connect, SetUserOnline, SetStatus, TypeOK, PresenceType, DbType, Phases,
           Statuses, dbVars, history
  <1>2. CASE Opened(s)
    BY <1>0, <1>2, SocketSteps
       DEF Opened, TypeOK, PresenceType, DbType, Phases, Beats, presenceVars, dbVars,
           history
  <1>3. CASE CloseEarly(s)
    BY <1>0, <1>3, SocketSteps
       DEF CloseEarly, TypeOK, PresenceType, DbType, Phases, presenceVars, dbVars,
           history
  <1>4. CASE Disconnect(s)
    <2>1. status' \in [Users -> Statuses] /\ ttl' \in [Users -> 0..OnlineTtl]
      BY <1>0, <1>4
         DEF Disconnect, SetUserOffline, SetStatus, TypeOK, PresenceType, Statuses
    <2>2. phase' \in [Sockets -> Phases] /\ beat' \in [Sockets -> Beats]
      BY <1>0, <1>4 DEF Disconnect, TypeOK, Phases, Beats, StopBeat
    <2>3. ioRooms' \in [Sockets -> SUBSET Rooms]
          /\ \A x \in Sockets : ioRooms'[x] \subseteq ioRooms[x]
      BY <1>0, <1>4 DEF Disconnect, TypeOK
    <2>4. cleanup' \in [Sockets -> Rooms \cup {None}]
      BY <1>0, <1>4 DEF Disconnect, TypeOK
    <2>5. TypeOK'
      BY <1>0, <1>4, <2>1, <2>2, <2>3, <2>4
         DEF Disconnect, TypeOK, PresenceType, DbType, dbVars, history
    <2> QED
      BY <1>4, <2>3, <2>5, SocketSteps DEF Disconnect
  <1>5. CASE CleanUp(s)
    <2>1. cleanup[s] \in Rooms
      BY <1>0, <1>5 DEF CleanUp, TypeOK
    <2>2. roomUsers' \in [Rooms -> SUBSET Users]
      BY <1>0, <1>5, <2>1 DEF CleanUp, RemoveUserFromRoom, TypeOK, PresenceType
    <2>3. cleanup' \in [Sockets -> Rooms \cup {None}]
      BY <1>0, <1>5 DEF CleanUp, TypeOK
    <2>4. TypeOK'
      BY <1>0, <1>5, <2>2, <2>3
         DEF CleanUp, TypeOK, PresenceType, DbType, dbVars, history
    <2> QED
      BY <1>5, <2>4, SocketSteps DEF CleanUp
  <1>6. CASE BeatGet(s)
    <2>1. beat' \in [Sockets -> Beats]
      BY <1>0, <1>6 DEF BeatGet, TypeOK, PresenceType, Beats, Statuses
    <2>2. TypeOK'
      BY <1>0, <1>6, <2>1
         DEF BeatGet, TypeOK, PresenceType, DbType, presenceVars, dbVars, history
    <2> QED
      BY <1>6, <2>2, SocketSteps DEF BeatGet
  <1>7. CASE BeatSet(s)
    <2>1. beat' \in [Sockets -> Beats]
      BY <1>0, <1>7 DEF BeatSet, TypeOK, Beats
    <2>2. status' \in [Users -> Statuses] /\ ttl' \in [Users -> 0..OnlineTtl]
      BY <1>0, <1>7
         DEF BeatSet, WriteLastSeen, SetStatus, TypeOK, PresenceType, Statuses
    <2>3. TypeOK'
      BY <1>0, <1>7, <2>1, <2>2
         DEF BeatSet, TypeOK, PresenceType, DbType, dbVars, history
    <2> QED
      BY <1>7, <2>3, SocketSteps DEF BeatSet
  <1>8. CASE \E r \in Rooms : LeaveRoom(s, r)
    <2>1. PICK r \in Rooms : LeaveRoom(s, r)
      BY <1>8
    <2>2. ioRooms' \in [Sockets -> SUBSET Rooms]
          /\ \A x \in Sockets : ioRooms'[x] \subseteq ioRooms[x]
      BY <1>0, <2>1 DEF LeaveRoom, TypeOK
    <2>3. current' \in [Sockets -> Rooms \cup {None}]
          /\ \A x \in Sockets : current'[x] \in {current[x], None}
      BY <1>0, <2>1 DEF LeaveRoom, TypeOK
    <2>4. roomUsers' \in [Rooms -> SUBSET Users]
      BY <1>0, <2>1 DEF LeaveRoom, RemoveUserFromRoom, TypeOK, PresenceType
    <2>5. TypeOK'
      BY <1>0, <2>1, <2>2, <2>3, <2>4
         DEF LeaveRoom, TypeOK, PresenceType, DbType, dbVars, history
    <2> QED
      BY <2>1, <2>2, <2>3, <2>5, SocketSteps DEF LeaveRoom
  <1> QED
    BY <1>1, <1>2, <1>3, <1>4, <1>5, <1>6, <1>7, <1>8 DEF SocketStep

\* A heartbeat period disturbs presence and the timers only.
LEMMA TickKeeps ==
  ASSUME IInv, Tick
  PROVE  IInv'
  <1>1. beat' \in [Sockets -> Beats]
    BY DEF IInv, Tick, TypeOK, Beats
  <1>2. status' \in [Users -> Statuses] /\ ttl' \in [Users -> 0..OnlineTtl]
    BY PresenceAssumption DEF IInv, Tick, PresenceTick, TypeOK, PresenceType, Statuses
  <1>3. TypeOK'
    BY <1>1, <1>2 DEF IInv, Tick, PresenceTick, TypeOK, PresenceType, DbType, dbVars,
                      history
  <1> QED
    BY <1>3, SocketSteps DEF Tick

\* A crash forgets the handlers and the rooms of the sockets, not the tables.
LEMMA CrashKeeps ==
  ASSUME IInv, Crash
  PROVE  IInv'
  <1>1. TypeOK'
    BY IdleOK DEF IInv, Crash, TypeOK, TaskOK, PresenceType, DbType, Phases, Beats,
                  presenceVars, dbVars, history
  <1>2. TasksOK'
    BY IdleOK DEF Crash, TasksOK, TaskOK, Placed, Informed, Idle
  <1>3. MembersHere'
    BY DEF IInv, Crash, MembersHere, IsMember, Stored, dbVars, history
  <1>4. ReceiptsWellFormed'
    BY DEF IInv, Crash, ReceiptsWellFormed, IsMember, Stored, dbVars
  <1> QED
    BY <1>1, <1>2, <1>3, <1>4 DEF IInv

------------------------------------------------------------------------------
\* A handler that receives an event is placed, and knows nothing yet.
LEMMA ReceiptKeeps ==
  ASSUME IInv, NEW h \in Handlers, Receipt(h)
  PROVE  IInv'
  <1>1. PICK s \in Sockets, r \in Rooms :
             \/ StartJoin(h, s, r)
             \/ StartSend(h, s, r)
             \/ StartTyping(h, s, r)
             \/ \E ids \in SUBSET MessageIds : StartRead(h, s, r, ids)
    BY DEF Receipt
  <1>2. ASSUME NEW pc \in {"join check", "send limit", "type limit", "read"},
               NEW ids \in SUBSET MessageIds,
               Start(h, pc, s, UserOf[s], r, ids),
               UNCHANGED <<socketVars, crashes, history, presenceVars, dbVars>>
        PROVE  IInv'
    <2>1. PICK t : t = [pc |-> pc, sock |-> s, user |-> UserOf[s], room |-> r,
                        ids |-> ids, to |-> {}]
      OBVIOUS
    <2>2. UserOf[s] \in Users
      BY GatewayAssumption
    <2>3. TaskOK(t)
      BY <2>1, <2>2 DEF TaskOK, Task, PCs, Placed, Informed, ClientPCs
    <2> QED
      BY <1>2, <2>1, <2>3, HandlerMoves DEF Start
  <1>3. CASE StartJoin(h, s, r)
    <2>1. PICK ids \in SUBSET MessageIds : ids = {}
      OBVIOUS
    <2>2. Start(h, "join check", s, UserOf[s], r, ids)
      BY <1>3, <2>1 DEF StartJoin, Receive
    <2> QED
      BY <1>2, <1>3, <2>2 DEF StartJoin, Receive
  <1>4. CASE StartSend(h, s, r)
    <2>1. PICK ids \in SUBSET MessageIds : ids = {}
      OBVIOUS
    <2>2. Start(h, "send limit", s, UserOf[s], r, ids)
      BY <1>4, <2>1 DEF StartSend, Receive
    <2> QED
      BY <1>2, <1>4, <2>2 DEF StartSend, Receive
  <1>5. CASE StartTyping(h, s, r)
    <2>1. PICK ids \in SUBSET MessageIds : ids = {}
      OBVIOUS
    <2>2. Start(h, "type limit", s, UserOf[s], r, ids)
      BY <1>5, <2>1 DEF StartTyping, Receive
    <2> QED
      BY <1>2, <1>5, <2>2 DEF StartTyping, Receive
  <1>6. CASE \E ids \in SUBSET MessageIds : StartRead(h, s, r, ids)
    BY <1>2, <1>6 DEF StartRead, Receive
  <1> QED
    BY <1>1, <1>3, <1>4, <1>5, <1>6

\* A REST request to list messages arrives: its handler knows nothing yet.
LEMMA StartFetchKeeps ==
  ASSUME IInv, NEW h \in Handlers, NEW u \in Users, NEW r \in Rooms,
         StartFetch(h, u, r)
  PROVE  IInv'
  <1>1. PICK t : t = [pc |-> "fetch verify", sock |-> None, user |-> u, room |-> r,
                      ids |-> {}, to |-> {}]
    OBVIOUS
  <1>2. TaskOK(t)
    BY <1>1 DEF TaskOK, Task, PCs, Placed, Informed, ClientPCs
  <1> QED
    BY <1>1, <1>2, HandlerMoves DEF StartFetch, Start

\* What is known of the handler whose step it is.
LEMMA HandlerFacts ==
  ASSUME IInv, NEW h \in Handlers
  PROVE  /\ task[h] \in Task
         /\ TaskOK(task[h])
         /\ task[h].pc # "idle" => task[h].user \in Users /\ task[h].room \in Rooms
         /\ task[h].pc \in ClientPCs =>
              task[h].sock \in Sockets /\ task[h].user = UserOf[task[h].sock]
  BY DEF IInv, TasksOK, TaskOK, Placed

\* EnterRoom adds a member's socket to the Socket.IO room.
LEMMA EnterRoomKeeps ==
  ASSUME IInv, NEW h \in Handlers, EnterRoom(h)
  PROVE  IInv'
  <1>0. TypeOK
    BY DEF IInv
  <1>1. PICK s \in Sockets : s = task[h].sock
    BY HandlerFacts DEF EnterRoom, At, ClientPCs
  <1>2. PICK r \in Rooms : r = task[h].room
    BY HandlerFacts DEF EnterRoom, At
  <1>3. task[h].user = UserOf[s] /\ task[h].user \in Users
    BY <1>1, HandlerFacts DEF EnterRoom, At, ClientPCs
  <1>4. IsMember(UserOf[s], r)
    BY <1>2, <1>3, HandlerFacts DEF EnterRoom, At, TaskOK, Informed
  <1>5. PICK t : t = [task[h] EXCEPT !.pc = "join presence"]
    OBVIOUS
  <1>6. t \in Task /\ TaskOK(t)
    BY <1>5, HandlerFacts DEF EnterRoom, At, TaskOK, Task, PCs, Placed, Informed,
                              ClientPCs
  <1>7. task' = [task EXCEPT ![h] = t]
    BY <1>0, <1>5 DEF EnterRoom, Goto, TypeOK
  <1>8. Grows /\ UNCHANGED dbVars
    BY DEF EnterRoom, Grows, Stored, dbVars
  <1>9. TasksOK' /\ task' \in [Handlers -> Task]
    <2>1. TaskOK(t)'
      BY <1>0, <1>6, <1>8, KeepsInformed
    <2> QED
      BY <1>7, <1>8, <2>1, OneMoves DEF IInv
  <1>10. ioRooms' = [ioRooms EXCEPT ![s] =
                       IF phase[s] = "open" THEN @ \cup {r} ELSE @]
    BY <1>1, <1>2 DEF EnterRoom
  <1>11. TypeOK'
    <2>1. ioRooms' \in [Sockets -> SUBSET Rooms]
      BY <1>0, <1>10 DEF TypeOK
    <2>2. current' \in [Sockets -> Rooms \cup {None}]
      BY <1>0, <1>1, <1>2 DEF EnterRoom, TypeOK
    <2>3. roomUsers' \in [Rooms -> SUBSET Users]
      BY <1>0, <1>2, <1>3 DEF EnterRoom, AddUserToRoom, TypeOK, PresenceType
    <2> QED
      BY <1>0, <1>9, <2>1, <2>2, <2>3
         DEF EnterRoom, TypeOK, PresenceType, DbType, dbVars, history
  <1>12. MembersHere'
    <2>1. ASSUME NEW x \in Sockets, NEW q \in ioRooms'[x]
          PROVE  IsMember(UserOf[x], q)'
      <3>1. CASE q \in ioRooms[x]
        BY <3>1 DEF EnterRoom, IInv, MembersHere, IsMember, dbVars
      <3>2. CASE q \notin ioRooms[x]
        <4>1. x = s /\ q = r
          BY <1>0, <1>10, <3>2 DEF TypeOK
        <4> QED
          BY <1>4, <4>1 DEF EnterRoom, IsMember, dbVars
      <3> QED
        BY <3>1, <3>2
    <2>2. ASSUME NEW x \in Sockets, current'[x] # None
          PROVE  UserOf[x] \in members'[current'[x]]
      <3>1. current'[x] = IF x = s THEN r ELSE current[x]
        BY <1>0, <1>1, <1>2 DEF EnterRoom, TypeOK
      <3> QED
        BY <1>4, <2>2, <3>1 DEF EnterRoom, IInv, MembersHere, IsMember, dbVars
    <2> QED
      BY <2>1, <2>2 DEF EnterRoom, IInv, MembersHere, IsMember, Stored, dbVars, history
  <1>13. ReceiptsWellFormed'
    BY DEF EnterRoom, IInv, ReceiptsWellFormed, IsMember, Stored, dbVars
  <1> QED
    BY <1>9, <1>11, <1>12, <1>13 DEF IInv

\* Marking receipts as read makes no new ones.
LEMMA MarkAsReadKeeps ==
  ASSUME IInv, NEW ids, NEW u, MarkAsRead(ids, u),
         NEW h \in Handlers, Done(h),
         UNCHANGED <<socketVars, crashes, history, presenceVars>>
  PROVE  IInv'
  <1>1. DbType' /\ Grows
    BY DEF IInv, TypeOK, DbType, MarkAsRead, Grows, Stored
  <1>2. MembersHere'
    BY DEF IInv, MembersHere, MarkAsRead, IsMember, Stored, socketVars, history
  <1>3. ReceiptsWellFormed'
    BY DEF IInv, ReceiptsWellFormed, MarkAsRead, IsMember, Stored
  <1>4. sent' \subseteq MessageIds /\ delivered' \subseteq Sockets \X MessageIds
        /\ unreceipted' \subseteq MessageIds
    BY DEF IInv, TypeOK, history
  <1> QED
    BY <1>1, <1>2, <1>3, <1>4, IdleOK, Frame DEF Done

\* Every step of join_room: what it checked about its user is true still.
LEMMA JoinStepKeeps ==
  ASSUME IInv, NEW h \in Handlers, JoinStep(h)
  PROVE  IInv'
  <1> USE DEF At
  <1>0. TypeOK
    BY DEF IInv
  <1>1. CASE RefuseJoin(h)
    BY <1>1, HandlerEnds DEF RefuseJoin
  <1>2. CASE CheckJoin(h)
    <2>1. CASE IsMember(task[h].user, task[h].room)
      <3>1. TaskOK([task[h] EXCEPT !.pc = "join enter"])
        BY <1>2, <2>1, HandlerFacts
           DEF CheckJoin, TaskOK, Task, PCs, Placed, Informed, ClientPCs
      <3>2. "join enter" \in PCs /\ Goto(h, "join enter")
        BY <1>2, <2>1 DEF CheckJoin, PCs
      <3> QED
        BY <1>2, <3>1, <3>2, HandlerGoes DEF CheckJoin
    <2>2. CASE ~IsMember(task[h].user, task[h].room)
      BY <1>2, <2>2, HandlerEnds DEF CheckJoin
    <2> QED
      BY <2>1, <2>2
  <1>3. CASE EnterRoom(h)
    BY <1>3, EnterRoomKeeps
  <1>4. CASE ReadPresence(h) \/ CheckTtl(h)
    <2>1. PICK pc \in {"join ttl", "join offline", "join unread"} : Goto(h, pc)
      BY <1>4 DEF ReadPresence, CheckTtl
    <2>2. TaskOK([task[h] EXCEPT !.pc = pc])
      BY <1>4, HandlerFacts
         DEF ReadPresence, CheckTtl, TaskOK, Task, PCs, Placed, Informed, ClientPCs
    <2>3. pc \in PCs
      BY DEF PCs
    <2> QED
      BY <1>4, <2>1, <2>2, <2>3, HandlerGoes DEF ReadPresence, CheckTtl
  <1>5. CASE MarkOffline(h)
    <2>1. PICK t : t = [task[h] EXCEPT !.pc = "join unread"]
      OBVIOUS
    <2>2. TaskOK(t)
      BY <1>5, <2>1, HandlerFacts
         DEF MarkOffline, TaskOK, Task, PCs, Placed, Informed, ClientPCs
    <2>3. task' = [task EXCEPT ![h] = t]
      BY <1>0, <1>5, <2>1 DEF MarkOffline, Goto, TypeOK
    <2>4. Grows
      BY <1>5 DEF MarkOffline, Grows, Stored, dbVars
    <2>5. TasksOK' /\ task' \in [Handlers -> Task]
      <3>1. TaskOK(t)'
        BY <1>0, <2>2, <2>4, KeepsInformed
      <3> QED
        BY <2>3, <2>4, <3>1, OneMoves DEF IInv
    <2>6. status' \in [Users -> Statuses] /\ ttl' \in [Users -> 0..OnlineTtl]
      <3>1. PICK u \in Users : u = task[h].user
        BY <1>5, HandlerFacts DEF MarkOffline
      <3>2. SetStatus(u, "offline")
        BY <1>5, <3>1 DEF MarkOffline, SetUserOffline
      <3> QED
        BY <1>0, <3>2, PresenceAssumption DEF SetStatus, TypeOK, PresenceType, Statuses
    <2>7. TypeOK'
      BY <1>0, <1>5, <2>5, <2>6
         DEF MarkOffline, TypeOK, PresenceType, DbType, socketVars, dbVars, history
    <2>8. MembersHere'
      BY <1>5 DEF MarkOffline, IInv, MembersHere, IsMember, Stored,
                  socketVars, history, dbVars
    <2>9. ReceiptsWellFormed'
      BY <1>5 DEF MarkOffline, IInv, ReceiptsWellFormed, IsMember, Stored, dbVars
    <2> QED
      BY <2>5, <2>7, <2>8, <2>9 DEF IInv
  <1>6. CASE FinishJoin(h)
    <2>1. PICK ids, u : MarkAsRead(ids, u)
      BY <1>6 DEF FinishJoin
    <2> QED
      BY <1>6, <2>1, MarkAsReadKeeps DEF FinishJoin
  <1> QED
    BY <1>1, <1>2, <1>3, <1>4, <1>5, <1>6 DEF JoinStep

\* CreateMessage stores what the handler of a member says.
LEMMA CreateMessageKeeps ==
  ASSUME IInv, NEW h \in Handlers, NEW m \in MessageIds, CreateMessage(h, m)
  PROVE  IInv'
  <1> USE DEF At
  <1>0. TypeOK
    BY DEF IInv
  <1>1. PICK u \in Users, r \in Rooms : u = task[h].user /\ r = task[h].room
    BY HandlerFacts DEF CreateMessage
  <1>2. PICK row : row = [room |-> r, sender |-> u, audience |-> members[r]]
    OBVIOUS
  <1>3. row \in Message /\ row # None
    BY <1>0, <1>2, GatewayAssumption DEF Message, TypeOK, DbType
  <1>4. /\ messages[m] = None
        /\ messages' = [messages EXCEPT ![m] = row]
        /\ UNCHANGED <<members, receipts, read>>
    BY <1>1, <1>2 DEF CreateMessage, InsertMessage
  <1>5. DbType' /\ messages'[m] = row
    BY <1>0, <1>3, <1>4 DEF TypeOK, DbType
  <1>6. Grows /\ m \in Stored' /\ Stored' = Stored \cup {m}
    BY <1>0, <1>3, <1>4 DEF Grows, Stored, TypeOK, DbType
  <1>7. IsMember(u, r)
    BY <1>1, HandlerFacts DEF CreateMessage, TaskOK, Informed
  <1>8. PICK t : t = [task[h] EXCEPT !.pc = "send recipients", !.ids = {m}]
    OBVIOUS
  <1>9. task' = [task EXCEPT ![h] = t]
    BY <1>0, <1>8 DEF CreateMessage, TypeOK
  <1>10. TaskOK(t)'
    <2>1. t \in Task /\ Placed(t)
      BY <1>1, <1>8, HandlerFacts
         DEF CreateMessage, TaskOK, Task, PCs, Placed, ClientPCs
    <2>2. t.pc = "send recipients" /\ t.ids = {m} /\ t.room = r /\ t.user = u
      BY <1>1, <1>8, HandlerFacts DEF Task
    <2>3. messages'[m].room = t.room /\ messages'[m].sender = t.user
      <3>1. row.room = r /\ row.sender = u
        BY <1>2
      <3> QED
        BY <1>5, <2>2, <3>1
    <2>4. Informed(t)'
      <3>1. \A x \in t.ids : /\ x \in Stored'
                             /\ messages'[x].room = t.room
                             /\ messages'[x].sender = t.user
        BY <1>6, <2>2, <2>3
      <3>2. t.pc \notin {"join enter", "send create", "type lookup", "send receipts"}
        BY <2>2
      <3> QED
        BY <3>1, <3>2 DEF Informed
    <2>5. Placed(t)'
      BY <2>1 DEF Placed, ClientPCs
    <2> QED
      BY <2>1, <2>4, <2>5 DEF TaskOK, Task
  <1>11. MembersHere'
    <2>1. \A s \in Sockets :
            /\ \A q \in ioRooms'[s] : IsMember(UserOf[s], q)'
            /\ current'[s] # None => UserOf[s] \in members'[current'[s]]
      BY <1>4 DEF CreateMessage, IInv, MembersHere, IsMember, socketVars
    <2>2. \A x \in Stored' : IsMember(messages[x].sender, messages[x].room)'
      <3>1. ASSUME NEW x \in Stored
            PROVE  IsMember(messages[x].sender, messages[x].room)'
        BY <1>4, <1>6 DEF IInv, MembersHere, IsMember, Grows
      <3>2. IsMember(messages[m].sender, messages[m].room)'
        BY <1>2, <1>4, <1>5, <1>7 DEF IsMember
      <3> QED
        BY <1>6, <3>1, <3>2
    <2>3. \A d \in delivered' : d[2] \in Stored'
                               /\ IsMember(UserOf[d[1]], messages[d[2]].room)'
      BY <1>4, <1>6 DEF CreateMessage, IInv, MembersHere, IsMember, history,
                       Grows
    <2> QED
      BY <2>1, <2>2, <2>3 DEF MembersHere, IsMember
  <1>12. ReceiptsWellFormed'
    BY <1>4, <1>6 DEF IInv, ReceiptsWellFormed, IsMember, Grows
  <1>13. sent' \subseteq MessageIds /\ delivered' \subseteq Sockets \X MessageIds
         /\ unreceipted' \subseteq MessageIds
    BY <1>0 DEF CreateMessage, TypeOK, history
  <1> QED
    BY <1>5, <1>6, <1>9, <1>10, <1>11, <1>12, <1>13, Frame DEF CreateMessage

\* The recipients found earlier are members still.
LEMMA CreateReceiptsKeeps ==
  ASSUME IInv, NEW h \in Handlers, CreateReceipts(h)
  PROVE  IInv'
  <1> USE DEF At
  <1>0. TypeOK
    BY DEF IInv
  <1>1. PICK t : t = [task[h] EXCEPT !.pc = "send broadcast"]
    OBVIOUS
  <1>2. task' = [task EXCEPT ![h] = t]
    BY <1>0, <1>1 DEF CreateReceipts, Goto, TypeOK
  <1>3. TaskOK(t)
    BY <1>1, HandlerFacts DEF CreateReceipts, TaskOK, Task, PCs, Placed, Informed,
                              ClientPCs
  <1>4. Grows /\ UNCHANGED <<members, messages, read>>
        /\ receipts' = receipts \cup (task[h].ids \X task[h].to)
    BY DEF CreateReceipts, InsertReceipts, Grows, Stored
  <1>5. TaskOK(t)'
    BY <1>0, <1>3, <1>4, KeepsInformed
  <1>6. task[h].ids \subseteq MessageIds /\ task[h].to \subseteq Users
    BY HandlerFacts DEF Task
  <1>7. DbType'
    BY <1>0, <1>4, <1>6 DEF TypeOK, DbType
  <1>8. MembersHere'
    BY <1>4 DEF CreateReceipts, IInv, MembersHere, IsMember, Stored,
                socketVars, history
  <1>9. ReceiptsWellFormed'
    <2>1. read' \subseteq receipts'
      BY <1>4 DEF IInv, ReceiptsWellFormed
    <2>2. ASSUME NEW p \in receipts'
          PROVE  /\ p[1] \in Stored
                 /\ IsMember(p[2], messages[p[1]].room)
                 /\ p[2] # messages[p[1]].sender
      <3>1. CASE p \in receipts
        BY <3>1 DEF IInv, ReceiptsWellFormed
      <3>2. CASE p \in task[h].ids \X task[h].to
        <4>1. p[1] \in task[h].ids /\ p[2] \in Recipients(task[h].room, task[h].user)
          BY <3>2, HandlerFacts DEF CreateReceipts, TaskOK, Informed
        <4>2. p[1] \in Stored /\ messages[p[1]].room = task[h].room
              /\ messages[p[1]].sender = task[h].user
          BY <4>1, HandlerFacts DEF CreateReceipts, TaskOK, Informed
        <4> QED
          BY <4>1, <4>2 DEF Recipients, IsMember
      <3> QED
        BY <1>4, <3>1, <3>2
    <2> QED
      BY <1>4, <2>1, <2>2 DEF ReceiptsWellFormed, IsMember, Stored
  <1>10. sent' \subseteq MessageIds /\ delivered' \subseteq Sockets \X MessageIds
         /\ unreceipted' \subseteq MessageIds
    BY <1>0 DEF CreateReceipts, TypeOK, history
  <1> QED
    BY <1>2, <1>4, <1>5, <1>7, <1>8, <1>9, <1>10, Frame DEF CreateReceipts

\* The sockets in a Socket.IO room belong to members of the room.
LEMMA BroadcastKeeps ==
  ASSUME IInv, NEW h \in Handlers, Broadcast(h)
  PROVE  IInv'
  <1> USE DEF At
  <1>0. TypeOK
    BY DEF IInv
  <1>1. task' = [task EXCEPT ![h] = Idle] /\ Grows
    BY DEF Broadcast, Done, Grows, Stored, dbVars
  <1>2. task[h].ids \subseteq MessageIds
    BY HandlerFacts DEF Task
  <1>3. sent' \subseteq MessageIds /\ delivered' \subseteq Sockets \X MessageIds
        /\ unreceipted' \subseteq MessageIds
    BY <1>0, <1>2 DEF Broadcast, TypeOK, Listeners
  <1>4. DbType'
    BY <1>0 DEF Broadcast, TypeOK, DbType, dbVars
  <1>5. MembersHere'
    <2>1. ASSUME NEW d \in delivered'
          PROVE  d[2] \in Stored /\ IsMember(UserOf[d[1]], messages[d[2]].room)
      <3>1. CASE d \in delivered
        BY <3>1 DEF IInv, MembersHere
      <3>2. CASE d \in Listeners(task[h].room) \X task[h].ids
        <4>1. d[1] \in Sockets /\ task[h].room \in ioRooms[d[1]]
          BY <3>2 DEF Listeners
        <4>2. d[2] \in Stored /\ messages[d[2]].room = task[h].room
          BY <3>2, HandlerFacts DEF Broadcast, TaskOK, Informed
        <4> QED
          BY <4>1, <4>2 DEF IInv, MembersHere
      <3> QED
        BY <3>1, <3>2 DEF Broadcast
    <2>2. \A s \in Sockets :
            /\ \A r \in ioRooms'[s] : UserOf[s] \in members'[r]
            /\ current'[s] # None => UserOf[s] \in members'[current'[s]]
      BY DEF Broadcast, IInv, MembersHere, IsMember, dbVars, socketVars
    <2>3. \A m \in Stored : IsMember(messages[m].sender, messages[m].room)
      BY DEF IInv, MembersHere
    <2>4. Stored' = Stored /\ UNCHANGED <<members, messages>>
      BY DEF Broadcast, Stored, dbVars
    <2> QED
      BY <2>1, <2>2, <2>3, <2>4 DEF MembersHere, IsMember
  <1>6. ReceiptsWellFormed'
    BY DEF Broadcast, IInv, ReceiptsWellFormed, IsMember, Stored, dbVars
  <1> QED
    BY <1>1, <1>3, <1>4, <1>5, <1>6, IdleOK, Frame DEF Broadcast

\* Every step of send_message, from the rate limit to the broadcast.
LEMMA SendStepKeeps ==
  ASSUME IInv, NEW h \in Handlers, SendStep(h)
  PROVE  IInv'
  <1> USE DEF At
  <1>0. TypeOK
    BY DEF IInv
  <1>1. CASE RefuseSend(h)
    BY <1>1, HandlerEnds DEF RefuseSend
  <1>2. CASE AcceptSend(h)
    <2>1. CASE current[task[h].sock] = task[h].room
      <3>1. TaskOK([task[h] EXCEPT !.pc = "send verify"])
        BY <1>2, HandlerFacts
           DEF AcceptSend, TaskOK, Task, PCs, Placed, Informed, ClientPCs
      <3>2. "send verify" \in PCs /\ Goto(h, "send verify")
        BY <1>2, <2>1 DEF AcceptSend, PCs
      <3> QED
        BY <1>2, <3>1, <3>2, HandlerGoes DEF AcceptSend
    <2>2. CASE current[task[h].sock] # task[h].room
      BY <1>2, <2>2, HandlerEnds DEF AcceptSend
    <2> QED
      BY <2>1, <2>2
  <1>3. CASE VerifySend(h)
    <2>1. CASE IsMember(task[h].user, task[h].room)
      <3>1. TaskOK([task[h] EXCEPT !.pc = "send create"])
        BY <1>3, <2>1, HandlerFacts
           DEF VerifySend, TaskOK, Task, PCs, Placed, Informed, ClientPCs
      <3>2. "send create" \in PCs /\ Goto(h, "send create")
        BY <1>3, <2>1 DEF VerifySend, PCs
      <3> QED
        BY <1>3, <3>1, <3>2, HandlerGoes DEF VerifySend
    <2>2. CASE ~IsMember(task[h].user, task[h].room)
      BY <1>3, <2>2, HandlerEnds DEF VerifySend
    <2> QED
      BY <2>1, <2>2
  <1>4. CASE \E m \in MessageIds : CreateMessage(h, m)
    BY <1>4, CreateMessageKeeps
  <1>5. CASE FindRecipients(h)
    <2>1. PICK u \in Users, r \in Rooms : u = task[h].user /\ r = task[h].room
      BY <1>5, HandlerFacts DEF FindRecipients
    <2>2. PICK to : to = Recipients(r, u)
      OBVIOUS
    <2>3. to \subseteq Users
      BY <1>0, <2>2 DEF Recipients, TypeOK, DbType
    <2>4. PICK pc \in {"send broadcast", "send receipts"} :
             pc = IF to = {} THEN "send broadcast" ELSE "send receipts"
      OBVIOUS
    <2>5. PICK t : t = [task[h] EXCEPT !.pc = pc, !.to = to]
      OBVIOUS
    <2>6. TaskOK(t)
      BY <1>5, <2>1, <2>2, <2>3, <2>5, HandlerFacts
         DEF FindRecipients, TaskOK, Task, PCs, Placed, Informed, ClientPCs
    <2>7. task' = [task EXCEPT ![h] = t]
      BY <1>0, <1>5, <2>1, <2>2, <2>4, <2>5 DEF FindRecipients, TypeOK
    <2> QED
      BY <1>5, <2>6, <2>7, HandlerMoves DEF FindRecipients
  <1>6. CASE CreateReceipts(h)
    BY <1>6, CreateReceiptsKeeps
  <1>7. CASE FailReceipts(h)
    <2>1. PICK t : t = [task[h] EXCEPT !.pc = "send broadcast"]
      OBVIOUS
    <2>2. TaskOK(t)
      BY <1>7, <2>1, HandlerFacts
         DEF FailReceipts, TaskOK, Task, PCs, Placed, Informed, ClientPCs
    <2>3. task' = [task EXCEPT ![h] = t]
      BY <1>0, <1>7, <2>1 DEF FailReceipts, Goto, TypeOK
    <2>4. Grows
      BY <1>7 DEF FailReceipts, Grows, Stored, dbVars
    <2>5. TaskOK(t)'
      BY <1>0, <2>2, <2>4, KeepsInformed
    <2>6. task[h].ids \subseteq MessageIds
      BY HandlerFacts DEF Task
    <2>7. DbType' /\ sent' \subseteq MessageIds /\ unreceipted' \subseteq MessageIds
          /\ delivered' \subseteq Sockets \X MessageIds
      BY <1>0, <1>7, <2>6 DEF FailReceipts, TypeOK, DbType, dbVars
    <2>8. MembersHere' /\ ReceiptsWellFormed'
      BY <1>7 DEF FailReceipts, IInv, MembersHere, ReceiptsWellFormed,
                  IsMember, Stored, socketVars, dbVars
    <2> QED
      BY <1>7, <2>3, <2>4, <2>5, <2>7, <2>8, Frame DEF FailReceipts
  <1>8. CASE Broadcast(h)
    BY <1>8, BroadcastKeeps
  <1> QED
    BY <1>1, <1>2, <1>3, <1>4, <1>5, <1>6, <1>7, <1>8 DEF SendStep

\* A socket's current room is one its user is a member of, so whoever is about to
\* be shown as typing is a member too.
LEMMA TypingStepKeeps ==
  ASSUME IInv, NEW h \in Handlers, TypingStep(h)
  PROVE  IInv'
  <1> USE DEF At
  <1>1. CASE RefuseTyping(h) \/ ShowTyping(h)
    BY <1>1, HandlerEnds DEF RefuseTyping, ShowTyping
  <1>2. CASE AcceptTyping(h)
    <2>1. CASE current[task[h].sock] = task[h].room
      <3>1. IsMember(task[h].user, task[h].room)
        BY <1>2, <2>1, HandlerFacts, GatewayAssumption
           DEF AcceptTyping, ClientPCs, IInv, MembersHere
      <3>2. TaskOK([task[h] EXCEPT !.pc = "type lookup"])
        BY <1>2, <3>1, HandlerFacts
           DEF AcceptTyping, TaskOK, Task, PCs, Placed, Informed, ClientPCs
      <3>3. "type lookup" \in PCs /\ Goto(h, "type lookup")
        BY <1>2, <2>1 DEF AcceptTyping, PCs
      <3> QED
        BY <1>2, <3>2, <3>3, HandlerGoes DEF AcceptTyping
    <2>2. CASE current[task[h].sock] # task[h].room
      BY <1>2, <2>2, HandlerEnds DEF AcceptTyping
    <2> QED
      BY <2>1, <2>2
  <1> QED
    BY <1>1, <1>2 DEF TypingStep

\* Every step of getRoomMessages, which reads a page and marks it read.
LEMMA FetchStepKeeps ==
  ASSUME IInv, NEW h \in Handlers, FetchStep(h)
  PROVE  IInv'
  <1> USE DEF At
  <1>0. TypeOK
    BY DEF IInv
  <1>1. CASE VerifyFetch(h)
    <2>1. CASE IsMember(task[h].user, task[h].room)
      <3>1. TaskOK([task[h] EXCEPT !.pc = "fetch page"])
        BY <1>1, HandlerFacts
           DEF VerifyFetch, TaskOK, Task, PCs, Placed, Informed, ClientPCs
      <3>2. "fetch page" \in PCs /\ Goto(h, "fetch page")
        BY <1>1, <2>1 DEF VerifyFetch, PCs
      <3> QED
        BY <1>1, <3>1, <3>2, HandlerGoes DEF VerifyFetch
    <2>2. CASE ~IsMember(task[h].user, task[h].room)
      BY <1>1, <2>2, HandlerEnds DEF VerifyFetch
    <2> QED
      BY <2>1, <2>2
  <1>2. CASE FetchPage(h)
    <2>1. PICK ids \in SUBSET MessageIds : ids = Page(task[h].room)
      BY DEF Page, Stored
    <2>2. PICK t : t = [task[h] EXCEPT !.pc = "fetch receipts", !.ids = ids]
      OBVIOUS
    <2>3. TaskOK(t)
      BY <1>2, <2>1, <2>2, HandlerFacts
         DEF FetchPage, TaskOK, Task, PCs, Placed, Informed, ClientPCs
    <2>4. task' = [task EXCEPT ![h] = t]
      BY <1>0, <1>2, <2>1, <2>2 DEF FetchPage, TypeOK
    <2> QED
      BY <1>2, <2>3, <2>4, HandlerMoves DEF FetchPage
  <1>3. CASE FetchReceipts(h)
    <2>1. TaskOK([task[h] EXCEPT !.pc = "fetch mark"])
      BY <1>3, HandlerFacts
         DEF FetchReceipts, TaskOK, Task, PCs, Placed, Informed, ClientPCs
    <2>2. "fetch mark" \in PCs
      BY DEF PCs
    <2> QED
      BY <1>3, <2>1, <2>2, HandlerGoes DEF FetchReceipts
  <1>4. CASE MarkFetched(h)
    <2>1. PICK ids, u : MarkAsRead(ids, u)
      BY <1>4 DEF MarkFetched
    <2> QED
      BY <1>4, <2>1, MarkAsReadKeeps DEF MarkFetched
  <1> QED
    BY <1>1, <1>2, <1>3, <1>4 DEF FetchStep

\* A new member makes no one less of a member.
LEMMA BecomeMemberKeeps ==
  ASSUME IInv, NEW r \in Rooms, NEW u \in Users, BecomeMember(r, u)
  PROVE  IInv'
  <1>0. TypeOK
    BY DEF IInv
  <1>1. Grows /\ members' \in [Rooms -> SUBSET Users]
        /\ UNCHANGED <<messages, receipts, read>>
    BY <1>0 DEF BecomeMember, AddMember, Grows, Stored, TypeOK, DbType
  <1>2. TypeOK'
    BY <1>0, <1>1 DEF BecomeMember, TypeOK, PresenceType, DbType, socketVars,
                      history, presenceVars
  <1>3. TasksOK'
    <2>1. ASSUME NEW h \in Handlers
          PROVE  TaskOK(task[h])'
      <3>1. PICK t : t = task[h]
        OBVIOUS
      <3>2. TaskOK(t)' /\ task'[h] = t
        BY <1>0, <1>1, <3>1, KeepsInformed DEF BecomeMember, IInv, TasksOK
      <3> QED
        BY <3>2 DEF TaskOK, Placed, Informed
    <2> QED
      BY <2>1 DEF TasksOK
  <1>4. MembersHere'
    <2>1. \A q \in Rooms, x \in Users : IsMember(x, q) => IsMember(x, q)'
      BY <1>1 DEF Grows, IsMember
    <2>2. Stored' = Stored
      BY <1>1 DEF Stored
    <2>3. \A m \in Stored : messages[m].room \in Rooms /\ messages[m].sender \in Users
      BY <1>0 DEF TypeOK, DbType, Stored, Message
    <2>4. \A s \in Sockets : UserOf[s] \in Users /\ ioRooms[s] \subseteq Rooms
                              /\ current[s] \in Rooms \cup {None}
      BY <1>0, GatewayAssumption DEF TypeOK
    <2>5. \A d \in delivered : d[1] \in Sockets
      BY <1>0 DEF TypeOK
    <2> QED
      BY <1>1, <2>1, <2>2, <2>3, <2>4, <2>5
         DEF BecomeMember, IInv, MembersHere, socketVars, history
  <1>5. ReceiptsWellFormed'
    <2>1. \A q \in Rooms, x \in Users : IsMember(x, q) => IsMember(x, q)'
      BY <1>1 DEF Grows, IsMember
    <2>2. Stored' = Stored
      BY <1>1 DEF Stored
    <2>3. \A m \in Stored : messages[m].room \in Rooms
      BY <1>0 DEF TypeOK, DbType, Stored, Message
    <2>4. \A p \in receipts : p[2] \in Users
      BY <1>0 DEF TypeOK, DbType
    <2> QED
      BY <1>1, <2>1, <2>2, <2>3, <2>4 DEF IInv, ReceiptsWellFormed
  <1> QED
    BY <1>2, <1>3, <1>4, <1>5 DEF IInv

------------------------------------------------------------------------------
\* The invariant is inductive, and an invariant of Gateway.
THEOREM Invariance == Spec => []IInv
  <1>1. Init => IInv
    <2> SUFFICES ASSUME Init PROVE IInv
      OBVIOUS
    <2>1. TypeOK
      BY IdleOK, GatewayAssumption, PresenceAssumption
         DEF Init, PresenceInit, DbInit, TypeOK, TaskOK, PresenceType, DbType,
             Statuses, Phases, Beats
    <2>2. TasksOK
      BY IdleOK DEF Init, TasksOK
    <2>3. Stored = {}
      BY DEF Init, DbInit, Stored
    <2>4. MembersHere /\ ReceiptsWellFormed
      BY <2>3 DEF Init, DbInit, MembersHere, ReceiptsWellFormed
    <2> QED
      BY <2>1, <2>2, <2>4 DEF IInv
  <1>2. IInv /\ [Next]_vars => IInv'
    <2> SUFFICES ASSUME IInv, [Next]_vars PROVE IInv'
      OBVIOUS
    <2>1. ASSUME NEW h \in Handlers, Step(h) PROVE IInv'
      <3>1. CASE ExecRead(h)
        <4>1. PICK ids, u : MarkAsRead(ids, u)
          BY <3>1 DEF ExecRead
        <4> QED
          BY <3>1, <4>1, MarkAsReadKeeps DEF ExecRead
      <3>2. CASE DbError(h)
        BY <3>2, HandlerEnds DEF DbError
      <3> QED
        BY <2>1, <3>1, <3>2, JoinStepKeeps, SendStepKeeps, TypingStepKeeps,
           FetchStepKeeps DEF Step
    <2>2. CASE UNCHANGED vars
      <3>1. TypeOK'
        BY <2>2 DEF vars, IInv, TypeOK, PresenceType, DbType, socketVars, history,
                    presenceVars, dbVars
      <3> QED
        BY <2>2, <3>1, SocketSteps DEF vars, socketVars
    <2> QED
      BY <2>1, <2>2, ReceiptKeeps, StartFetchKeeps, SocketStepsKeep,
         BecomeMemberKeeps, TickKeeps, CrashKeeps DEF Next
  <1> QED
    BY <1>1, <1>2, PTL DEF Spec

\* Every variable keeps its type.
THEOREM TypeCorrect == Spec => []TypeOK
  <1>1. IInv => TypeOK
    BY DEF IInv
  <1> QED
    BY <1>1, Invariance, PTL

\* Only members of a room are in its Socket.IO room, send to it and receive from
\* it ("Only room members can join a room over WebSocket, send/receive messages").
THEOREM MembersOnly == Spec => []OnlyMembersTakePart
  <1>1. IInv => OnlyMembersTakePart
    BY DEF IInv, MembersHere, OnlyMembersTakePart, TasksOK, TaskOK, Informed, At
  <1> QED
    BY <1>1, Invariance, PTL

\* createDeliveryReceipts makes receipts for members other than the sender only,
\* and what clients mark as read are receipts that exist.
THEOREM ReceiptsCorrect == Spec => []ReceiptsWellFormed
  <1>1. IInv => ReceiptsWellFormed
    BY DEF IInv
  <1> QED
    BY <1>1, Invariance, PTL
===============================================================================
