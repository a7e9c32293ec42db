------------------------ MODULE GatewayPresence_proofs ------------------------
(***************************************************************************)
(* Proofs that a user with a single connection is shown as online, and is  *)
(* listed in the room the connection is in, for every value of the         *)
(* constants.                                                              *)
(*                                                                         *)
(* Both keys are written blindly: a heartbeat writes back the status its   *)
(* GET read, getUserPresence writes "offline" because of a TTL it read,    *)
(* and the disconnect handlers of any socket of the user write too.  Shown *)
(* says where each of these is while the user has one connection: the      *)
(* heartbeat holds no "offline", the TTL outlives the period it waits for, *)
(* no handler has decided that the status is over, and the user's other    *)
(* sockets are new, thus neither beat nor clean up (Dormant).              *)
(***************************************************************************)
EXTENDS GatewayDelivery_proofs

\* A user's other sockets have never been used.
Sole(s) == \A o \in Sockets \ {s} : UserOf[o] = UserOf[s] => phase[o] = "new"

Alive(s) == phase[s] \in {"opening", "open"}

\* A socket that is not open yet does not beat, one that is not closed does not
\* clean up.
Dormant ==
    \A s \in Sockets : /\ phase[s] \in {"new", "opening"} => beat[s] = "off"
                       /\ cleanup[s] # None => phase[s] = "closed"

\* The heartbeat of a socket keeps ahead of the TTL ...
Ahead(s) ==
    /\ status[UserOf[s]] = "online"
    /\ phase[s] = "open" => beat[s] \in {"waiting", "due", "online"}
    /\ ttl[UserOf[s]] >= 1
    /\ phase[s] = "opening" \/ beat[s] = "waiting" => ttl[UserOf[s]] >= 2

\* ... and no handler of its user is about to write "offline".
Undecided(s) ==
    \A h \in Handlers : task[h].pc = "join offline" => task[h].user # UserOf[s]

Shown == \A s \in Sockets : Sole(s) /\ Alive(s) => Ahead(s) /\ Undecided(s)

\* No handler decides that a status is over.
NoDecision == \A g \in Handlers : task'[g].pc = "join offline" => task'[g] = task[g]

------------------------------------------------------------------------------
(* Which steps touch what presence depends on. *)

\* A handler that goes anywhere but to MarkOffline decides nothing.
LEMMA GoingDecidesNothing ==
  ASSUME IInv, NEW h \in Handlers, NEW t, task' = [task EXCEPT ![h] = t],
         t.pc # "join offline"
  PROVE  NoDecision
  <1>1. \A g \in Handlers : task'[g] = IF g = h THEN t ELSE task[g]
    BY DEF IInv, TypeOK
  <1> QED
    BY <1>1 DEF NoDecision

\* The same, when all that changes is whether it ends, or where it goes on.
LEMMA GotoDecidesNothing ==
  ASSUME IInv, NEW h \in Handlers,
         Done(h) \/ \E pc \in PCs \ {"join offline"} : Goto(h, pc)
  PROVE  NoDecision
  <1>1. CASE Done(h)
    BY <1>1, IdleRests, GoingDecidesNothing DEF Done
  <1>2. ASSUME NEW pc \in PCs \ {"join offline"}, Goto(h, pc)
        PROVE  NoDecision
    <2>1. PICK t : t = [task[h] EXCEPT !.pc = pc]
      OBVIOUS
    <2>2. t.pc = pc
      BY <2>1, HandlerFacts DEF Task
    <2>3. task' = [task EXCEPT ![h] = t]
      BY <1>2, <2>1 DEF Goto, IInv, TypeOK
    <2> QED
      BY <2>2, <2>3, GoingDecidesNothing
  <1> QED
    BY <1>1, <1>2

\* A step of a handler enters a room, decides, writes "offline", or leaves sockets
\* and presence alone.
LEMMA StepPresence ==
  ASSUME IInv, NEW h \in Handlers, Step(h)
  PROVE  \/ CheckTtl(h)
         \/ /\ NoDecision
            /\ EnterRoom(h) \/ MarkOffline(h) \/ UNCHANGED <<socketVars, presenceVars>>
  <1>1. CASE JoinStep(h) /\ ~CheckTtl(h)
    <2>1. Done(h) \/ \E pc \in PCs \ {"join offline"} : Goto(h, pc)
      BY <1>1 DEF JoinStep, RefuseJoin, CheckJoin, EnterRoom, ReadPresence, MarkOffline,
                  FinishJoin, PCs
    <2>2. EnterRoom(h) \/ MarkOffline(h) \/ UNCHANGED <<socketVars, presenceVars>>
      BY <1>1 DEF JoinStep, RefuseJoin, CheckJoin, ReadPresence, FinishJoin
    <2> QED
      BY <2>1, <2>2, GotoDecidesNothing
  <1>2. CASE FindRecipients(h)
    <2>1. PICK t : t = [task[h] EXCEPT
                 !.pc = IF Recipients(task[h].room, task[h].user) = {} THEN "send broadcast"
                        ELSE "send receipts",
                 !.to = Recipients(task[h].room, task[h].user)]
      OBVIOUS
    <2>2. t.pc # "join offline"
      BY <2>1, HandlerFacts DEF Task
    <2>3. task' = [task EXCEPT ![h] = t]
      BY <1>2, <2>1 DEF FindRecipients, IInv, TypeOK
    <2> QED
      BY <1>2, <2>2, <2>3, GoingDecidesNothing DEF FindRecipients
  <1>3. ASSUME NEW m \in MessageIds, CreateMessage(h, m)
        PROVE  NoDecision /\ UNCHANGED <<socketVars, presenceVars>>
    <2>1. PICK t : t = [task[h] EXCEPT !.pc = "send recipients", !.ids = {m}]
      OBVIOUS
    <2>2. t.pc # "join offline"
      BY <2>1, HandlerFacts DEF Task
    <2>3. task' = [task EXCEPT ![h] = t]
      BY <1>3, <2>1 DEF CreateMessage, IInv, TypeOK
    <2> QED
      BY <1>3, <2>2, <2>3, GoingDecidesNothing DEF CreateMessage
  <1>4. CASE RefuseSend(h) \/ AcceptSend(h) \/ VerifySend(h) \/ CreateReceipts(h)
             \/ FailReceipts(h) \/ Broadcast(h)
    <2>1. Done(h) \/ \E pc \in PCs \ {"join offline"} : Goto(h, pc)
      BY <1>4 DEF RefuseSend, AcceptSend, VerifySend, CreateReceipts, FailReceipts,
                  Broadcast, PCs
    <2>2. UNCHANGED <<socketVars, presenceVars>>
      BY <1>4 DEF RefuseSend, AcceptSend, VerifySend, CreateReceipts, FailReceipts,
                  Broadcast
    <2> QED
      BY <2>1, <2>2, GotoDecidesNothing
  <1>5. CASE TypingStep(h) \/ ExecRead(h) \/ DbError(h)
    <2>1. Done(h) \/ \E pc \in PCs \ {"join offline"} : Goto(h, pc)
      BY <1>5 DEF TypingStep, RefuseTyping, AcceptTyping, ShowTyping, ExecRead, DbError,
                  PCs
    <2>2. UNCHANGED <<socketVars, presenceVars>>
      BY <1>5 DEF TypingStep, RefuseTyping, AcceptTyping, ShowTyping, ExecRead, DbError
    <2> QED
      BY <2>1, <2>2, GotoDecidesNothing
  <1>6. CASE FetchPage(h)
    <2>1. PICK t : t = [task[h] EXCEPT !.pc = "fetch receipts", !.ids = Page(task[h].room)]
      OBVIOUS
    <2>2. t.pc # "join offline"
      BY <2>1, HandlerFacts DEF Task
    <2>3. task' = [task EXCEPT ![h] = t]
      BY <1>6, <2>1 DEF FetchPage, IInv, TypeOK
    <2> QED
      BY <1>6, <2>2, <2>3, GoingDecidesNothing DEF FetchPage
  <1>7. CASE VerifyFetch(h) \/ FetchReceipts(h) \/ MarkFetched(h)
    <2>1. Done(h) \/ \E pc \in PCs \ {"join offline"} : Goto(h, pc)
      BY <1>7 DEF VerifyFetch, FetchReceipts, MarkFetched, PCs
    <2>2. UNCHANGED <<socketVars, presenceVars>>
      BY <1>7 DEF VerifyFetch, FetchReceipts, MarkFetched
    <2> QED
      BY <2>1, <2>2, GotoDecidesNothing
  <1> QED
    BY <1>1, <1>2, <1>3, <1>4, <1>5, <1>6, <1>7 DEF Step, SendStep, FetchStep

\* What starts a handler decides nothing, and leaves sockets and presence alone.
LEMMA ArrivalPresence ==
  ASSUME IInv, NEW h \in Handlers,
         Receipt(h) \/ \E u \in Users, r \in Rooms : StartFetch(h, u, r)
  PROVE  NoDecision /\ UNCHANGED <<socketVars, presenceVars>>
  <1>1. ASSUME NEW pc \in {"join check", "send limit", "type limit", "read", "fetch verify"},
               NEW s, NEW u, NEW r, NEW ids, Start(h, pc, s, u, r, ids)
        PROVE  NoDecision
    <2>1. PICK t : t = [pc |-> pc, sock |-> s, user |-> u, room |-> r, ids |-> ids,
                        to |-> {}]
      OBVIOUS
    <2>2. t.pc # "join offline" /\ task' = [task EXCEPT ![h] = t]
      BY <1>1, <2>1 DEF Start
    <2> QED
      BY <2>2, GoingDecidesNothing
  <1>2. CASE Receipt(h)
    BY <1>1, <1>2 DEF Receipt, StartJoin, StartSend, StartTyping, StartRead, Receive
  <1>3. ASSUME NEW u \in Users, NEW r \in Rooms, StartFetch(h, u, r)
        PROVE  NoDecision /\ UNCHANGED <<socketVars, presenceVars>>
    BY <1>1, <1>3 DEF StartFetch
  <1> QED
    BY <1>2, <1>3

------------------------------------------------------------------------------
(* A socket, once used, is never new again. *)

\* No step makes a socket new, so that a connection that is the only one its user
\* ever had was so before.
LEMMA SoleWasSole ==
  ASSUME IInv, [Next]_vars, NEW s \in Sockets, Sole(s)'
  PROVE  Sole(s)
  <1>1. \A o \in Sockets : phase'[o] = "new" => phase[o] = "new"
    <2>1. ASSUME NEW x \in Sockets, SocketStep(x), NEW o \in Sockets, phase'[o] = "new"
          PROVE  phase[o] = "new"
      BY <2>1 DEF SocketStep, Connect, Opened, CloseEarly, Disconnect, CleanUp, BeatGet,
                  BeatSet, LeaveRoom, IInv, TypeOK
    <2>2. ASSUME NEW h \in Handlers, Step(h) \/ Receipt(h)
                    \/ \E u \in Users, r \in Rooms : StartFetch(h, u, r)
          PROVE  UNCHANGED phase
      BY <2>2, StepPresence, ArrivalPresence
         DEF CheckTtl, EnterRoom, MarkOffline, socketVars
    <2>3. CASE Crash
      BY <2>3 DEF Crash
    <2>4. CASE Tick \/ UNCHANGED vars \/ \E r \in Rooms, u \in Users : BecomeMember(r, u)
      BY <2>4 DEF Tick, BecomeMember, vars, socketVars
    <2> QED
      BY <2>1, <2>2, <2>3, <2>4 DEF Next
  <1> QED
    BY <1>1 DEF Sole

\* The sockets of a handler, of a disconnect handler and of a heartbeat in flight
\* are not new: when a user's only connection is another, the user is another.
LEMMA Others ==
  ASSUME IInv, Joined, Dormant, NEW s \in Sockets, Sole(s)
  PROVE  /\ \A h \in Handlers : task[h].pc \in ClientPCs /\ task[h].sock # s
                                    => task[h].user # UserOf[s]
         /\ \A o \in Sockets \ {s} : phase[o] # "new" => UserOf[o] # UserOf[s]
         /\ \A o \in Sockets \ {s} : cleanup[o] # None => UserOf[o] # UserOf[s]
         /\ \A o \in Sockets \ {s} : beat[o] # "off" => UserOf[o] # UserOf[s]
  <1>1. \A o \in Sockets \ {s} : phase[o] # "new" => UserOf[o] # UserOf[s]
    BY DEF Sole
  <1>2. ASSUME NEW h \in Handlers, task[h].pc \in ClientPCs, task[h].sock # s
        PROVE  task[h].user # UserOf[s]
    <2>1. /\ task[h].sock \in Sockets \ {s} /\ task[h].user = UserOf[task[h].sock]
          /\ phase[task[h].sock] \in {"open", "closed"}
      BY <1>2, HandlerFacts DEF Joined
    <2> QED
      BY <1>1, <2>1
  <1> QED
    BY <1>1, <1>2 DEF Dormant

\* Heartbeats start when a socket opens, and what a disconnect handler has to clean
\* up is remembered when it closes.
LEMMA DormantKeeps ==
  ASSUME IInv, Dormant, [Next]_vars
  PROVE  Dormant'
  <1>1. ASSUME NEW s \in Sockets, SocketStep(s)
        PROVE  Dormant'
    <2>1. \A x \in Sockets \ {s} : /\ phase'[x] = phase[x] /\ beat'[x] = beat[x]
                                   /\ cleanup'[x] = cleanup[x]
      BY <1>1 DEF SocketStep, Connect, Opened, CloseEarly, Disconnect, CleanUp, BeatGet,
                  BeatSet, LeaveRoom, IInv, TypeOK
    <2>2. /\ phase'[s] \in {"new", "opening"} => beat'[s] = "off"
          /\ cleanup'[s] # None => phase'[s] = "closed"
      <3>1. CASE Connect(s) \/ Opened(s) \/ CloseEarly(s)
        BY <3>1 DEF Dormant, Connect, Opened, CloseEarly, IInv, TypeOK
      <3>2. CASE Disconnect(s) \/ CleanUp(s)
        BY <3>2 DEF Dormant, Disconnect, CleanUp, IInv, TypeOK
      <3>3. CASE BeatGet(s) \/ BeatSet(s)
        BY <3>3 DEF Dormant, BeatGet, BeatSet, IInv, TypeOK
      <3>4. CASE \E r \in Rooms : LeaveRoom(s, r)
        BY <3>4 DEF Dormant, LeaveRoom
      <3> QED
        BY <1>1, <3>1, <3>2, <3>3, <3>4 DEF SocketStep
    <2> QED
      BY <2>1, <2>2 DEF Dormant
  <1>2. ASSUME NEW h \in Handlers, Step(h) \/ Receipt(h)
                  \/ \E u \in Users, r \in Rooms : StartFetch(h, u, r)
        PROVE  Dormant'
    <2>1. UNCHANGED <<phase, beat, cleanup>>
      BY <1>2, StepPresence, ArrivalPresence
         DEF CheckTtl, EnterRoom, MarkOffline, socketVars
    <2> QED
      BY <2>1 DEF Dormant
  <1>3. CASE Tick
    BY <1>3 DEF Tick, Dormant, IInv, TypeOK
  <1>4. CASE Crash
    BY <1>4 DEF Crash, Dormant
  <1>5. CASE UNCHANGED vars \/ \E r \in Rooms, u \in Users : BecomeMember(r, u)
    BY <1>5 DEF BecomeMember, vars, socketVars, Dormant
  <1> QED
    BY <1>1, <1>2, <1>3, <1>4, <1>5 DEF Next

------------------------------------------------------------------------------
(* The only connection of a user keeps the user online. *)

\* What a step has to leave alone for Shown to stay true of a socket.
LEMMA ShownStays ==
  ASSUME IInv, Shown, NEW s \in Sockets, Sole(s), Alive(s), NoDecision,
         UNCHANGED <<phase[s], beat[s], status[UserOf[s]], ttl[UserOf[s]]>>
  PROVE  Ahead(s)' /\ Undecided(s)'
  <1>1. Ahead(s) /\ Undecided(s)
    BY DEF Shown
  <1>2. Ahead(s)'
    BY <1>1 DEF Ahead
  <1>3. Undecided(s)'
    BY <1>1 DEF Undecided, NoDecision
  <1> QED
    BY <1>2, <1>3

\* A step of another socket leaves the keys of the user alone.
LEMMA OtherSocketShown ==
  ASSUME IInv, Joined, Dormant, Shown, NEW s \in Sockets, Sole(s)', Sole(s), Alive(s),
         NEW o \in Sockets \ {s}, SocketStep(o)
  PROVE  Ahead(s)' /\ Undecided(s)'
  <1>1. UserOf[s] \in Users /\ UserOf[o] \in Users
    BY GatewayAssumption
  <1>2. NoDecision
    BY DEF SocketStep, Connect, Opened, CloseEarly, Disconnect, CleanUp, BeatGet,
           BeatSet, LeaveRoom, NoDecision
  <1>3. UNCHANGED <<phase[s], beat[s]>>
    BY DEF SocketStep, Connect, Opened, CloseEarly, Disconnect, CleanUp, BeatGet,
           BeatSet, LeaveRoom, IInv, TypeOK
  <1>4. UNCHANGED <<status[UserOf[s]], ttl[UserOf[s]]>>
    <2>1. CASE Connect(o)
      <3>1. phase'[o] # "new"
        BY <2>1 DEF Connect, IInv, TypeOK
      <3>2. UserOf[o] # UserOf[s]
        BY <3>1 DEF Sole
      <3> QED
        BY <1>1, <2>1, <3>2
           DEF Connect, SetUserOnline, SetStatus, IInv, TypeOK, PresenceType
    <2>2. CASE Disconnect(o)
      <3>1. UserOf[o] # UserOf[s]
        BY <2>2, Others DEF Disconnect
      <3> QED
        BY <1>1, <2>2, <3>1
           DEF Disconnect, SetUserOffline, SetStatus, IInv, TypeOK, PresenceType
    <2>3. CASE BeatSet(o)
      <3>1. UserOf[o] # UserOf[s]
        BY <2>3, Others DEF BeatSet
      <3> QED
        BY <1>1, <2>3, <3>1
           DEF BeatSet, WriteLastSeen, SetStatus, IInv, TypeOK, PresenceType
    <2>4. CASE Opened(o) \/ CloseEarly(o) \/ CleanUp(o) \/ BeatGet(o)
               \/ \E r \in Rooms : LeaveRoom(o, r)
      BY <2>4 DEF Opened, CloseEarly, CleanUp, BeatGet, LeaveRoom, presenceVars
    <2> QED
      BY <2>1, <2>2, <2>3, <2>4 DEF SocketStep
  <1> QED
    BY <1>2, <1>3, <1>4, ShownStays

\* The user's own socket connects, opens, and writes back what it read, which the
\* TTL it wrote before has kept.
LEMMA OwnSocketShown ==
  ASSUME IInv, Joined, Dormant, Shown, OnlineTtl >= 2, NEW s \in Sockets, Sole(s),
         SocketStep(s), Alive(s)'
  PROVE  Ahead(s)' /\ Undecided(s)'
  <1> USE PresenceAssumption DEF Ahead, Alive
  <1>0. TypeOK /\ UserOf[s] \in Users
    BY GatewayAssumption DEF IInv
  <1>1. CASE Connect(s)
    <2>1. phase[s] = "new" /\ phase'[s] = "opening"
      BY <1>0, <1>1 DEF Connect, TypeOK
    <2>2. status'[UserOf[s]] = "online" /\ ttl'[UserOf[s]] = OnlineTtl
      BY <1>0, <1>1 DEF Connect, SetUserOnline, SetStatus, TypeOK, PresenceType
    <2>3. \A h \in Handlers : task[h].pc \in ClientPCs => task[h].sock # s
      BY <2>1 DEF Joined
    <2>4. Undecided(s)
      BY <2>3, Others DEF Undecided, ClientPCs
    <2>5. Undecided(s)'
      BY <1>1, <2>4 DEF Undecided, Connect
    <2> QED
      BY <2>1, <2>2, <2>5
  <1>2. CASE Opened(s)
    <2>1. phase[s] = "opening" /\ phase'[s] = "open" /\ beat'[s] = "waiting"
      BY <1>0, <1>2 DEF Opened, TypeOK
    <2>2. Ahead(s) /\ Undecided(s)
      BY <2>1 DEF Shown
    <2>3. Undecided(s)'
      BY <1>2, <2>2 DEF Undecided, Opened
    <2> QED
      BY <1>2, <2>1, <2>2, <2>3 DEF Opened, presenceVars
  <1>3. CASE CloseEarly(s) \/ Disconnect(s)
    BY <1>0, <1>3 DEF CloseEarly, Disconnect, TypeOK
  <1>4. CASE BeatGet(s) \/ BeatSet(s)
    <2>1. Ahead(s) /\ Undecided(s) /\ phase[s] = "open" /\ phase'[s] = "open"
      BY <1>4 DEF BeatGet, BeatSet, Shown, Dormant
    <2>2. Undecided(s)'
      BY <1>4, <2>1 DEF Undecided, BeatGet, BeatSet
    <2>3. CASE BeatGet(s)
      <3>1. beat'[s] = "online" /\ UNCHANGED <<status, ttl>>
        BY <1>0, <2>1, <2>3 DEF BeatGet, presenceVars, TypeOK
      <3> QED
        BY <2>1, <2>2, <3>1
    <2>4. CASE BeatSet(s)
      <3>1. beat[s] = "online" /\ beat'[s] = "waiting"
        BY <1>0, <2>1, <2>4 DEF BeatSet, TypeOK
      <3>2. status'[UserOf[s]] = "online" /\ ttl'[UserOf[s]] = OnlineTtl
        BY <1>0, <2>4, <3>1 DEF BeatSet, WriteLastSeen, SetStatus, TypeOK, PresenceType
      <3> QED
        BY <2>1, <2>2, <3>1, <3>2
    <2> QED
      BY <1>4, <2>3, <2>4
  <1>5. CASE CleanUp(s)
    BY <1>0, <1>5 DEF CleanUp, Dormant
  <1>6. CASE \E r \in Rooms : LeaveRoom(s, r)
    <2>1. Alive(s) /\ NoDecision
          /\ UNCHANGED <<phase[s], beat[s], status[UserOf[s]], ttl[UserOf[s]]>>
      BY <1>6 DEF LeaveRoom, NoDecision
    <2> QED
      BY <2>1, ShownStays
  <1> QED
    BY <1>1, <1>2, <1>3, <1>4, <1>5, <1>6 DEF SocketStep

\* A handler finds the status of such a user online, and does not put it offline.
LEMMA HandlerShown ==
  ASSUME IInv, Joined, Dormant, Shown, NEW s \in Sockets, Sole(s), Alive(s),
         NEW h \in Handlers, Step(h)
  PROVE  Ahead(s)' /\ Undecided(s)'
  <1>0. TypeOK /\ Ahead(s) /\ Undecided(s) /\ UserOf[s] \in Users
    BY GatewayAssumption DEF IInv, Shown
  <1>1. CASE CheckTtl(h)
    <2>1. CASE task[h].user = UserOf[s]
      <3>1. Goto(h, "join unread")
        BY <1>0, <1>1, <2>1 DEF CheckTtl, StatusExpired, Ahead
      <3>2. NoDecision
        BY <3>1, GotoDecidesNothing DEF PCs
      <3> QED
        BY <1>1, <3>2, ShownStays DEF CheckTtl, socketVars, presenceVars
    <2>2. CASE task[h].user # UserOf[s]
      <3>1. PICK t : t = [task[h] EXCEPT !.pc = IF StatusExpired(task[h].user)
                                                THEN "join offline" ELSE "join unread"]
        OBVIOUS
      <3>2. t.user = task[h].user
        BY <3>1, HandlerFacts DEF Task
      <3>3. task' = [task EXCEPT ![h] = t]
        BY <1>0, <1>1, <3>1 DEF CheckTtl, Goto, TypeOK
      <3>4. \A g \in Handlers : task'[g] = IF g = h THEN t ELSE task[g]
        BY <1>0, <3>3 DEF TypeOK
      <3>5. Undecided(s)'
        BY <1>0, <2>2, <3>2, <3>4 DEF Undecided
      <3>6. Ahead(s)'
        BY <1>0, <1>1 DEF CheckTtl, socketVars, presenceVars, Ahead
      <3> QED
        BY <3>5, <3>6
    <2> QED
      BY <2>1, <2>2
  <1>2. CASE NoDecision /\ MarkOffline(h)
    <2>1. task[h].user # UserOf[s]
      BY <1>0, <1>2 DEF MarkOffline, At, Undecided
    <2>2. UNCHANGED <<status[UserOf[s]], ttl[UserOf[s]]>>
      BY <1>0, <1>2, <2>1
         DEF MarkOffline, SetUserOffline, SetStatus, TypeOK, PresenceType
    <2> QED
      BY <1>2, <2>2, ShownStays DEF MarkOffline, socketVars
  <1>3. CASE NoDecision /\ (EnterRoom(h) \/ UNCHANGED <<socketVars, presenceVars>>)
    BY <1>3, ShownStays DEF EnterRoom, socketVars, presenceVars
  <1> QED
    BY <1>1, <1>2, <1>3, StepPresence

\* A period passes: the heartbeat was waiting, with at least two periods left.
LEMMA TickShown ==
  ASSUME IInv, Shown, Punctual, Tick, NEW s \in Sockets, Sole(s), Alive(s)
  PROVE  Ahead(s)' /\ Undecided(s)'
  <1> USE PresenceAssumption
  <1>0. TypeOK /\ Ahead(s) /\ Undecided(s) /\ UserOf[s] \in Users
    BY GatewayAssumption DEF IInv, Shown
  <1>1. phase[s] = "open" /\ beat[s] = "waiting" /\ UNCHANGED <<phase, task>>
    BY <1>0 DEF Tick, Alive, Ahead
  <1>2. beat'[s] = "due"
    BY <1>1 DEF Tick
  <1>3. ttl[UserOf[s]] \in Nat /\ ttl[UserOf[s]] >= 2 /\ status[UserOf[s]] = "online"
    BY <1>0, <1>1 DEF Ahead, TypeOK, PresenceType
  <1>4. ttl'[UserOf[s]] >= 1 /\ status'[UserOf[s]] = "online"
    BY <1>0, <1>3 DEF Tick, PresenceTick
  <1> QED
    BY <1>0, <1>1, <1>2, <1>4 DEF Ahead, Undecided

\* Every step keeps the user of a single connection online.
LEMMA ShownKeeps ==
  ASSUME IInv, Joined, Dormant, Shown, Punctual, OnlineTtl >= 2, [Next]_vars
  PROVE  Shown'
  <1> SUFFICES ASSUME NEW s \in Sockets, Sole(s)', Alive(s)'
               PROVE  Ahead(s)' /\ Undecided(s)'
    BY DEF Shown
  <1>1. Sole(s)
    BY SoleWasSole
  <1>2. ASSUME NEW o \in Sockets, SocketStep(o)
        PROVE  Ahead(s)' /\ Undecided(s)'
    <2>1. CASE o = s
      BY <1>1, <1>2, <2>1, OwnSocketShown
    <2>2. CASE o # s
      <3>1. phase'[s] = phase[s]
        BY <1>2, <2>2 DEF SocketStep, Connect, Opened, CloseEarly, Disconnect, CleanUp,
                          BeatGet, BeatSet, LeaveRoom, IInv, TypeOK
      <3> QED
        BY <1>1, <1>2, <2>2, <3>1, OtherSocketShown DEF Alive
    <2> QED
      BY <2>1, <2>2
  <1>3. ASSUME NEW h \in Handlers, Step(h)
        PROVE  Ahead(s)' /\ Undecided(s)'
    <2>1. UNCHANGED phase
      BY <1>3, StepPresence DEF CheckTtl, EnterRoom, MarkOffline, socketVars
    <2> QED
      BY <1>1, <1>3, <2>1, HandlerShown DEF Alive
  <1>4. ASSUME NEW h \in Handlers,
               Receipt(h) \/ \E u \in Users, r \in Rooms : StartFetch(h, u, r)
        PROVE  Ahead(s)' /\ Undecided(s)'
    BY <1>1, <1>4, ArrivalPresence, ShownStays DEF socketVars, presenceVars, Alive
  <1>5. CASE Tick
    BY <1>1, <1>5, TickShown DEF Tick, Alive
  <1>6. CASE Crash
    BY <1>6 DEF Crash, Alive
  <1>7. CASE UNCHANGED vars \/ \E r \in Rooms, u \in Users : BecomeMember(r, u)
    BY <1>1, <1>7, ShownStays
       DEF BecomeMember, vars, socketVars, presenceVars, Alive, NoDecision
  <1> QED
    BY <1>2, <1>3, <1>4, <1>5, <1>6, <1>7 DEF Next

\* Dormant is inductive, given the invariant of Gateway_proofs.
THEOREM DormantInvariance == Spec => []Dormant
  <1>1. Init => Dormant
    BY DEF Init, Dormant
  <1> QED
    BY <1>1, DormantKeeps, Invariance, PTL DEF Spec

\* A user whose only connection is open is online, whatever the order of the reads
\* and writes of heartbeats, of getUserPresence and of the disconnect handlers, as
\* long as a heartbeat is served within its period and PRESENCE_TTL is two of them
\* (startHeartbeat, updateLastSeen).
THEOREM SoleOnline ==
  ASSUME Punctual, OnlineTtl >= 2
  PROVE  Spec => []SoleSessionOnline
  <1>1. Init => Shown
    BY DEF Init, Shown, Alive
  <1>2. IInv /\ Joined /\ Dormant /\ Shown /\ [Next]_vars => Shown'
    BY ShownKeeps
  <1>3. Shown => SoleSessionOnline
    BY DEF Shown, Sole, Alive, Ahead, SoleSessionOnline
  <1> QED
    BY <1>1, <1>2, <1>3, Invariance, JoinedInvariance, DormantInvariance, PTL DEF Spec

------------------------------------------------------------------------------
(* The only connection of a user keeps the user listed in its room. *)

Listed == \A s \in Sockets : Sole(s) /\ phase[s] = "open" /\ current[s] # None =>
                                UserOf[s] \in roomUsers[current[s]]

\* What a step has to leave alone for Listed to stay true of a socket: nobody but
\* other users leave its room's list.
LEMMA ListedStays ==
  ASSUME IInv, Listed, NEW s \in Sockets, Sole(s), UNCHANGED <<phase[s], current[s]>>,
         \A r \in Rooms : UserOf[s] \in roomUsers[r] => UserOf[s] \in roomUsers'[r],
         phase[s] = "open", current[s] # None
  PROVE  UserOf[s] \in roomUsers'[current'[s]]
  BY DEF Listed, IInv, TypeOK

\* join_room adds its user to the list and makes the room the current one at once;
\* another socket's join takes nobody off a list.
LEMMA EnterRoomLists ==
  ASSUME IInv, Listed, NEW s \in Sockets, Sole(s), phase[s] = "open",
         NEW h \in Handlers, EnterRoom(h), current'[s] # None
  PROVE  UserOf[s] \in roomUsers'[current'[s]]
  <1>1. PICK x \in Sockets, r \in Rooms :
           x = task[h].sock /\ r = task[h].room /\ task[h].user = UserOf[x]
    BY HandlerFacts DEF EnterRoom, At, ClientPCs
  <1>2. /\ roomUsers' = [roomUsers EXCEPT ![r] = @ \cup {UserOf[x]}]
        /\ current' = [current EXCEPT ![x] = r]
        /\ phase' = phase
    BY <1>1 DEF EnterRoom, AddUserToRoom
  <1>3. roomUsers \in [Rooms -> SUBSET Users] /\ current \in [Sockets -> Rooms \cup {None}]
    BY DEF IInv, TypeOK, PresenceType
  <1>4. CASE x = s
    BY <1>2, <1>3, <1>4
  <1>5. CASE x # s
    <2>1. current'[s] = current[s]
      BY <1>2, <1>3, <1>5
    <2>2. \A q \in Rooms : UserOf[s] \in roomUsers[q] => UserOf[s] \in roomUsers'[q]
      BY <1>2, <1>3
    <2> QED
      BY <1>2, <2>1, <2>2, ListedStays
  <1> QED
    BY <1>4, <1>5

\* A user is taken off a list by a socket of the user's that was used, or by leaving
\* a room, which is not the current one any more.
LEMMA SocketStepLists ==
  ASSUME IInv, Joined, Dormant, Listed, NEW s \in Sockets, Sole(s),
         NEW o \in Sockets, SocketStep(o), phase'[s] = "open", current'[s] # None
  PROVE  UserOf[s] \in roomUsers'[current'[s]]
  <1>0. TypeOK
    BY DEF IInv
  <1>1. CASE Opened(o)
    <2>1. o # s
      BY <1>0, <1>1 DEF Opened, Joined, TypeOK
    <2>2. UNCHANGED <<phase[s], current[s], roomUsers>>
      BY <1>0, <1>1, <2>1 DEF Opened, TypeOK, presenceVars
    <2> QED
      BY <2>2, ListedStays
  <1>2. CASE Connect(o) \/ CloseEarly(o) \/ Disconnect(o)
    <2>1. o # s
      BY <1>0, <1>2 DEF Connect, CloseEarly, Disconnect, TypeOK
    <2>2. UNCHANGED <<phase[s], current[s], roomUsers>>
      BY <1>0, <1>2, <2>1
         DEF Connect, CloseEarly, Disconnect, TypeOK, presenceVars
    <2> QED
      BY <2>2, ListedStays
  <1>3. CASE BeatGet(o) \/ BeatSet(o)
    BY <1>3, ListedStays DEF BeatGet, BeatSet, presenceVars
  <1>4. CASE CleanUp(o)
    <2>1. /\ phase[o] = "closed" /\ UNCHANGED <<phase, current>>
          /\ roomUsers' = [roomUsers EXCEPT ![cleanup[o]] = @ \ {UserOf[o]}]
      BY <1>4 DEF CleanUp, RemoveUserFromRoom, Dormant
    <2>2. UserOf[o] # UserOf[s]
      BY <2>1, Others
    <2>3. \A r \in Rooms : UserOf[s] \in roomUsers[r] => UserOf[s] \in roomUsers'[r]
      BY <1>0, <2>1, <2>2 DEF TypeOK, PresenceType
    <2> QED
      BY <2>1, <2>3, ListedStays
  <1>5. ASSUME NEW r \in Rooms, LeaveRoom(o, r)
        PROVE  UserOf[s] \in roomUsers'[current'[s]]
    <2>1. /\ phase[o] = "open" /\ UNCHANGED phase
          /\ roomUsers' = [roomUsers EXCEPT ![r] = @ \ {UserOf[o]}]
          /\ current' = [current EXCEPT ![o] = IF @ = r THEN None ELSE @]
      BY <1>5 DEF LeaveRoom, RemoveUserFromRoom
    <2>2. CASE o = s
      <3>1. current'[s] = current[s] /\ current[s] \in Rooms /\ current[s] # r
        BY <1>0, <2>1, <2>2 DEF TypeOK
      <3>2. UserOf[s] \in roomUsers[current[s]]
        BY <2>1, <2>2, <3>1 DEF Listed
      <3> QED
        BY <1>0, <2>1, <3>1, <3>2 DEF TypeOK, PresenceType
    <2>3. CASE o # s
      <3>1. UserOf[o] # UserOf[s]
        BY <2>1, <2>3, Others
      <3>2. current'[s] = current[s]
        BY <1>0, <2>1, <2>3 DEF TypeOK
      <3>3. \A q \in Rooms : UserOf[s] \in roomUsers[q] => UserOf[s] \in roomUsers'[q]
        BY <1>0, <2>1, <3>1 DEF TypeOK, PresenceType
      <3> QED
        BY <2>1, <3>2, <3>3, ListedStays
    <2> QED
      BY <2>2, <2>3
  <1> QED
    BY <1>1, <1>2, <1>3, <1>4, <1>5 DEF SocketStep

\* Every step keeps the user of a single connection listed.
LEMMA ListedKeeps ==
  ASSUME IInv, Joined, Dormant, Listed, [Next]_vars
  PROVE  Listed'
  <1> SUFFICES ASSUME NEW s \in Sockets, Sole(s)', phase'[s] = "open", current'[s] # None
               PROVE  UserOf[s] \in roomUsers'[current'[s]]
    BY DEF Listed
  <1>1. Sole(s)
    BY SoleWasSole
  <1>2. ASSUME NEW h \in Handlers, Step(h), ~EnterRoom(h)
        PROVE  UserOf[s] \in roomUsers'[current'[s]]
    <2>1. UNCHANGED <<phase, current, roomUsers>>
      BY <1>2, StepPresence DEF CheckTtl, MarkOffline, socketVars, presenceVars
    <2> QED
      BY <1>1, <2>1, ListedStays
  <1>3. ASSUME NEW h \in Handlers, EnterRoom(h)
        PROVE  UserOf[s] \in roomUsers'[current'[s]]
    BY <1>1, <1>3, EnterRoomLists DEF EnterRoom
  <1>4. ASSUME NEW h \in Handlers,
               Receipt(h) \/ \E u \in Users, r \in Rooms : StartFetch(h, u, r)
        PROVE  UserOf[s] \in roomUsers'[current'[s]]
    BY <1>1, <1>4, ArrivalPresence, ListedStays DEF socketVars, presenceVars
  <1>5. CASE Crash
    BY <1>5 DEF Crash
  <1>6. CASE Tick \/ UNCHANGED vars \/ \E r \in Rooms, u \in Users : BecomeMember(r, u)
    <2>1. UNCHANGED <<phase, current, roomUsers>>
      BY <1>6 DEF Tick, PresenceTick, BecomeMember, vars, socketVars, presenceVars
    <2> QED
      BY <1>1, <2>1, ListedStays
  <1> QED
    BY <1>1, <1>2, <1>3, <1>4, <1>5, <1>6, SocketStepLists DEF Next

\* A user whose only connection is in a room is listed there: no disconnect, leave
\* or join that interleaves takes the user off (join_room, leave_room,
\* handleUserDisconnect), as long as the room's key lives (24 h from its last join;
\* see Presence).
THEOREM SoleListed == Spec => []SoleSessionListed
  <1>1. Init => Listed
    BY DEF Init, Listed
  <1>2. IInv /\ Joined /\ Dormant /\ Listed /\ [Next]_vars => Listed'
    BY ListedKeeps
  <1>3. Listed => SoleSessionListed
    BY DEF Listed, Sole, SoleSessionListed
  <1> QED
    BY <1>1, <1>2, <1>3, Invariance, JoinedInvariance, DormantInvariance, PTL DEF Spec
===============================================================================
