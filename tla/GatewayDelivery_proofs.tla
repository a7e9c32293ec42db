------------------------ MODULE GatewayDelivery_proofs ------------------------
(***************************************************************************)
(* Proofs about what Gateway does with a message once it is stored, and    *)
(* with the room a socket is in, for every value of the constants.         *)
(*                                                                         *)
(* The invariant of Gateway_proofs says who takes part.  Delivery adds     *)
(* what happens to one message: from CreateMessage to Broadcast exactly    *)
(* one handler carries it, nobody has received it yet, and what the        *)
(* handler still owes to the members it was stored for is either in its    *)
(* own state or in the tables.  Joined adds that a socket has a current    *)
(* room only while its handlers are registered, so that join_room, which   *)
(* does not look whether the socket is still connected when it resumes,    *)
(* never meets a socket that is about to open.                             *)
(***************************************************************************)
EXTENDS Gateway_proofs

\* A step that stores, owes and sends nothing: handlers that carry a message rest.
Quiet ==
    /\ Grows
    /\ UNCHANGED <<messages, receipts, history, crashes>>
    /\ \A h \in Handlers : \/ task'[h] = task[h]
                           \/ task[h].pc \notin Sending /\ task'[h].pc \notin Sending

SendingStep(h) ==
    \/ \E m \in MessageIds : CreateMessage(h, m)
    \/ FindRecipients(h) \/ CreateReceipts(h) \/ FailReceipts(h) \/ Broadcast(h)

------------------------------------------------------------------------------
\* A handler that moves from one place to another, neither of which carries a
\* message, is quiet.
LEMMA QuietMove ==
  ASSUME IInv, NEW h \in Handlers, NEW t, task' = [task EXCEPT ![h] = t],
         task[h].pc \notin Sending, t.pc \notin Sending,
         UNCHANGED <<messages, members, receipts, history, crashes>>
  PROVE  Quiet
  <1>1. \A g \in Handlers : task'[g] = IF g = h THEN t ELSE task[g]
    BY DEF IInv, TypeOK
  <1> QED
    BY <1>1 DEF Quiet, Grows, Stored

\* Every step of a handler is one of those that send a message, or quiet.
LEMMA HandlerIsQuiet ==
  ASSUME IInv, NEW h \in Handlers, Step(h) \/ Receipt(h), ~SendingStep(h)
  PROVE  Quiet
  <1> USE DEF At, Sending
  <1>0. \A pc : [task[h] EXCEPT !.pc = pc].pc = pc
    BY HandlerFacts DEF Task
  <1>1. CASE Receipt(h)
    <2>1. PICK s \in Sockets, r \in Rooms :
             \/ StartJoin(h, s, r) \/ StartSend(h, s, r) \/ StartTyping(h, s, r)
             \/ \E ids \in SUBSET MessageIds : StartRead(h, s, r, ids)
      BY <1>1 DEF Receipt
    <2>2. ASSUME NEW kind, NEW pc \in {"join check", "send limit", "type limit", "read"},
                 NEW ids, Receive(h, kind, pc, s, r, ids)
          PROVE  Quiet
      BY <2>2, QuietMove DEF Receive, Start, dbVars
    <2>3. CASE StartJoin(h, s, r)
      BY <2>2, <2>3 DEF StartJoin
    <2>4. CASE StartSend(h, s, r)
      BY <2>2, <2>4 DEF StartSend
    <2>5. CASE StartTyping(h, s, r)
      BY <2>2, <2>5 DEF StartTyping
    <2>6. CASE \E ids \in SUBSET MessageIds : StartRead(h, s, r, ids)
      BY <2>2, <2>6 DEF StartRead
    <2> QED
      BY <2>1, <2>3, <2>4, <2>5, <2>6
  <1>2. CASE JoinStep(h)
    <2>1. /\ task[h].pc \notin Sending
          /\ UNCHANGED <<messages, members, receipts, history, crashes>>
          /\ Done(h) \/ \E pc \in {"join enter", "join presence", "join ttl",
                                   "join offline", "join unread"} : Goto(h, pc)
      BY <1>2 DEF JoinStep, RefuseJoin, CheckJoin, EnterRoom, ReadPresence, CheckTtl,
                  MarkOffline, FinishJoin, MarkAsRead, dbVars
    <2> QED
      BY <1>0, <2>1, QuietMove DEF Done, Goto, Idle
  <1>3. CASE SendStep(h)
    <2>1. /\ task[h].pc \notin Sending
          /\ UNCHANGED <<messages, members, receipts, history, crashes>>
          /\ Done(h) \/ \E pc \in {"send verify", "send create"} : Goto(h, pc)
      BY <1>3 DEF SendStep, SendingStep, RefuseSend, AcceptSend, VerifySend, dbVars
    <2> QED
      BY <1>0, <2>1, QuietMove DEF Done, Goto, Idle
  <1>4. CASE TypingStep(h)
    <2>1. /\ task[h].pc \notin Sending
          /\ UNCHANGED <<messages, members, receipts, history, crashes>>
          /\ Done(h) \/ Goto(h, "type lookup")
      BY <1>4 DEF TypingStep, RefuseTyping, AcceptTyping, ShowTyping, dbVars
    <2> QED
      BY <1>0, <2>1, QuietMove DEF Done, Goto, Idle
  <1>5. CASE FetchPage(h)
    <2>1. PICK t : t = [task[h] EXCEPT !.pc = "fetch receipts", !.ids = Page(task[h].room)]
      OBVIOUS
    <2>2. t.pc = "fetch receipts"
      BY <2>1, HandlerFacts DEF Task
    <2>3. task' = [task EXCEPT ![h] = t]
      BY <1>5, <2>1 DEF FetchPage, IInv, TypeOK
    <2> QED
      BY <1>5, <2>2, <2>3, QuietMove DEF FetchPage, dbVars
  <1>6. CASE FetchStep(h) /\ ~FetchPage(h)
    <2>1. /\ task[h].pc \notin Sending
          /\ UNCHANGED <<messages, members, receipts, history, crashes>>
          /\ Done(h) \/ \E pc \in {"fetch page", "fetch mark"} : Goto(h, pc)
      BY <1>6 DEF FetchStep, VerifyFetch, FetchReceipts, MarkFetched, MarkAsRead, dbVars
    <2> QED
      BY <1>0, <2>1, QuietMove DEF Done, Goto, Idle
  <1>7. CASE ExecRead(h) \/ DbError(h)
    <2>1. /\ task[h].pc \notin Sending
          /\ UNCHANGED <<messages, members, receipts, history, crashes>>
          /\ Done(h)
      BY <1>7 DEF ExecRead, DbError, MarkAsRead, dbVars
    <2> QED
      BY <2>1, QuietMove DEF Done, Idle
  <1> QED
    BY <1>1, <1>2, <1>3, <1>4, <1>5, <1>6, <1>7 DEF Step

\* Every step of Gateway is a crash, a step that sends a message, or quiet.
LEMMA StepKinds ==
  ASSUME IInv, [Next]_vars
  PROVE  Crash \/ Quiet \/ \E h \in Handlers : SendingStep(h)
  <1>1. ASSUME NEW s \in Sockets, SocketStep(s) PROVE Quiet
    BY <1>1 DEF SocketStep, Connect, Opened, CloseEarly, Disconnect, CleanUp, BeatGet,
                BeatSet, LeaveRoom, Quiet, Grows, Stored, dbVars
  <1>2. CASE Tick \/ UNCHANGED vars
    BY <1>2 DEF Tick, vars, Quiet, Grows, Stored, dbVars
  <1>3. ASSUME NEW h \in Handlers, NEW u \in Users, NEW r \in Rooms, StartFetch(h, u, r)
        PROVE  Quiet
    BY <1>3, QuietMove DEF StartFetch, Start, At, Sending, dbVars
  <1>4. ASSUME NEW r \in Rooms, NEW u \in Users, BecomeMember(r, u) PROVE Quiet
    BY <1>4 DEF BecomeMember, AddMember, Quiet, Grows, Stored, IInv, TypeOK, DbType
  <1> QED
    BY <1>1, <1>2, <1>3, <1>4, HandlerIsQuiet DEF Next

------------------------------------------------------------------------------
(* One handler carries a message from CreateMessage to Broadcast. *)

\* A handler that carries a message carries one, which nobody has received, ...
Carries(t) ==
    t.pc \in Sending => /\ \E m \in MessageIds : t.ids = {m}
                        /\ t.ids \cap sent = {}

\* ... and which no other handler carries.
Apart ==
    \A g \in Handlers, h \in Handlers :
        g # h /\ task[g].pc \in Sending /\ task[h].pc \in Sending
            => task[g].ids \cap task[h].ids = {}

\* The members who were in the room when the message was stored, and are owed a
\* receipt, are still to be found, or found, or have it.
Owed(t) ==
    \A m \in t.ids :
        LET owed == messages[m].audience \ {messages[m].sender}
        IN  /\ t.pc = "send recipients" => messages[m].audience \subseteq members[t.room]
            /\ t.pc = "send receipts" => owed \subseteq t.to
            /\ t.pc = "send broadcast" => m \in unreceipted \/ {m} \X owed \subseteq receipts

Delivery ==
    /\ sent \subseteq Stored
    /\ \A h \in Handlers : Carries(task[h]) /\ Owed(task[h])
    /\ Apart
    /\ BroadcastAfterReceipts
    /\ NothingStoredIsDropped

\* A quiet step delivers nothing, and leaves handlers that carry a message alone.
LEMMA QuietKeeps ==
  ASSUME IInv, IInv', Delivery, Quiet
  PROVE  Delivery'
  <1>1. Stored' = Stored
    BY DEF Quiet, Stored
  <1>2. sent' \subseteq Stored'
    BY <1>1 DEF Delivery, Quiet, history
  <1>3. ASSUME NEW h \in Handlers
        PROVE  Carries(task[h])' /\ Owed(task[h])'
    <2>1. CASE task[h].pc \in Sending
      <3>1. task'[h] = task[h] /\ task[h].room \in Rooms
        BY <2>1, HandlerFacts DEF Quiet, Sending
      <3>2. members[task[h].room] \subseteq members'[task[h].room]
        BY <3>1 DEF Quiet, Grows
      <3> QED
        BY <3>1, <3>2 DEF Delivery, Carries, Owed, Quiet, history
    <2>2. CASE task[h].pc \notin Sending
      <3>1. task'[h].pc \notin Sending
        BY <2>2 DEF Quiet
      <3> QED
        BY <3>1 DEF Carries, Owed, Sending
    <2> QED
      BY <2>1, <2>2
  <1>4. Apart'
    BY DEF Delivery, Apart, Quiet
  <1>5. BroadcastAfterReceipts'
    BY DEF Delivery, BroadcastAfterReceipts, Quiet, history
  <1>6. NothingStoredIsDropped'
    <2> SUFFICES ASSUME NEW m \in Stored, m \notin sent, ~(crashes > 0)
                 PROVE  \E h \in Handlers : task'[h].pc \in Sending /\ m \in task'[h].ids
      BY <1>1 DEF NothingStoredIsDropped, Quiet, history
    <2>1. PICK h \in Handlers : task[h].pc \in Sending /\ m \in task[h].ids
      BY DEF Delivery, NothingStoredIsDropped
    <2>2. task'[h] = task[h]
      BY <2>1 DEF Quiet
    <2> QED
      BY <2>1, <2>2
  <1> QED
    BY <1>2, <1>3, <1>4, <1>5, <1>6 DEF Delivery

\* A handler that has a message stored goes on to carry it, and keeps carrying the
\* same one until Broadcast.
LEMMA CarrierMoves ==
  ASSUME IInv, IInv', Delivery, NEW h \in Handlers, NEW t,
         task' = [task EXCEPT ![h] = t], task[h].pc \in Sending, t.pc \in Sending,
         t.ids = task[h].ids, Owed(t)',
         UNCHANGED <<messages, members, sent, crashes>>,
         receipts \subseteq receipts', unreceipted \subseteq unreceipted'
  PROVE  Delivery'
  <1>1. \A g \in Handlers : task'[g] = IF g = h THEN t ELSE task[g]
    BY DEF IInv, TypeOK
  <1>2. sent' \subseteq Stored'
    BY DEF Delivery, Stored
  <1>3. ASSUME NEW g \in Handlers
        PROVE  Carries(task[g])' /\ Owed(task[g])'
    <2>1. CASE g = h
      <3>1. task'[g] = t
        BY <1>1, <2>1
      <3>2. Carries(task[h])
        BY DEF Delivery
      <3> QED
        BY <3>1, <3>2 DEF Carries, Owed
    <2>2. CASE g # h
      <3>1. task'[g] = task[g]
        BY <1>1, <2>2
      <3> QED
        BY <3>1 DEF Delivery, Carries, Owed
    <2> QED
      BY <2>1, <2>2
  <1>4. Apart'
    BY <1>1 DEF Delivery, Apart
  <1>5. BroadcastAfterReceipts'
    BY DEF Delivery, BroadcastAfterReceipts
  <1>6. NothingStoredIsDropped'
    <2> SUFFICES ASSUME NEW m \in Stored, m \notin sent, ~(crashes > 0)
                 PROVE  \E g \in Handlers : task'[g].pc \in Sending /\ m \in task'[g].ids
      BY DEF NothingStoredIsDropped, Stored
    <2>1. PICK g \in Handlers : task[g].pc \in Sending /\ m \in task[g].ids
      BY DEF Delivery, NothingStoredIsDropped
    <2> QED
      BY <1>1, <2>1
  <1> QED
    BY <1>2, <1>3, <1>4, <1>5, <1>6 DEF Delivery

\* An idle handler carries nothing.
LEMMA IdleRests == Idle.pc = "idle"
  BY DEF Idle

\* A message is stored: its handler is the one that will push it.
LEMMA CreateMessageDelivers ==
  ASSUME IInv, IInv', Delivery, NEW h \in Handlers, NEW m \in MessageIds,
         CreateMessage(h, m)
  PROVE  Delivery'
  <1> USE DEF At, Sending
  <1>1. PICK t : t = [task[h] EXCEPT !.pc = "send recipients", !.ids = {m}]
    OBVIOUS
  <1>2. /\ t.pc = "send recipients" /\ t.ids = {m} /\ t.room = task[h].room
        /\ task[h].pc = "send create" /\ task[h].room \in Rooms
    BY <1>1, HandlerFacts DEF CreateMessage, Task
  <1>3. \A g \in Handlers : task'[g] = IF g = h THEN t ELSE task[g]
    BY <1>1 DEF CreateMessage, IInv, TypeOK
  <1>4. PICK row : row = [room |-> task[h].room, sender |-> task[h].user,
                          audience |-> members[task[h].room]]
    OBVIOUS
  <1>5. /\ m \notin Stored
        /\ messages'[m] = row /\ row.audience = members[t.room]
        /\ \A x \in MessageIds \ {m} : messages'[x] = messages[x]
        /\ UNCHANGED <<members, receipts, history, crashes>>
    BY <1>2, <1>4 DEF CreateMessage, InsertMessage, Stored, IInv, TypeOK, DbType
  <1>6. Stored' = Stored \cup {m}
    <2>1. row \in Message
      BY <1>2, <1>4, HandlerFacts DEF Message, IInv, TypeOK, DbType
    <2>2. row # None
      BY <2>1, GatewayAssumption
    <2> QED
      BY <1>5, <2>2 DEF Stored
  <1>7. \A x \in Stored : messages'[x] = messages[x]
    BY <1>5 DEF Stored
  <1>8. \A g \in Handlers : task[g].pc \in Sending => task[g].ids \subseteq Stored
    BY DEF IInv, TasksOK, TaskOK, Informed
  <1>9. sent' \subseteq Stored' /\ m \notin sent
    BY <1>5, <1>6 DEF Delivery, history
  <1>10. ASSUME NEW g \in Handlers
         PROVE  Carries(task[g])' /\ Owed(task[g])'
    <2>1. CASE g = h
      <3>1. task'[g] = t
        BY <1>3, <2>1
      <3> QED
        BY <1>2, <1>5, <1>9, <3>1 DEF Carries, Owed, history
    <2>2. CASE g # h /\ task[g].pc \in Sending
      <3>1. task'[g] = task[g] /\ task[g].ids \subseteq Stored
        BY <1>3, <1>8, <2>2
      <3>2. Carries(task[g]) /\ Owed(task[g])
        BY DEF Delivery
      <3>3. \A x \in task[g].ids : messages'[x] = messages[x]
        BY <1>7, <3>1
      <3> QED
        BY <1>5, <3>1, <3>2, <3>3 DEF Carries, Owed, history
    <2>3. CASE g # h /\ task[g].pc \notin Sending
      BY <1>3, <2>3 DEF Carries, Owed
    <2> QED
      BY <2>1, <2>2, <2>3
  <1>11. Apart'
    BY <1>2, <1>3, <1>5, <1>8 DEF Delivery, Apart
  <1>12. BroadcastAfterReceipts'
    BY <1>5, <1>7 DEF Delivery, BroadcastAfterReceipts, history
  <1>13. NothingStoredIsDropped'
    <2> SUFFICES ASSUME NEW x \in Stored', x \notin sent, ~(crashes > 0)
                 PROVE  \E g \in Handlers : task'[g].pc \in Sending /\ x \in task'[g].ids
      BY <1>5 DEF NothingStoredIsDropped, history
    <2>1. CASE x = m
      BY <1>2, <1>3, <2>1
    <2>2. CASE x \in Stored
      <3>1. PICK g \in Handlers : task[g].pc \in Sending /\ x \in task[g].ids
        BY <2>2 DEF Delivery, NothingStoredIsDropped
      <3> QED
        BY <1>2, <1>3, <3>1
    <2> QED
      BY <1>6, <2>1, <2>2
  <1> QED
    BY <1>9, <1>10, <1>11, <1>12, <1>13 DEF Delivery

\* Recipients are found among the members: nobody but they will get a receipt.
LEMMA FindRecipientsDelivers ==
  ASSUME IInv, IInv', Delivery, NEW h \in Handlers, FindRecipients(h)
  PROVE  Delivery'
  <1> USE DEF At, Sending
  <1>1. PICK to : to = Recipients(task[h].room, task[h].user)
    OBVIOUS
  <1>2. PICK pc : pc = IF to = {} THEN "send broadcast" ELSE "send receipts"
    OBVIOUS
  <1>3. PICK t : t = [task[h] EXCEPT !.pc = pc, !.to = to]
    OBVIOUS
  <1>4. task' = [task EXCEPT ![h] = t]
    BY <1>1, <1>2, <1>3 DEF FindRecipients, IInv, TypeOK
  <1>5. t.pc = pc /\ t.ids = task[h].ids /\ t.to = to /\ task[h].pc = "send recipients"
    BY <1>3, HandlerFacts DEF FindRecipients, Task
  <1>6. ASSUME NEW m \in task[h].ids
        PROVE  messages[m].audience \ {messages[m].sender} \subseteq to
    <2>1. messages[m].audience \subseteq members[task[h].room]
      BY <1>5 DEF Delivery, Owed
    <2>2. messages[m].sender = task[h].user
      BY <1>5, HandlerFacts DEF TaskOK, Informed
    <2> QED
      BY <1>1, <2>1, <2>2 DEF Recipients
  <1>7. UNCHANGED <<messages, members, receipts, history, crashes>>
    BY DEF FindRecipients, dbVars
  <1>8. Owed(t)'
    BY <1>2, <1>5, <1>6, <1>7 DEF Owed
  <1> QED
    BY <1>2, <1>4, <1>5, <1>7, <1>8, CarrierMoves DEF history

\* The receipts are created for the recipients found; none of them is read yet.
LEMMA CreateReceiptsDelivers ==
  ASSUME IInv, IInv', Delivery, NEW h \in Handlers, CreateReceipts(h)
  PROVE  Delivery'
  <1> USE DEF At, Sending
  <1>1. PICK t : t = [task[h] EXCEPT !.pc = "send broadcast"]
    OBVIOUS
  <1>2. task' = [task EXCEPT ![h] = t]
    BY <1>1 DEF CreateReceipts, Goto, IInv, TypeOK
  <1>3. t.pc = "send broadcast" /\ t.ids = task[h].ids /\ task[h].pc = "send receipts"
    BY <1>1, HandlerFacts DEF CreateReceipts, Task
  <1>4. /\ UNCHANGED <<messages, members, history, crashes>>
        /\ receipts' = receipts \cup (task[h].ids \X task[h].to)
    BY DEF CreateReceipts, InsertReceipts
  <1>5. \A m \in task[h].ids : messages[m].audience \ {messages[m].sender} \subseteq task[h].to
    BY <1>3 DEF Delivery, Owed
  <1>6. Owed(t)'
    BY <1>3, <1>4, <1>5 DEF Owed
  <1> QED
    BY <1>2, <1>3, <1>4, <1>6, CarrierMoves DEF history

\* The receipts fail: the message is marked as unreceipted, and is pushed all the
\* same.
LEMMA FailReceiptsDelivers ==
  ASSUME IInv, IInv', Delivery, NEW h \in Handlers, FailReceipts(h)
  PROVE  Delivery'
  <1> USE DEF At, Sending
  <1>1. PICK t : t = [task[h] EXCEPT !.pc = "send broadcast"]
    OBVIOUS
  <1>2. task' = [task EXCEPT ![h] = t]
    BY <1>1 DEF FailReceipts, Goto, IInv, TypeOK
  <1>3. t.pc = "send broadcast" /\ t.ids = task[h].ids /\ task[h].pc \in Sending
    BY <1>1, HandlerFacts DEF FailReceipts, Task
  <1>4. /\ UNCHANGED <<messages, members, receipts, sent, crashes>>
        /\ unreceipted' = unreceipted \cup task[h].ids
    BY DEF FailReceipts, dbVars
  <1>5. Owed(t)'
    BY <1>3, <1>4 DEF Owed
  <1> QED
    BY <1>2, <1>3, <1>4, <1>5, CarrierMoves

\* The message is pushed, and no handler carries it any more.
LEMMA BroadcastDelivers ==
  ASSUME IInv, IInv', Delivery, NEW h \in Handlers, Broadcast(h)
  PROVE  Delivery'
  <1> USE DEF At, Sending
  <1>1. /\ sent' = sent \cup task[h].ids /\ task[h].pc = "send broadcast"
        /\ UNCHANGED <<messages, members, receipts, unreceipted, crashes>>
    BY DEF Broadcast, dbVars
  <1>2. \A g \in Handlers : task'[g] = IF g = h THEN Idle ELSE task[g]
    BY DEF Broadcast, Done, IInv, TypeOK
  <1>3. Stored' = Stored /\ task[h].ids \subseteq Stored
    BY <1>1, HandlerFacts DEF Stored, TaskOK, Informed
  <1>4. sent' \subseteq Stored'
    BY <1>1, <1>3 DEF Delivery
  <1>5. ASSUME NEW g \in Handlers
        PROVE  Carries(task[g])' /\ Owed(task[g])'
    <2>1. CASE g = h
      <3>1. task'[g].pc = "idle"
        BY <1>2, <2>1, IdleRests
      <3> QED
        BY <3>1 DEF Carries, Owed
    <2>2. CASE g # h
      <3>1. task'[g] = task[g]
        BY <1>2, <2>2
      <3>2. Carries(task[g]) /\ Owed(task[g])
        BY DEF Delivery
      <3>3. task[g].pc \in Sending => task[g].ids \cap task[h].ids = {}
        BY <1>1, <2>2 DEF Delivery, Apart
      <3> QED
        BY <1>1, <3>1, <3>2, <3>3 DEF Carries, Owed
    <2> QED
      BY <2>1, <2>2
  <1>6. Apart'
    BY <1>2, IdleRests DEF Delivery, Apart
  <1>7. BroadcastAfterReceipts'
    <2> SUFFICES ASSUME NEW m \in sent', m \notin unreceipted, NEW u \in messages[m].audience,
                        u # messages[m].sender
                 PROVE  <<m, u>> \in receipts
      BY <1>1 DEF BroadcastAfterReceipts
    <2>1. CASE m \in sent
      BY <2>1 DEF Delivery, BroadcastAfterReceipts
    <2>2. CASE m \in task[h].ids
      BY <1>1, <2>2 DEF Delivery, Owed
    <2> QED
      BY <1>1, <2>1, <2>2
  <1>8. NothingStoredIsDropped'
    <2> SUFFICES ASSUME NEW m \in Stored, m \notin sent', ~(crashes > 0)
                 PROVE  \E g \in Handlers : task'[g].pc \in Sending /\ m \in task'[g].ids
      BY <1>1, <1>3 DEF NothingStoredIsDropped
    <2>1. PICK g \in Handlers : task[g].pc \in Sending /\ m \in task[g].ids
      BY <1>1 DEF Delivery, NothingStoredIsDropped
    <2> QED
      BY <1>1, <1>2, <2>1
  <1> QED
    BY <1>4, <1>5, <1>6, <1>7, <1>8 DEF Delivery

\* A crash forgets the handlers: what they carried is stored, and never sent.
LEMMA CrashDelivers ==
  ASSUME IInv, Delivery, Crash
  PROVE  Delivery'
  <1>1. \A h \in Handlers : task'[h].pc = "idle"
    BY IdleRests DEF Crash
  <1>2. crashes' > 0
    BY DEF Crash, IInv, TypeOK
  <1>3. \A h \in Handlers : Carries(task[h])' /\ Owed(task[h])'
    BY <1>1 DEF Carries, Owed, Sending
  <1>4. Apart'
    BY <1>1 DEF Apart, Sending
  <1> QED
    BY <1>2, <1>3, <1>4 DEF Crash, Delivery, BroadcastAfterReceipts, NothingStoredIsDropped,
                            Stored, dbVars, history

\* Delivery is inductive, given the invariant of Gateway_proofs.
THEOREM DeliveryInvariance == Spec => []Delivery
  <1>1. Init => Delivery
    <2> SUFFICES ASSUME Init PROVE Delivery
      OBVIOUS
    <2>1. \A h \in Handlers : task[h].pc = "idle"
      BY IdleRests DEF Init
    <2>2. Stored = {} /\ sent = {}
      BY DEF Init, DbInit, Stored
    <2> QED
      BY <2>1, <2>2 DEF Delivery, Carries, Owed, Apart, BroadcastAfterReceipts,
                        NothingStoredIsDropped, Sending
  <1>2. IInv /\ IInv' /\ Delivery /\ [Next]_vars => Delivery'
    BY StepKinds, QuietKeeps, CrashDelivers, CreateMessageDelivers,
       FindRecipientsDelivers, CreateReceiptsDelivers, FailReceiptsDelivers,
       BroadcastDelivers DEF SendingStep
  <1> QED
    BY <1>1, <1>2, Invariance, PTL DEF Spec

\* A message reaches nobody before everyone who was in the room when it was stored
\* has a receipt, unless the statements that create receipts failed (send_message).
THEOREM ReceiptsFirst == Spec => []BroadcastAfterReceipts
  <1>1. Delivery => BroadcastAfterReceipts
    BY DEF Delivery
  <1> QED
    BY <1>1, DeliveryInvariance, PTL

\* No handler gives up between storing a message and pushing it (send_message).
THEOREM NothingDropped == Spec => []NothingStoredIsDropped
  <1>1. Delivery => NothingStoredIsDropped
    BY DEF Delivery
  <1> QED
    BY <1>1, DeliveryInvariance, PTL

------------------------------------------------------------------------------
(* What a step does to the tables and to what was sent. *)

\* The receipts that a handler marks as read are its user's, and it ends.
Reading(h) ==
    /\ \E ids \in SUBSET MessageIds : MarkAsRead(ids, task[h].user)
    /\ task[h].user \in Users
    /\ task' = [task EXCEPT ![h] = Idle]
    /\ UNCHANGED history

Effect ==
    \/ UNCHANGED <<dbVars, sent, delivered>>
    \/ \E h \in Handlers :
         \/ \E m \in MessageIds : CreateMessage(h, m)
         \/ CreateReceipts(h) \/ Broadcast(h) \/ Reading(h)
    \/ \E r \in Rooms, u \in Users : BecomeMember(r, u)

\* Receipts are read by the three handlers that mark them.
LEMMA ReadingSteps ==
  ASSUME IInv, NEW h \in Handlers, FinishJoin(h) \/ ExecRead(h) \/ MarkFetched(h)
  PROVE  Reading(h)
  <1>1. task[h].user \in Users /\ task[h].ids \in SUBSET MessageIds
    BY HandlerFacts DEF FinishJoin, ExecRead, MarkFetched, At, Task
  <1>2. GetUnreadMessages(task[h].user, task[h].room) \in SUBSET MessageIds
    BY DEF GetUnreadMessages
  <1> QED
    BY <1>1, <1>2 DEF Reading, FinishJoin, ExecRead, MarkFetched, Done

\* Every step of Gateway has one of the effects above.
LEMMA StepEffects ==
  ASSUME IInv, [Next]_vars
  PROVE  Effect
  <1>1. ASSUME NEW h \in Handlers, Step(h) PROVE Effect
    <2>1. CASE FinishJoin(h) \/ ExecRead(h) \/ MarkFetched(h)
      BY <2>1, ReadingSteps DEF Effect
    <2>2. CASE (\E m \in MessageIds : CreateMessage(h, m)) \/ CreateReceipts(h) \/ Broadcast(h)
      BY <2>2 DEF Effect
    <2>3. CASE JoinStep(h) /\ ~FinishJoin(h)
      BY <2>3 DEF JoinStep, RefuseJoin, CheckJoin, EnterRoom, ReadPresence, CheckTtl,
                  MarkOffline, Effect, history
    <2>4. CASE RefuseSend(h) \/ AcceptSend(h) \/ VerifySend(h) \/ FindRecipients(h)
               \/ FailReceipts(h)
      BY <2>4 DEF RefuseSend, AcceptSend, VerifySend, FindRecipients, FailReceipts, Effect,
                  history
    <2>5. CASE TypingStep(h) \/ DbError(h)
      BY <2>5 DEF TypingStep, RefuseTyping, AcceptTyping, ShowTyping, DbError, Effect, history
    <2>6. CASE VerifyFetch(h) \/ FetchPage(h) \/ FetchReceipts(h)
      BY <2>6 DEF VerifyFetch, FetchPage, FetchReceipts, Effect, history
    <2> QED
      BY <1>1, <2>1, <2>2, <2>3, <2>4, <2>5, <2>6 DEF Step, SendStep, FetchStep
  <1>2. ASSUME NEW h \in Handlers, Receipt(h) PROVE Effect
    BY <1>2 DEF Receipt, StartJoin, StartSend, StartTyping, StartRead, Receive, Effect, history
  <1>3. ASSUME NEW s \in Sockets, SocketStep(s) PROVE Effect
    BY <1>3 DEF SocketStep, Connect, Opened, CloseEarly, Disconnect, CleanUp, BeatGet,
                BeatSet, LeaveRoom, Effect, history
  <1>4. CASE Tick \/ Crash \/ UNCHANGED vars
    BY <1>4 DEF Tick, Crash, vars, Effect, history
  <1>5. ASSUME NEW h \in Handlers, NEW u \in Users, NEW r \in Rooms, StartFetch(h, u, r)
        PROVE  Effect
    BY <1>5 DEF StartFetch, Effect, history
  <1> QED
    BY <1>1, <1>2, <1>3, <1>4, <1>5 DEF Next, Effect

\* A receipt becomes read, and read for good, by a handler of its recipient only
\* (markAsRead and markMultipleAsRead).
THEOREM RecipientsOnly == Spec => OnlyRecipientsRead
  <1>1. ASSUME IInv, [Next]_vars
        PROVE  /\ read \subseteq read'
               /\ \A p \in read' \ read : \E h \in Handlers :
                      task[h].user = p[2] /\ task'[h] = Idle
    <2>1. Effect
      BY <1>1, StepEffects
    <2>2. ASSUME NEW h \in Handlers, Reading(h)
          PROVE  read \subseteq read' /\ \A p \in read' \ read :
                      task[h].user = p[2] /\ task'[h] = Idle
      BY <1>1, <2>2 DEF Reading, MarkAsRead, IInv, TypeOK
    <2>3. UNCHANGED read \/ \E h \in Handlers : Reading(h)
      BY <2>1 DEF Effect, CreateMessage, InsertMessage, CreateReceipts, InsertReceipts,
                  Broadcast, BecomeMember, AddMember, dbVars
    <2> QED
      BY <2>2, <2>3
  <1> QED
    BY <1>1, Invariance, PTL DEF Spec, OnlyRecipientsRead

\* The status of a message only advances while its receipts stay and more are read.
LEMMA ReadingAdvances ==
  ASSUME NEW m,
         {p \in receipts' : p[1] = m} = {p \in receipts : p[1] = m},
         read \subseteq read'
  PROVE  ReadStatus(m)' = ReadStatus(m) \/ <<ReadStatus(m), ReadStatus(m)'>> \in Advances
  <1>1. PICK owed : owed = {p \in receipts : p[1] = m} /\ owed = {p \in receipts' : p[1] = m}
    OBVIOUS
  <1>2. CASE owed = {}
    BY <1>1, <1>2 DEF ReadStatus
  <1>3. CASE owed # {} /\ owed \subseteq read
    <2>1. owed \subseteq read'
      BY <1>3
    <2>2. ReadStatus(m) = "all_read" /\ ReadStatus(m)' = "all_read"
      BY <1>1, <1>3, <2>1 DEF ReadStatus
    <2> QED
      BY <2>2
  <1>4. CASE owed # {} /\ ~(owed \subseteq read) /\ owed \cap read # {}
    <2>1. owed \cap read' # {}
      BY <1>4
    <2>2. ReadStatus(m) = "partially_read"
      BY <1>1, <1>4 DEF ReadStatus
    <2>3. ReadStatus(m)' \in {"partially_read", "all_read"}
      BY <1>1, <1>4, <2>1 DEF ReadStatus
    <2> QED
      BY <2>2, <2>3 DEF Advances
  <1>5. CASE owed # {} /\ owed \cap read = {}
    <2>1. ReadStatus(m) = "unread"
      BY <1>1, <1>5 DEF ReadStatus
    <2>2. ReadStatus(m)' \in {"unread", "partially_read", "all_read"}
      BY <1>1, <1>5 DEF ReadStatus
    <2> QED
      BY <2>1, <2>2 DEF Advances
  <1> QED
    BY <1>2, <1>3, <1>4, <1>5

\* The read status of a message that was pushed only advances: its receipts are
\* made before, and stay (createDeliveryReceipts, getMessagesWithReceipts).
THEOREM StatusAdvances == Spec => StatusNeverRegresses
  <1>1. ASSUME IInv, Delivery, [Next]_vars
        PROVE  StatusesAdvance
    <2> SUFFICES ASSUME NEW m \in sent
                 PROVE  \/ ReadStatus(m)' = ReadStatus(m)
                        \/ <<ReadStatus(m), ReadStatus(m)'>> \in Advances
      BY DEF StatusesAdvance
    <2>1. Effect
      BY <1>1, StepEffects
    <2>2. read \subseteq read'
      BY <2>1 DEF Effect, CreateMessage, InsertMessage, CreateReceipts, InsertReceipts,
                  Broadcast, BecomeMember, AddMember, Reading, MarkAsRead, dbVars
    <2>3. UNCHANGED receipts \/ \E h \in Handlers : CreateReceipts(h)
      BY <2>1 DEF Effect, CreateMessage, InsertMessage, Broadcast, BecomeMember,
                  AddMember, Reading, MarkAsRead, dbVars
    <2>4. ASSUME NEW h \in Handlers, CreateReceipts(h)
          PROVE  {p \in receipts' : p[1] = m} = {p \in receipts : p[1] = m}
      <3>1. m \notin task[h].ids
        BY <1>1, <2>4 DEF CreateReceipts, At, Sending, Delivery, Carries
      <3>2. receipts' = receipts \cup (task[h].ids \X task[h].to)
        BY <2>4 DEF CreateReceipts, InsertReceipts
      <3> QED
        BY <3>1, <3>2
    <2> QED
      BY <2>2, <2>3, <2>4, ReadingAdvances
  <1> QED
    BY <1>1, Invariance, DeliveryInvariance, PTL DEF Spec, StatusNeverRegresses

------------------------------------------------------------------------------
(* Gateway implements RoomChat. *)

\* What handlers store, owe and push are the posts, receipts and pushes of RoomChat,
\* and a new member, or a receipt that is read, is one there.
LEMMA EffectsAreChat ==
  ASSUME IInv, Delivery, Effect
  PROVE  [Chat!Next]_(Chat!chatVars)
  <1> USE DEF At
  <1>0. TypeOK
    BY DEF IInv
  <1>1. CASE UNCHANGED <<dbVars, sent, delivered>>
    <2>1. UNCHANGED <<members, messages, receipts, read, sent, delivered>>
      BY <1>1 DEF dbVars
    <2>2. posts' = posts
      BY <2>1 DEF posts
    <2> QED
      BY <2>1, <2>2 DEF Chat!chatVars
  <1>2. ASSUME NEW h \in Handlers, NEW m \in MessageIds, CreateMessage(h, m)
        PROVE  [Chat!Next]_(Chat!chatVars)
    <2>1. PICK u \in Users, r \in Rooms : u = task[h].user /\ r = task[h].room
      BY <1>2, HandlerFacts DEF CreateMessage
    <2>2. u \in members[r]
      BY <1>2, <2>1, HandlerFacts DEF CreateMessage, TaskOK, Informed, IsMember
    <2>3. PICK row : row = [room |-> r, sender |-> u, audience |-> members[r]]
      OBVIOUS
    <2>4. row # None
      BY <1>0, <2>1, <2>3, GatewayAssumption DEF Message, TypeOK, DbType
    <2>5. /\ messages[m] = None
          /\ messages' = [messages EXCEPT ![m] = row]
          /\ UNCHANGED <<members, receipts, read, sent, delivered>>
      BY <1>2, <2>1, <2>3 DEF CreateMessage, InsertMessage, history
    <2>6. posts[m] = None
      BY <2>5 DEF posts
    <2>7. posts' = [posts EXCEPT ![m] = [room |-> r, sender |-> u]]
      <3>1. ASSUME NEW x \in MessageIds
            PROVE  posts'[x] = IF x = m THEN [room |-> r, sender |-> u] ELSE posts[x]
        BY <1>0, <2>3, <2>4, <2>5 DEF posts, TypeOK, DbType
      <3> QED
        BY <3>1 DEF posts
    <2>8. Chat!Post(m, r, u)
      BY <2>2, <2>5, <2>6, <2>7 DEF Chat!Post
    <2> QED
      BY <2>8 DEF Chat!Next
  <1>3. ASSUME NEW h \in Handlers, CreateReceipts(h)
        PROVE  [Chat!Next]_(Chat!chatVars)
    <2>1. PICK m \in MessageIds : task[h].ids = {m}
      BY <1>3 DEF CreateReceipts, Sending, Delivery, Carries
    <2>2. /\ m \in Stored /\ m \notin sent
          /\ messages[m].room = task[h].room /\ messages[m].sender = task[h].user
      BY <1>3, <2>1, HandlerFacts
         DEF CreateReceipts, Sending, Delivery, Carries, TaskOK, Informed
    <2>3. PICK to \in SUBSET Users : to = task[h].to
      BY HandlerFacts DEF Task
    <2>4. to \subseteq members[messages[m].room] \ {messages[m].sender}
      BY <1>3, <2>2, <2>3, HandlerFacts DEF CreateReceipts, TaskOK, Informed, Recipients
    <2>5. posts[m] = [room |-> messages[m].room, sender |-> messages[m].sender]
      BY <2>2 DEF posts, Stored
    <2>6. posts[m] # None
      BY <1>0, <2>2, <2>5, GatewayAssumption DEF TypeOK, DbType, Stored, Message
    <2>7. /\ receipts' = receipts \cup ({m} \X to)
          /\ UNCHANGED <<members, messages, read, sent, delivered>>
      BY <1>3, <2>1, <2>3 DEF CreateReceipts, InsertReceipts, history
    <2>8. Chat!Issue(m, to)
      BY <2>2, <2>4, <2>5, <2>6, <2>7 DEF Chat!Issue, posts
    <2> QED
      BY <2>8 DEF Chat!Next
  <1>4. ASSUME NEW h \in Handlers, Broadcast(h)
        PROVE  [Chat!Next]_(Chat!chatVars)
    <2>1. PICK m \in MessageIds : task[h].ids = {m}
      BY <1>4 DEF Broadcast, Sending, Delivery, Carries
    <2>2. m \in Stored /\ m \notin sent /\ messages[m].room = task[h].room
      BY <1>4, <2>1, HandlerFacts
         DEF Broadcast, Sending, Delivery, Carries, TaskOK, Informed
    <2>3. PICK sessions \in SUBSET Sockets : sessions = Listeners(task[h].room)
      BY DEF Listeners
    <2>4. \A s \in sessions : UserOf[s] \in members[messages[m].room]
      BY <2>2, <2>3 DEF Listeners, IInv, MembersHere, IsMember
    <2>5. posts[m] = [room |-> messages[m].room, sender |-> messages[m].sender]
      BY <2>2 DEF posts, Stored
    <2>6. posts[m] # None
      BY <1>0, <2>2, <2>5, GatewayAssumption DEF TypeOK, DbType, Stored, Message
    <2>7. /\ sent' = sent \cup {m}
          /\ delivered' = delivered \cup (sessions \X {m})
          /\ UNCHANGED <<members, messages, receipts, read>>
      BY <1>4, <2>1, <2>3 DEF Broadcast, dbVars
    <2>8. Chat!Push(m, sessions)
      BY <2>2, <2>4, <2>5, <2>6, <2>7 DEF Chat!Push, posts
    <2> QED
      BY <2>8 DEF Chat!Next
  <1>5. ASSUME NEW h \in Handlers, Reading(h)
        PROVE  [Chat!Next]_(Chat!chatVars)
    <2>1. PICK ids \in SUBSET MessageIds : MarkAsRead(ids, task[h].user)
      BY <1>5 DEF Reading
    <2>2. PICK u \in Users : u = task[h].user
      BY <1>5 DEF Reading
    <2>3. Chat!Read(u, ids)
      BY <1>5, <2>1, <2>2 DEF Reading, MarkAsRead, Chat!Read, posts, history
    <2> QED
      BY <2>3 DEF Chat!Next
  <1>6. ASSUME NEW r \in Rooms, NEW u \in Users, BecomeMember(r, u)
        PROVE  [Chat!Next]_(Chat!chatVars)
    <2>1. Chat!Admit(r, u)
      BY <1>6 DEF BecomeMember, AddMember, Chat!Admit, posts, history
    <2> QED
      BY <2>1 DEF Chat!Next
  <1> QED
    BY <1>1, <1>2, <1>3, <1>4, <1>5, <1>6 DEF Effect

\* Gateway implements RoomChat: whatever handlers interleave, and whatever fails, a
\* message is posted by a member, receipts go to members before it is pushed, it is
\* pushed once and to members only, and read by those it was sent to.
THEOREM Refinement == Spec => ImplementsRoomChat
  <1>1. Init => Chat!Init
    BY DEF Init, DbInit, Chat!Init, posts
  <1>2. IInv /\ Delivery /\ [Next]_vars => [Chat!Next]_(Chat!chatVars)
    BY StepEffects, EffectsAreChat
  <1> QED
    BY <1>1, <1>2, Invariance, DeliveryInvariance, PTL
       DEF Spec, ImplementsRoomChat, Chat!Spec

------------------------------------------------------------------------------
(* The room a socket is in. *)

\* Handlers run for sockets whose handlers were registered, and only such a socket
\* gets a current room.
Joined ==
    /\ \A s \in Sockets :
         phase[s] \in {"new", "opening", "lost", "orphan"} => current[s] = None
    /\ \A h \in Handlers :
         task[h].pc \in ClientPCs => phase[task[h].sock] \in {"open", "closed"}
    /\ CurrentRoomIsJoined

\* No handler starts to serve a client.
Stays ==
    \A g \in Handlers : task'[g].pc \in ClientPCs =>
        task[g].pc \in ClientPCs /\ task'[g].sock = task[g].sock

\* A handler ends, or goes on where it is.
LEMMA GoingStays ==
  ASSUME IInv, NEW h \in Handlers, NEW t, task' = [task EXCEPT ![h] = t],
         t.pc \in ClientPCs => task[h].pc \in ClientPCs /\ t.sock = task[h].sock
  PROVE  Stays
  <1>1. \A g \in Handlers : task'[g] = IF g = h THEN t ELSE task[g]
    BY DEF IInv, TypeOK
  <1> QED
    BY <1>1 DEF Stays

\* The same, when all that changes is whether it ends, or where it goes on.
LEMMA GotoStays ==
  ASSUME IInv, NEW h \in Handlers,
         Done(h) \/ \E pc \in PCs :
                        Goto(h, pc) /\ (pc \in ClientPCs => task[h].pc \in ClientPCs)
  PROVE  Stays
  <1>1. CASE Done(h)
    BY <1>1, GoingStays DEF Done, Idle, ClientPCs
  <1>2. ASSUME NEW pc \in PCs, Goto(h, pc), pc \in ClientPCs => task[h].pc \in ClientPCs
        PROVE  Stays
    <2>1. PICK t : t = [task[h] EXCEPT !.pc = pc]
      OBVIOUS
    <2>2. t.pc = pc /\ t.sock = task[h].sock
      BY <2>1, HandlerFacts DEF Task
    <2>3. task' = [task EXCEPT ![h] = t]
      BY <1>2, <2>1 DEF Goto, IInv, TypeOK
    <2> QED
      BY <1>2, <2>2, <2>3, GoingStays
  <1> QED
    BY <1>1, <1>2

\* No step of a handler starts another, and all but EnterRoom leave sockets alone.
LEMMA StepStays ==
  ASSUME IInv, NEW h \in Handlers, Step(h)
  PROVE  Stays /\ (EnterRoom(h) \/ UNCHANGED <<phase, ioRooms, current>>)
  <1> USE DEF At
  <1>1. CASE JoinStep(h)
    <2>1. task[h].pc \in ClientPCs /\ (Done(h) \/ \E pc \in PCs : Goto(h, pc))
      BY <1>1 DEF JoinStep, RefuseJoin, CheckJoin, EnterRoom, ReadPresence, CheckTtl,
                  MarkOffline, FinishJoin, ClientPCs, PCs
    <2>2. EnterRoom(h) \/ UNCHANGED socketVars
      BY <1>1 DEF JoinStep, RefuseJoin, CheckJoin, ReadPresence, CheckTtl, MarkOffline,
                  FinishJoin
    <2> QED
      BY <2>1, <2>2, GotoStays DEF socketVars
  <1>2. CASE FindRecipients(h)
    <2>1. PICK t : t = [task[h] EXCEPT
                 !.pc = IF Recipients(task[h].room, task[h].user) = {} THEN "send broadcast"
                        ELSE "send receipts",
                 !.to = Recipients(task[h].room, task[h].user)]
      OBVIOUS
    <2>2. t.sock = task[h].sock
      BY <2>1, HandlerFacts DEF Task
    <2>3. task' = [task EXCEPT ![h] = t]
      BY <1>2, <2>1 DEF FindRecipients, IInv, TypeOK
    <2> QED
      BY <1>2, <2>2, <2>3, GoingStays DEF FindRecipients, ClientPCs, socketVars
  <1>3. ASSUME NEW m \in MessageIds, CreateMessage(h, m)
        PROVE  Stays /\ UNCHANGED socketVars
    <2>1. PICK t : t = [task[h] EXCEPT !.pc = "send recipients", !.ids = {m}]
      OBVIOUS
    <2>2. t.sock = task[h].sock
      BY <2>1, HandlerFacts DEF Task
    <2>3. task' = [task EXCEPT ![h] = t]
      BY <1>3, <2>1 DEF CreateMessage, IInv, TypeOK
    <2> QED
      BY <1>3, <2>2, <2>3, GoingStays DEF CreateMessage, ClientPCs
  <1>4. CASE RefuseSend(h) \/ AcceptSend(h) \/ VerifySend(h) \/ CreateReceipts(h)
             \/ FailReceipts(h) \/ Broadcast(h)
    <2>1. task[h].pc \in ClientPCs /\ (Done(h) \/ \E pc \in PCs : Goto(h, pc))
      BY <1>4 DEF RefuseSend, AcceptSend, VerifySend, CreateReceipts, FailReceipts,
                  Broadcast, ClientPCs, PCs
    <2>2. UNCHANGED socketVars
      BY <1>4 DEF RefuseSend, AcceptSend, VerifySend, CreateReceipts, FailReceipts,
                  Broadcast
    <2> QED
      BY <2>1, <2>2, GotoStays DEF socketVars
  <1>5. CASE TypingStep(h) \/ ExecRead(h) \/ DbError(h)
    <2>1. Done(h) \/ (Goto(h, "type lookup") /\ task[h].pc = "type limit")
      BY <1>5 DEF TypingStep, RefuseTyping, AcceptTyping, ShowTyping, ExecRead, DbError
    <2>2. UNCHANGED socketVars
      BY <1>5 DEF TypingStep, RefuseTyping, AcceptTyping, ShowTyping, ExecRead, DbError
    <2> QED
      BY <2>1, <2>2, GotoStays DEF socketVars, ClientPCs, PCs
  <1>6. CASE FetchPage(h)
    <2>1. PICK t : t = [task[h] EXCEPT !.pc = "fetch receipts", !.ids = Page(task[h].room)]
      OBVIOUS
    <2>2. t.pc \notin ClientPCs
      BY <2>1, HandlerFacts DEF Task, ClientPCs
    <2>3. task' = [task EXCEPT ![h] = t]
      BY <1>6, <2>1 DEF FetchPage, IInv, TypeOK
    <2> QED
      BY <1>6, <2>2, <2>3, GoingStays DEF FetchPage, socketVars
  <1>7. CASE VerifyFetch(h) \/ FetchReceipts(h) \/ MarkFetched(h)
    <2>1. Done(h) \/ Goto(h, "fetch page") \/ Goto(h, "fetch mark")
      BY <1>7 DEF VerifyFetch, FetchReceipts, MarkFetched
    <2>2. UNCHANGED socketVars
      BY <1>7 DEF VerifyFetch, FetchReceipts, MarkFetched
    <2> QED
      BY <2>1, <2>2, GotoStays DEF socketVars, ClientPCs, PCs
  <1> QED
    BY <1>1, <1>2, <1>3, <1>4, <1>5, <1>6, <1>7 DEF Step, SendStep, FetchStep, socketVars

\* While sockets keep what they have, handlers that go on disturb nothing.
LEMMA StayingKeeps ==
  ASSUME Joined, Stays, UNCHANGED <<phase, ioRooms, current>>
  PROVE  Joined'
  BY DEF Joined, Stays, CurrentRoomIsJoined

\* join_room enters the Socket.IO room of a socket that is connected, and a socket
\* that is not connected any more stays as it is.
LEMMA EnterRoomJoins ==
  ASSUME IInv, Joined, NEW h \in Handlers, EnterRoom(h)
  PROVE  Joined'
  <1>1. PICK s \in Sockets : s = task[h].sock
    BY HandlerFacts DEF EnterRoom, At, ClientPCs
  <1>2. phase[s] \in {"open", "closed"}
    BY <1>1 DEF Joined, EnterRoom, At, ClientPCs
  <1>3. \A x \in Sockets : /\ x # s => current'[x] = current[x] /\ ioRooms'[x] = ioRooms[x]
                           /\ phase'[x] = phase[x]
    BY <1>1 DEF EnterRoom, IInv, TypeOK
  <1>4. phase[s] = "open" => current'[s] \in ioRooms'[s]
    BY <1>1 DEF EnterRoom, IInv, TypeOK
  <1>5. Stays
    BY StepStays DEF Step, JoinStep
  <1>6. \A g \in Handlers : task'[g].pc \in ClientPCs =>
            phase'[task'[g].sock] \in {"open", "closed"}
    BY <1>5 DEF Joined, Stays, EnterRoom
  <1> QED
    BY <1>2, <1>3, <1>4, <1>6 DEF Joined, CurrentRoomIsJoined

\* A socket connects, opens, closes, or leaves a room.
LEMMA SocketStepJoins ==
  ASSUME IInv, Joined, NEW s \in Sockets, SocketStep(s)
  PROVE  Joined'
  <1>1. CASE Connect(s) \/ CloseEarly(s)
    <2>1. phase[s] \in {"new", "opening"}
          /\ \A x \in Sockets : phase'[x] = IF x # s THEN phase[x]
                                ELSE IF Connect(s) THEN "opening" ELSE "lost"
      BY <1>1 DEF Connect, CloseEarly, IInv, TypeOK
    <2>2. UNCHANGED <<ioRooms, current, task>>
      BY <1>1 DEF Connect, CloseEarly
    <2>3. \A h \in Handlers : task[h].pc \in ClientPCs =>
              phase[task[h].sock] \in {"open", "closed"} /\ task[h].sock \in Sockets
      BY HandlerFacts DEF Joined
    <2> QED
      BY <2>1, <2>2, <2>3 DEF Joined, CurrentRoomIsJoined
  <1>2. CASE Opened(s)
    <2>1. phase[s] \in {"opening", "lost"} /\ phase'[s] \in {"open", "orphan"}
          /\ \A x \in Sockets : x # s => phase'[x] = phase[x]
      BY <1>2 DEF Opened, IInv, TypeOK
    <2>2. UNCHANGED <<ioRooms, current, task>> /\ current[s] = None
      BY <1>2, <2>1 DEF Opened, Joined
    <2>3. \A h \in Handlers : task[h].pc \in ClientPCs =>
              phase[task[h].sock] \in {"open", "closed"} /\ task[h].sock \in Sockets
      BY HandlerFacts DEF Joined
    <2> QED
      BY <2>1, <2>2, <2>3 DEF Joined, CurrentRoomIsJoined
  <1>3. CASE Disconnect(s)
    <2>1. \A x \in Sockets : IF x = s THEN phase'[x] = "closed"
                             ELSE phase'[x] = phase[x] /\ ioRooms'[x] = ioRooms[x]
      BY <1>3 DEF Disconnect, IInv, TypeOK
    <2>2. UNCHANGED <<current, task>>
      BY <1>3 DEF Disconnect
    <2>3. \A h \in Handlers : task[h].pc \in ClientPCs =>
              phase[task[h].sock] \in {"open", "closed"} /\ task[h].sock \in Sockets
      BY HandlerFacts DEF Joined
    <2> QED
      BY <2>1, <2>2, <2>3 DEF Joined, CurrentRoomIsJoined
  <1>4. CASE CleanUp(s) \/ BeatGet(s) \/ BeatSet(s)
    BY <1>4, StayingKeeps DEF CleanUp, BeatGet, BeatSet, Stays
  <1>5. ASSUME NEW r \in Rooms, LeaveRoom(s, r) PROVE Joined'
    <2>1. \A x \in Sockets :
            IF x # s THEN current'[x] = current[x] /\ ioRooms'[x] = ioRooms[x]
            ELSE /\ ioRooms'[x] = ioRooms[x] \ {r}
                 /\ current'[x] = IF current[x] = r THEN None ELSE current[x]
      BY <1>5 DEF LeaveRoom, IInv, TypeOK
    <2>2. UNCHANGED <<phase, task>>
      BY <1>5 DEF LeaveRoom
    <2> QED
      BY <2>1, <2>2 DEF Joined, CurrentRoomIsJoined
  <1> QED
    BY <1>1, <1>2, <1>3, <1>4, <1>5 DEF SocketStep

\* An event reaches the handlers of an open socket only.
LEMMA ReceiptJoins ==
  ASSUME IInv, Joined, NEW h \in Handlers, Receipt(h)
  PROVE  Joined'
  <1>1. ASSUME NEW s \in Sockets, NEW kind, NEW pc, NEW r, NEW ids,
               Receive(h, kind, pc, s, r, ids)
        PROVE  Joined'
    <2>1. phase[s] = "open" /\ UNCHANGED <<phase, ioRooms, current>>
      BY <1>1 DEF Receive, socketVars
    <2>2. PICK t : t = [pc |-> pc, sock |-> s, user |-> UserOf[s], room |-> r,
                        ids |-> ids, to |-> {}]
      OBVIOUS
    <2>3. \A g \in Handlers : task'[g] = IF g = h THEN t ELSE task[g]
      BY <1>1, <2>2 DEF Receive, Start, IInv, TypeOK
    <2>4. t.sock = s
      BY <2>2
    <2> QED
      BY <2>1, <2>3, <2>4 DEF Joined, CurrentRoomIsJoined
  <1> QED
    BY <1>1 DEF Receipt, StartJoin, StartSend, StartTyping, StartRead

\* Joined is inductive, given the invariant of Gateway_proofs.
THEOREM JoinedInvariance == Spec => []Joined
  <1>1. Init => Joined
    BY IdleRests DEF Init, Joined, CurrentRoomIsJoined, ClientPCs
  <1>2. ASSUME IInv, Joined, [Next]_vars PROVE Joined'
    <2>1. ASSUME NEW h \in Handlers, Step(h) PROVE Joined'
      BY <1>2, <2>1, StepStays, StayingKeeps, EnterRoomJoins
    <2>2. ASSUME NEW h \in Handlers, NEW u \in Users, NEW r \in Rooms, StartFetch(h, u, r)
          PROVE  Joined'
      <3>1. PICK t : t = [pc |-> "fetch verify", sock |-> None, user |-> u, room |-> r,
                          ids |-> {}, to |-> {}]
        OBVIOUS
      <3>2. t.pc \notin ClientPCs /\ task' = [task EXCEPT ![h] = t]
        BY <2>2, <3>1 DEF StartFetch, Start, ClientPCs
      <3> QED
        BY <1>2, <2>2, <3>2, GoingStays, StayingKeeps DEF StartFetch, socketVars
    <2>3. CASE Tick \/ UNCHANGED vars \/ \E r \in Rooms, u \in Users : BecomeMember(r, u)
      BY <1>2, <2>3, StayingKeeps DEF Tick, BecomeMember, vars, socketVars, Stays
    <2>4. CASE Crash
      BY <2>4, IdleRests DEF Crash, Joined, CurrentRoomIsJoined, ClientPCs
    <2> QED
      BY <1>2, <2>1, <2>2, <2>3, <2>4, ReceiptJoins, SocketStepJoins DEF Next
  <1> QED
    BY <1>1, <1>2, Invariance, PTL DEF Spec

\* The room a connected socket may send to is one whose messages it receives
\* (join_room, leave_room and the disconnect handler).
THEOREM CurrentRoomJoined == Spec => []CurrentRoomIsJoined
  <1>1. Joined => CurrentRoomIsJoined
    BY DEF Joined
  <1> QED
    BY <1>1, JoinedInvariance, PTL
===============================================================================
