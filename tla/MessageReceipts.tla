--------------------------- MODULE MessageReceipts ---------------------------
(***************************************************************************)
(* The tables room_members, messages and message_receipts, and the methods *)
(* of MessageReceiptsService (app/messages/message-receipts.service.ts) on *)
(* them.  Each operator is one SQL statement, atomic by the database; a    *)
(* method of two statements is two operators, which Gateway runs in        *)
(* separate steps.  A message record also remembers, for the properties,   *)
(* who was a member of the room when it was stored (audience).             *)
(***************************************************************************)
EXTENDS ChatDomain, Integers, FiniteSets

CONSTANT MessageIds

VARIABLES
    members,        \* room -> the users with a row in room_members
    messages,       \* id -> its row in messages, or None
    receipts,       \* <<message, recipient>>: the rows of message_receipts
    read            \* the rows of message_receipts whose read_at is set

dbVars == <<members, messages, receipts, read>>

Message == [room : Rooms, sender : Users, audience : SUBSET Users]

DbType ==
    /\ members \in [Rooms -> SUBSET Users]
    /\ messages \in [MessageIds -> Message \cup {None}]
    /\ receipts \subseteq MessageIds \X Users
    /\ read \subseteq MessageIds \X Users

DbInit(initialMembers) ==
    /\ members = initialMembers
    /\ messages = [m \in MessageIds |-> None]
    /\ receipts = {}
    /\ read = {}

Stored == {m \in MessageIds : messages[m] # None}

\* Mutant: a new member is owed the messages there are.
AddMemberBackfill(r, u) ==
    /\ u \notin members[r]
    /\ members' = [members EXCEPT ![r] = @ \cup {u}]
    /\ receipts' = receipts \cup ({m \in Stored : messages[m].room = r} \X {u})
    /\ UNCHANGED <<messages, read>>

\* A row of room_members is created and never deleted: no code sets deleted_at.
AddMember(r, u) ==
    /\ u \notin members[r]
    /\ members' = [members EXCEPT ![r] = @ \cup {u}]
    /\ UNCHANGED <<messages, receipts, read>>

\* verifyRoomMembership
IsMember(u, r) == u \in members[r]

InsertMessage(m, r, u) ==
    /\ messages[m] = None
    /\ messages' = [messages EXCEPT ![m] =
                      [room |-> r, sender |-> u, audience |-> members[r]]]
    /\ UNCHANGED <<members, receipts, read>>

\* Mutant: the sender is not left out.
RecipientsAll(r, sender) == members[r]

\* createDeliveryReceipts: findMany of the members who did not send it...
Recipients(r, sender) == members[r] \ {sender}

\* ... and createMany with skipDuplicates.
InsertReceipts(ids, to) ==
    /\ receipts' = receipts \cup (ids \X to)
    /\ UNCHANGED <<members, messages, read>>

\* Mutant: recipient_id is left out of the where clause.
MarkAsReadAnyone(ids, u) ==
    /\ read' = read \cup {p \in receipts : p[1] \in ids}
    /\ UNCHANGED <<members, messages, receipts>>

\* markAsRead and markMultipleAsRead: updateMany of the caller's own receipts.
MarkAsRead(ids, u) ==
    /\ read' = read \cup {p \in receipts : p[1] \in ids /\ p[2] = u}
    /\ UNCHANGED <<members, messages, receipts>>

\* The messages of a room a user has not read: what getUnreadMessages asks for.
Unread(u, r) ==
    {m \in Stored : <<m, u>> \in receipts \ read /\ messages[m].room = r}

\* What it answers when it is given a room: the query has both "select" and
\* "include" at its top level, which Prisma rejects, and the catch returns [].
GetUnreadMessages(u, r) == {}

\* getRoomMessages: a page of the room, here as long as the room.
Page(r) == {m \in Stored : messages[m].room = r}

\* getMessagesWithReceipts: what listings say of a message.
ReadStatus(m) ==
    LET owed == {p \in receipts : p[1] = m}
    IN  CASE owed = {} -> "no_recipients"
          [] owed # {} /\ owed \subseteq read -> "all_read"
          [] owed \cap read # {} /\ ~(owed \subseteq read) -> "partially_read"
          [] owed # {} /\ owed \cap read = {} -> "unread"
==============================================================================
