------------------------------ MODULE RoomChat ------------------------------
(***************************************************************************)
(* What the chat promises its users, with no sockets, no handlers and no   *)
(* presence: a message is posted by a member, never changes, and is pushed *)
(* once, to sessions of members of its room.  Its receipts are issued to   *)
(* members other than its sender, and no later than the push; a receipt    *)
(* may become read once it is issued, and stays read.                      *)
(***************************************************************************)
EXTENDS ChatDomain

CONSTANTS
    MessageIds,
    Sessions,       \* where messages are pushed to
    OwnerOf,        \* session -> its user
    Founders        \* room -> its members at the start

VARIABLES
    members,        \* room -> its members
    posts,          \* message -> None, or its room and sender
    receipts,       \* <<message, user>>: issued
    read,           \* <<message, user>>: read
    sent,           \* messages pushed
    delivered       \* <<session, message>>: where they were pushed to

chatVars == <<members, posts, receipts, read, sent, delivered>>

Init ==
    /\ members = Founders
    /\ posts = [m \in MessageIds |-> None]
    /\ receipts = {} /\ read = {} /\ sent = {} /\ delivered = {}

Admit(r, u) ==
    /\ members' = [members EXCEPT ![r] = @ \cup {u}]
    /\ UNCHANGED <<posts, receipts, read, sent, delivered>>

Post(m, r, u) ==
    /\ posts[m] = None
    /\ u \in members[r]
    /\ posts' = [posts EXCEPT ![m] = [room |-> r, sender |-> u]]
    /\ UNCHANGED <<members, receipts, read, sent, delivered>>

Issue(m, to) ==
    /\ posts[m] # None /\ m \notin sent
    /\ to \subseteq members[posts[m].room] \ {posts[m].sender}
    /\ receipts' = receipts \cup ({m} \X to)
    /\ UNCHANGED <<members, posts, read, sent, delivered>>

Push(m, sessions) ==
    /\ posts[m] # None /\ m \notin sent
    /\ \A s \in sessions : OwnerOf[s] \in members[posts[m].room]
    /\ sent' = sent \cup {m}
    /\ delivered' = delivered \cup (sessions \X {m})
    /\ UNCHANGED <<members, posts, receipts, read>>

Read(u, ids) ==
    /\ read' = read \cup {p \in receipts : p[1] \in ids /\ p[2] = u}
    /\ UNCHANGED <<members, posts, receipts, sent, delivered>>

Next ==
    \/ \E r \in Rooms, u \in Users : Admit(r, u) \/ \E m \in MessageIds : Post(m, r, u)
    \/ \E m \in MessageIds, to \in SUBSET Users : Issue(m, to)
    \/ \E m \in MessageIds, sessions \in SUBSET Sessions : Push(m, sessions)
    \/ \E u \in Users, ids \in SUBSET MessageIds : Read(u, ids)

Spec == Init /\ [][Next]_chatVars
=============================================================================
