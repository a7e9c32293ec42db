------------------------------ MODULE Presence ------------------------------
(***************************************************************************)
(* PresenceService (app/users/presence.service.ts): the two kinds of keys  *)
(* it keeps in Redis and what each of its methods does to them.  The       *)
(* methods are operators here; Gateway calls them from the handlers.       *)
(*                                                                         *)
(* presence:user:<id> holds a status and has a TTL, counted in heartbeat   *)
(* periods of 15 s, so that PRESENCE_TTL = 30 s is OnlineTtl = 2.  The 24 h *)
(* TTLs (of an offline status, which then reads as offline all the same,   *)
(* and of room:presence:<id>) are longer than any behaviour considered.    *)
(* Every method is awaited over one FIFO connection, so that commands take *)
(* effect in the order they are issued; a method of two commands is two    *)
(* operators.                                                              *)
(***************************************************************************)
EXTENDS ChatDomain, Integers, FiniteSets

CONSTANT OnlineTtl      \* PRESENCE_TTL, in heartbeat periods

ASSUME PresenceAssumption == OnlineTtl \in Nat \ {0}

VARIABLES
    status,         \* user -> what its presence key says
    ttl,            \* user -> periods its online status has left
    roomUsers       \* room -> its room:presence set

presenceVars == <<status, ttl, roomUsers>>

Statuses == {"absent", "online", "offline"}

PresenceType ==
    /\ status \in [Users -> Statuses]
    /\ ttl \in [Users -> 0..OnlineTtl]
    /\ roomUsers \in [Rooms -> SUBSET Users]

PresenceInit ==
    /\ status = [u \in Users |-> "absent"]
    /\ ttl = [u \in Users |-> 0]
    /\ roomUsers = [r \in Rooms |-> {}]

\* SETEX: a status and its TTL are written together, whatever was there.
SetStatus(u, st) ==
    /\ status' = [status EXCEPT ![u] = st]
    /\ ttl' = [ttl EXCEPT ![u] = IF st = "online" THEN OnlineTtl ELSE 0]

SetUserOnline(u) == SetStatus(u, "online")

SetUserOffline(u) == SetStatus(u, "offline")

\* Mutant: SET without EX.
WriteLastSeenKeepTtl(u, seen) ==
    /\ status' = [status EXCEPT ![u] = seen]
    /\ UNCHANGED ttl

\* The second half of updateLastSeen, given what its GET answered: the status
\* read is written back with a fresh TTL.
WriteLastSeen(u, seen) == SetStatus(u, seen)

\* getUserPresence asks for the TTL of a status it read as online.
StatusExpired(u) == status[u] = "absent"

AddUserToRoom(r, u) ==
    roomUsers' = [roomUsers EXCEPT ![r] = @ \cup {u}]

RemoveUserFromRoom(r, u) ==
    roomUsers' = [roomUsers EXCEPT ![r] = @ \ {u}]

\* A heartbeat period passes: Redis drops the online statuses that are over.
PresenceTick ==
    /\ ttl' = [u \in Users |-> IF ttl[u] = 0 THEN 0 ELSE ttl[u] - 1]
    /\ status' = [u \in Users |->
          IF status[u] = "online" /\ ttl[u] <= 1 THEN "absent" ELSE status[u]]
    /\ UNCHANGED roomUsers
=============================================================================
