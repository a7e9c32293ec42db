----------------------------- MODULE Membership -----------------------------
(***************************************************************************)
(* What rooms promise about membership, without requests: a room is        *)
(* founded with one member, members invite others, a private room admits   *)
(* the invited only, and nobody ever stops being a member.                 *)
(***************************************************************************)
EXTENDS ChatDomain

VARIABLES
    kind,           \* room -> None, "public" or "private"
    members,        \* room -> its members
    invited         \* <<host, user, room>>

membershipVars == <<kind, members, invited>>

Init ==
    /\ kind = [r \in Rooms |-> None]
    /\ members = [r \in Rooms |-> {}]
    /\ invited = {}

Found(u, r) ==
    /\ kind[r] = None
    /\ \E k \in {"public", "private"} : kind' = [kind EXCEPT ![r] = k]
    /\ members' = [members EXCEPT ![r] = {u}]
    /\ UNCHANGED invited

Invite(host, u, r) ==
    /\ kind[r] = "private" /\ host \in members[r] /\ u \notin members[r]
    /\ invited' = invited \cup {<<host, u, r>>}
    /\ UNCHANGED <<kind, members>>

Admit(u, r) ==
    /\ kind[r] = "public" \/ \E host \in Users : <<host, u, r>> \in invited
    /\ u \notin members[r]
    /\ members' = [members EXCEPT ![r] = @ \cup {u}]
    /\ UNCHANGED <<kind, invited>>

Next ==
    \E u \in Users, r \in Rooms :
        \/ Found(u, r)
        \/ \E host \in Users : Invite(host, u, r)
        \/ kind[r] # None /\ Admit(u, r)

Spec == Init /\ [][Next]_membershipVars
=============================================================================
