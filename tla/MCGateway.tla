------------------------------ MODULE MCGateway ------------------------------
(* Gateway on small instances.                                             *)
EXTENDS Gateway, TLC

CONSTANTS alice, bob, lobby, den, s1, s2, m1, h1, h2

\* Two users with one connection each.
OneEach == s1 :> alice @@ s2 :> bob

\* alice on two devices.
TwoDevices == s1 :> alice @@ s2 :> alice

\* One connection.
Alone == s1 :> alice

\* Everybody is a member of every room from the start.
AllMembers == [r \in Rooms |-> Users]

\* alice founded the rooms; bob may become a member.
AliceFounded == [r \in Rooms |-> {alice}]

HandlerSymmetry == Permutations(Handlers)
==============================================================================
