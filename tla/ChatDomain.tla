----------------------------- MODULE ChatDomain -----------------------------
(* The identities the chat modules share.                                  *)
CONSTANTS
    Users,
    Rooms,
    None            \* an absent row, an unset field
=============================================================================
