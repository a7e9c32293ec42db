------------------------------ MODULE MCServer ------------------------------
(* Server on a small instance.                                             *)
EXTENDS Server

\* One route of each shape: unguarded, with masked and unmasked Redis stages,
\* limited and not.
Shapes == {"home", "login", "logout", "list", "messages", "presence"}
=============================================================================
