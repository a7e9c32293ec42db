------------------------------ MODULE Sessions ------------------------------
(***************************************************************************)
(* Sessions: AuthService's login and logouts, the ExtractToken and Auth    *)
(* middlewares of REST requests, and authenticateSocket of the gateway,    *)
(* which treats a token the same way.                                      *)
(*                                                                         *)
(* A login signs a token that names a session by its user and the time of  *)
(* the login, and keeps the Redis key of the session.  JWT expiry is       *)
(* ignored: a session is alive while its key is.  A request reads the TTL  *)
(* of the key, extends it in a second command, and is then served as the   *)
(* user.  A logout deletes the key; a logout from all devices lists the    *)
(* user's keys and deletes them one by one.  Commands take effect when     *)
(* they are issued; anything runs between two of them.                     *)
(***************************************************************************)
EXTENDS Integers, FiniteSets

CONSTANTS
    Users,
    Requests,       \* slots for requests in flight: a bound on concurrency
    Fresh,          \* TTL of a new session (20 minutes)
    Short,          \* TTL of a session in use (5 days)
    Long,           \* TTL of a session in use that is remembered (30 days)
    MaxTime,        \* bound: the clock stops here
    MaxTokens       \* bound: number of tokens handed out

ASSUME SessionsAssumption ==
    Fresh \in Nat \ {0} /\ Short \in Nat \ {0} /\ Long \in Nat \ {0}
    /\ MaxTime \in Nat /\ MaxTokens \in Nat

VARIABLES
    clock,
    expireAt,       \* session -> when its key expires; over when in the past
    tokens,         \* the tokens handed out
    request,        \* slot -> the request in flight
    ended           \* history: sessions deleted by a logout, and not opened since

vars == <<clock, expireAt, tokens, request, ended>>

\* users:<id>:session-<lastLogin>
Session == Users \X (0..MaxTime)

Token == [user : Users, lastLogin : 0..MaxTime, rememberMe : BOOLEAN]

KeyOf(token) == <<token.user, token.lastLogin>>

Alive(k) == expireAt[k] > clock

\* Mutant: the pattern of KEYS lacks the user's id.
SessionsOfAnyone(u) == {k \in Session : Alive(k)}

\* KEYS users:<id>*
SessionsOf(u) == {k \in Session : Alive(k) /\ k[1] = u}

Kinds == {"use", "logout", "logoutAll"}

\* due: the sessions a logout has to end, less those that have ended since it
\* arrived; late: the session had been ended when the request arrived, and has
\* not been opened since.
NoRequest == [pc |-> "idle"]

Request(pc, kind, token, keys, due, late) ==
    [pc |-> pc, kind |-> kind, token |-> token, keys |-> keys, due |-> due,
     late |-> late]

Init ==
    /\ clock = 0
    /\ expireAt = [k \in Session |-> 0]
    /\ tokens = {}
    /\ request = [h \in Requests |-> NoRequest]
    /\ ended = {}

At(h, pc) == request[h].pc = pc

Done(h) == request' = [request EXCEPT ![h] = NoRequest]

\* The slots, when the sessions in gone are over.
Without(slots, gone) ==
    [h \in Requests |-> IF slots[h] = NoRequest THEN NoRequest
                        ELSE [slots[h] EXCEPT !.due = @ \ gone]]

\* The slots, when session k is opened.
Reopened(k) ==
    [h \in Requests |-> IF request[h] = NoRequest THEN NoRequest
                        ELSE [request[h] EXCEPT !.late = @ /\ KeyOf(request[h].token) # k]]

\* The password was right.  Two logins of one user at one time name one session.
Login(u, rememberMe) ==
    /\ Cardinality(tokens) < MaxTokens
    /\ expireAt' = [expireAt EXCEPT ![<<u, clock>>] = clock + Fresh]
    /\ tokens' = tokens \cup
         {[user |-> u, lastLogin |-> clock, rememberMe |-> rememberMe]}
    /\ ended' = ended \ {<<u, clock>>}
    /\ request' = Reopened(<<u, clock>>)
    /\ UNCHANGED clock

Arrive(h, token, kind) ==
    /\ At(h, "idle")
    /\ token \in tokens
    /\ request' = [request EXCEPT ![h] =
         Request("ttl", kind, token, {},
                 CASE kind = "use" -> {}
                   [] kind = "logout" -> {KeyOf(token)} \cap SessionsOf(token.user)
                   [] kind = "logoutAll" -> SessionsOf(token.user),
                 KeyOf(token) \in ended)]
    /\ UNCHANGED <<clock, expireAt, tokens, ended>>

\* Mutant: the code of a missing key is taken for "no expiry".
AcceptsMissing(k) == TRUE

\* ttl >= 0
Accepts(k) == Alive(k)

\* A refused request goes on as a guest, and AuthMiddleware answers 401.
CheckTtl(h) ==
    /\ At(h, "ttl")
    /\ IF Accepts(KeyOf(request[h].token))
         THEN request' = [request EXCEPT ![h].pc = "extend"]
         ELSE Done(h)
    /\ UNCHANGED <<clock, expireAt, tokens, ended>>

\* Mutant: the key is written again, rather than EXPIREd.
ExtendBySetting(h) ==
    LET token == request[h].token
    IN  /\ At(h, "extend")
        /\ expireAt' = [expireAt EXCEPT ![KeyOf(token)] =
               clock + (IF token.rememberMe THEN Long ELSE Short)]
        /\ request' = [request EXCEPT ![h].pc = "serve"]
        /\ UNCHANGED <<clock, tokens, ended>>

\* EXPIRE does nothing to a key that is gone, and its answer is not looked at.
Extend(h) ==
    LET token == request[h].token
        k == KeyOf(token)
    IN  /\ At(h, "extend")
        /\ expireAt' = [expireAt EXCEPT ![k] =
               IF ~Alive(k) THEN @
               ELSE clock + (IF token.rememberMe THEN Long ELSE Short)]
        /\ request' = [request EXCEPT ![h].pc = "serve"]
        /\ UNCHANGED <<clock, tokens, ended>>

\* A request that is not a logout, or a socket that connects.
Serve(h) ==
    /\ At(h, "serve") /\ request[h].kind = "use"
    /\ Done(h)
    /\ UNCHANGED <<clock, expireAt, tokens, ended>>

\* DEL of one key, after which request h goes on at pc with keys left to delete.
Delete(h, k, pc, keys) ==
    /\ expireAt' = [expireAt EXCEPT ![k] = 0]
    /\ ended' = ended \cup {k}
    /\ request' = Without([request EXCEPT ![h].pc = pc, ![h].keys = keys], {k})
    /\ UNCHANGED <<clock, tokens>>

Logout(h) ==
    /\ At(h, "serve") /\ request[h].kind = "logout"
    /\ Delete(h, KeyOf(request[h].token), "answer", {})

ListSessions(h) ==
    /\ At(h, "serve") /\ request[h].kind = "logoutAll"
    /\ LET found == SessionsOf(request[h].token.user)
       IN  request' = [request EXCEPT ![h].pc = IF found = {} THEN "answer" ELSE "delete",
                                      ![h].keys = found]
    /\ UNCHANGED <<clock, expireAt, tokens, ended>>

\* Mutant: the deletions are not awaited.
DeleteFirst(h) ==
    /\ At(h, "delete")
    /\ \E k \in request[h].keys : Delete(h, k, "answer", {})

DeleteNext(h) ==
    /\ At(h, "delete")
    /\ \E k \in request[h].keys :
         LET left == request[h].keys \ {k}
         IN  Delete(h, k, IF left = {} THEN "answer" ELSE "delete", left)

Answer(h) ==
    /\ At(h, "answer")
    /\ Done(h)
    /\ UNCHANGED <<clock, expireAt, tokens, ended>>

\* A command fails: the middleware goes on as a guest, a logout answers 500 and
\* leaves the keys it has not come to.
RedisError(h) ==
    /\ At(h, "ttl") \/ At(h, "extend") \/ At(h, "serve") \/ At(h, "delete")
    /\ Done(h)
    /\ UNCHANGED <<clock, expireAt, tokens, ended>>

Tick ==
    /\ clock < MaxTime
    /\ clock' = clock + 1
    /\ request' = Without(request, {k \in Session : expireAt[k] <= clock + 1})
    /\ UNCHANGED <<expireAt, tokens, ended>>

Step(h) ==
    \/ CheckTtl(h) \/ Extend(h) \/ Serve(h) \/ Logout(h) \/ ListSessions(h)
    \/ DeleteNext(h) \/ Answer(h) \/ RedisError(h)

Next ==
    \/ \E u \in Users, rememberMe \in BOOLEAN : Login(u, rememberMe)
    \/ \E h \in Requests, token \in tokens, kind \in Kinds : Arrive(h, token, kind)
    \/ \E h \in Requests : Step(h)
    \/ Tick

Spec == Init /\ [][Next]_vars

------------------------------------------------------------------------------
\* Types; in particular a request handles no session but its user's.
TypeOK ==
    /\ clock \in 0..MaxTime
    /\ expireAt \in [Session -> Nat]
    /\ tokens \subseteq Token
    /\ ended \subseteq Session
    /\ \A h \in Requests : ~At(h, "idle") =>
         /\ request[h].pc \in {"ttl", "extend", "serve", "delete", "answer"}
         /\ request[h].kind \in Kinds
         /\ request[h].token \in tokens
         /\ request[h].keys \cup request[h].due
              \subseteq {k \in Session : k[1] = request[h].token.user}

\* A session that is over comes back by a login only: no extension that races
\* with a logout or with the expiry of the key revives it.
NoResurrection ==
    [][\A k \in Session : ~Alive(k) /\ Alive(k)' =>
          k[2] = clock /\ \E rememberMe \in BOOLEAN : Login(k[1], rememberMe)]_vars

\* When a logout answers that it succeeded, the sessions it was asked to end,
\* all of the user's that were alive when a logout from all devices arrived,
\* have ended, although they are listed and deleted one command at a time.
LogoutEnds == \A h \in Requests : At(h, "answer") => request[h].due = {}

\* A request that arrives with a session that was logged out is not served,
\* whatever other requests of the session were in flight when it ended.
RevokedIsRefused ==
    \A h \in Requests :
        ~At(h, "idle") /\ request[h].late => At(h, "ttl")
==============================================================================
