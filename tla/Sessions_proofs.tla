---------------------------- MODULE Sessions_proofs ----------------------------
(***************************************************************************)
(* Proofs about Sessions for every value of its constants: its types, that *)
(* a logout ends what it was asked to end, that a session that was logged  *)
(* out is refused, and that nothing but a login revives a session.         *)
(*                                                                         *)
(* A logout acts on a list of keys it read earlier, so LogoutEnds needs to *)
(* know that the sessions it still owes are alive, and are the one of its  *)
(* token, or on the list, once it has one.  RevokedIsRefused needs that a  *)
(* session that was logged out stays dead until it is opened again.        *)
(***************************************************************************)
EXTENDS Sessions, TLAPS

Busy == {"ttl", "extend", "serve", "delete", "answer"}

InFlight == [pc : Busy, kind : Kinds, token : Token, keys : SUBSET Session,
             due : SUBSET Session, late : BOOLEAN]

\* The sessions of the user of a token.
Own(token) == {k \in Session : k[1] = token.user}

Typed ==
    /\ clock \in 0..MaxTime
    /\ expireAt \in [Session -> Nat]
    /\ tokens \subseteq Token
    /\ ended \subseteq Session
    /\ request \in [Requests -> {NoRequest} \cup InFlight]

\* What a request in flight carries from its earlier steps.
RequestOK(q) ==
    q \in InFlight =>
      /\ q.token \in tokens
      /\ q.keys \cup q.due \subseteq Own(q.token)
      /\ \A k \in q.due : Alive(k)
      /\ q.kind = "use" => q.pc \in {"ttl", "extend", "serve"}
      /\ q.kind = "logout" => q.pc # "delete" /\ q.due \subseteq {KeyOf(q.token)}
      /\ q.pc = "delete" => q.due \subseteq q.keys
      /\ q.pc = "answer" => q.due = {}
      /\ q.late => q.pc = "ttl" /\ KeyOf(q.token) \in ended

IInv ==
    /\ Typed
    /\ \A k \in ended : ~Alive(k)
    /\ \A h \in Requests : RequestOK(request[h])

------------------------------------------------------------------------------
\* A request in flight is not the record of a free slot.
LEMMA FreeSlot ==
  /\ NoRequest \notin InFlight
  /\ NoRequest.pc = "idle"
  /\ \A q \in InFlight : q # NoRequest /\ q.pc \in Busy /\ q.pc # "idle"
  <1>1. NoRequest.pc = "idle"
    BY DEF NoRequest
  <1>2. \A q \in InFlight : q.pc \in Busy /\ q.pc # "idle"
    BY DEF InFlight, Busy
  <1> QED
    BY <1>1, <1>2

\* A token names a session of its user.
LEMMA KeysAreOwn ==
  ASSUME NEW token \in Token
  PROVE  KeyOf(token) \in Own(token)
  BY DEF KeyOf, Own, Session, Token

\* A slot changes, and the sessions stay as they are.
LEMMA SlotMoves ==
  ASSUME IInv, NEW h \in Requests, NEW q \in {NoRequest} \cup InFlight, RequestOK(q),
         request' = [request EXCEPT ![h] = q],
         UNCHANGED <<clock, expireAt, tokens, ended>>
  PROVE  IInv'
  <1>1. Typed'
    BY DEF IInv, Typed
  <1>2. \A g \in Requests : request'[g] = IF g = h THEN q ELSE request[g]
    BY DEF IInv, Typed
  <1>3. \A k : Alive(k)' <=> Alive(k)
    BY DEF Alive
  <1>4. \A g \in Requests : RequestOK(request[g])'
    BY <1>2, <1>3 DEF IInv, RequestOK
  <1> QED
    BY <1>1, <1>3, <1>4 DEF IInv

\* A request that is over leaves its slot.
LEMMA SlotFrees ==
  ASSUME IInv, NEW h \in Requests, Done(h), UNCHANGED <<clock, expireAt, tokens, ended>>
  PROVE  IInv'
  BY SlotMoves, FreeSlot DEF Done, RequestOK

\* The request of a slot that is not free.
LEMMA SlotFacts ==
  ASSUME IInv, NEW h \in Requests, request[h].pc \in Busy
  PROVE  request[h] \in InFlight /\ RequestOK(request[h])
  BY FreeSlot DEF IInv, Typed, Busy

\* A login opens one session, which no request may take for one that was ended.
LEMMA LoginKeeps ==
  ASSUME IInv, NEW u \in Users, NEW rememberMe \in BOOLEAN, Login(u, rememberMe)
  PROVE  IInv'
  <1>1. PICK n \in Session : n = <<u, clock>>
    BY DEF IInv, Typed, Session
  <1>2. /\ clock' = clock /\ ended' = ended \ {n} /\ tokens \subseteq tokens'
        /\ expireAt' = [expireAt EXCEPT ![n] = clock + Fresh]
        /\ request' = Reopened(n)
    BY <1>1 DEF Login
  <1>3. tokens' \subseteq Token
    BY DEF Login, IInv, Typed, Token
  <1>4. \A k \in Session : /\ Alive(k) => Alive(k)'
                           /\ k # n => (Alive(k)' <=> Alive(k))
    BY <1>2, SessionsAssumption DEF Alive, IInv, Typed
  <1>5. ASSUME NEW h \in Requests
        PROVE  request'[h] \in {NoRequest} \cup InFlight /\ RequestOK(request[h])'
    <2>1. CASE request[h] = NoRequest
      <3>1. request'[h] = NoRequest
        BY <1>2, <2>1 DEF Reopened
      <3> QED
        BY <3>1, FreeSlot DEF RequestOK
    <2>2. CASE request[h] \in InFlight
      <3>1. PICK q \in InFlight : q = request[h]
        BY <2>2
      <3>2. RequestOK(q)
        BY <3>1 DEF IInv
      <3>3. PICK late \in BOOLEAN : late = (q.late /\ KeyOf(q.token) # n)
        OBVIOUS
      <3>4. PICK p : p = [q EXCEPT !.late = late]
        OBVIOUS
      <3>5. request'[h] = p
        BY <1>2, <3>1, <3>3, <3>4, FreeSlot DEF Reopened
      <3>6. p \in InFlight /\ p.late = late /\ p.pc = q.pc /\ p.kind = q.kind
            /\ p.token = q.token /\ p.keys = q.keys /\ p.due = q.due
        BY <3>4 DEF InFlight
      <3>7. q.due \subseteq Session
        BY DEF InFlight
      <3>8. \A k \in p.due : Alive(k)'
        BY <1>4, <3>2, <3>6, <3>7 DEF RequestOK
      <3>9. p.late => p.pc = "ttl" /\ KeyOf(p.token) \in ended'
        BY <1>2, <3>2, <3>3, <3>6 DEF RequestOK
      <3>10. RequestOK(p)'
        BY <1>2, <3>2, <3>6, <3>8, <3>9 DEF RequestOK
      <3> QED
        BY <3>5, <3>6, <3>10 DEF RequestOK
    <2> QED
      BY <2>1, <2>2 DEF IInv, Typed
  <1>6. Typed'
    <2>1. expireAt' \in [Session -> Nat]
      BY <1>2, SessionsAssumption DEF IInv, Typed
    <2>2. request' \in [Requests -> {NoRequest} \cup InFlight]
      BY <1>2, <1>5 DEF Reopened
    <2> QED
      BY <1>2, <1>3, <2>1, <2>2 DEF IInv, Typed
  <1>7. \A k \in ended' : ~Alive(k)'
    BY <1>2, <1>4 DEF IInv, Typed
  <1> QED
    BY <1>5, <1>6, <1>7 DEF IInv

\* A request arrives with a token it was given.
LEMMA ArriveKeeps ==
  ASSUME IInv, NEW h \in Requests, NEW token \in tokens, NEW kind \in Kinds,
         Arrive(h, token, kind)
  PROVE  IInv'
  <1>1. PICK due : due = CASE kind = "use" -> {}
                          [] kind = "logout" -> {KeyOf(token)} \cap SessionsOf(token.user)
                          [] kind = "logoutAll" -> SessionsOf(token.user)
    OBVIOUS
  <1>2. token \in Token
    BY DEF IInv, Typed
  <1>3. /\ due \subseteq SessionsOf(token.user)
        /\ kind = "logout" => due \subseteq {KeyOf(token)}
    BY <1>1 DEF Kinds
  <1>4. SessionsOf(token.user) \subseteq Own(token) /\ \A k \in SessionsOf(token.user) : Alive(k)
    BY DEF SessionsOf, Own
  <1>5. PICK late : late = (KeyOf(token) \in ended)
    OBVIOUS
  <1>6. PICK q : q = Request("ttl", kind, token, {}, due, late)
    OBVIOUS
  <1>7. q \in InFlight
    BY <1>2, <1>3, <1>4, <1>5, <1>6 DEF InFlight, Request, Busy, Own
  <1>8. RequestOK(q)
    BY <1>3, <1>4, <1>5, <1>6 DEF RequestOK, Request
  <1>9. request' = [request EXCEPT ![h] = q]
    BY <1>1, <1>5, <1>6 DEF Arrive
  <1> QED
    BY <1>7, <1>8, <1>9, SlotMoves DEF Arrive

\* A request that goes on, and changes nothing else.
LEMMA RequestGoes ==
  ASSUME IInv, NEW h \in Requests, request[h].pc \in Busy, NEW pc \in Busy,
         request' = [request EXCEPT ![h].pc = pc],
         pc \in {"extend", "serve"}, request[h].pc \in {"ttl", "extend"},
         ~request[h].late,
         UNCHANGED <<clock, expireAt, tokens, ended>>
  PROVE  IInv'
  <1>1. PICK q \in InFlight : q = request[h] /\ RequestOK(q)
    BY SlotFacts
  <1>2. PICK p : p = [q EXCEPT !.pc = pc]
    OBVIOUS
  <1>3. p \in InFlight /\ p.late = q.late /\ p.pc = pc /\ p.kind = q.kind
        /\ p.token = q.token /\ p.keys = q.keys /\ p.due = q.due
    BY <1>2 DEF InFlight
  <1>4. RequestOK(p)
    BY <1>1, <1>3 DEF RequestOK
  <1>5. request' = [request EXCEPT ![h] = p]
    BY <1>1, <1>2 DEF IInv, Typed
  <1> QED
    BY <1>3, <1>4, <1>5, SlotMoves

\* The middleware reads the TTL: only a session that is alive goes on.
LEMMA CheckTtlKeeps ==
  ASSUME IInv, NEW h \in Requests, CheckTtl(h)
  PROVE  IInv'
  <1>1. request[h].pc = "ttl" /\ request[h].pc \in Busy
    BY DEF CheckTtl, At, Busy
  <1>2. CASE Alive(KeyOf(request[h].token))
    <2>1. ~request[h].late
      BY <1>1, <1>2, SlotFacts DEF RequestOK, IInv, InFlight
    <2> QED
      BY <1>1, <1>2, <2>1, RequestGoes DEF CheckTtl, Accepts, Busy
  <1>3. CASE ~Alive(KeyOf(request[h].token))
    BY <1>3, SlotFrees DEF CheckTtl, Accepts
  <1> QED
    BY <1>2, <1>3

\* What is alive is extended, what is not stays dead.
LEMMA ExtendKeeps ==
  ASSUME IInv, NEW h \in Requests, Extend(h)
  PROVE  IInv'
  <1>1. request[h].pc = "extend" /\ request[h].pc \in Busy
    BY DEF Extend, At, Busy
  <1>2. PICK q \in InFlight : q = request[h] /\ RequestOK(q)
    BY <1>1, SlotFacts
  <1>3. PICK p : p = [q EXCEPT !.pc = "serve"]
    OBVIOUS
  <1>4. p \in InFlight /\ p.late = q.late /\ p.pc = "serve" /\ p.kind = q.kind
        /\ p.token = q.token /\ p.keys = q.keys /\ p.due = q.due
    BY <1>3 DEF InFlight, Busy
  <1>5. PICK n \in Session : n = KeyOf(q.token)
    BY KeysAreOwn DEF InFlight, Own
  <1>6. PICK time \in Nat :
            time = IF ~Alive(n) THEN expireAt[n]
                   ELSE clock + (IF q.token.rememberMe THEN Long ELSE Short)
    BY SessionsAssumption DEF IInv, Typed
  <1>7. expireAt' = [expireAt EXCEPT ![n] = time] /\ UNCHANGED <<clock, tokens, ended>>
    BY <1>2, <1>5, <1>6 DEF Extend
  <1>8. \A k \in Session : Alive(k)' <=> Alive(k)
    BY <1>6, <1>7, SessionsAssumption DEF Alive, IInv, Typed
  <1>9. request' = [request EXCEPT ![h] = p]
    BY <1>2, <1>3 DEF Extend, IInv, Typed
  <1>10. Typed'
    BY <1>4, <1>7, <1>9 DEF IInv, Typed
  <1>11. \A g \in Requests : RequestOK(request[g])'
    <2>1. ASSUME NEW g \in Requests PROVE RequestOK(request[g])'
      <3>1. CASE g = h
        <4>1. request'[g] = p
          BY <1>9, <3>1 DEF IInv, Typed
        <4>2. q.due \subseteq Session
          BY DEF InFlight
        <4>3. RequestOK(p)'
          BY <1>1, <1>2, <1>4, <1>7, <1>8, <4>2 DEF RequestOK
        <4> QED
          BY <4>1, <4>3 DEF RequestOK
      <3>2. CASE g # h
        <4>1. request'[g] = request[g] /\ RequestOK(request[g])
          BY <1>9, <3>2 DEF IInv, Typed
        <4>2. request[g] \in InFlight => request[g].due \subseteq Session
          BY DEF InFlight
        <4> QED
          BY <1>7, <1>8, <4>1, <4>2 DEF RequestOK
      <3> QED
        BY <3>1, <3>2
    <2> QED
      BY <2>1
  <1> QED
    BY <1>7, <1>8, <1>10, <1>11 DEF IInv, Typed

\* A logout from all devices lists the sessions there are: those it owes are among
\* them.
LEMMA ListSessionsKeeps ==
  ASSUME IInv, NEW h \in Requests, ListSessions(h)
  PROVE  IInv'
  <1>1. request[h].pc = "serve" /\ request[h].pc \in Busy /\ request[h].kind = "logoutAll"
    BY DEF ListSessions, At, Busy
  <1>2. PICK q \in InFlight : q = request[h] /\ RequestOK(q)
    BY <1>1, SlotFacts
  <1>3. PICK found : found = SessionsOf(q.token.user)
    OBVIOUS
  <1>4. found \subseteq Own(q.token) /\ q.due \subseteq found
    BY <1>2, <1>3 DEF SessionsOf, Own, RequestOK
  <1>5. PICK p : p = [q EXCEPT !.pc = IF found = {} THEN "answer" ELSE "delete", !.keys = found]
    OBVIOUS
  <1>6. p \in InFlight /\ p.late = q.late /\ p.kind = q.kind /\ p.token = q.token
        /\ p.keys = found /\ p.due = q.due
        /\ p.pc = IF found = {} THEN "answer" ELSE "delete"
    BY <1>4, <1>5 DEF InFlight, Own, Busy
  <1>7. RequestOK(p)
    BY <1>1, <1>2, <1>4, <1>6 DEF RequestOK
  <1>8. request' = [request EXCEPT ![h] = p]
    BY <1>2, <1>3, <1>5 DEF ListSessions, IInv, Typed
  <1> QED
    BY <1>6, <1>7, <1>8, SlotMoves DEF ListSessions

\* Sessions end, by expiry or by a logout: nobody owes them any more.
LEMMA SessionsEnd ==
  ASSUME IInv, NEW gone \in SUBSET Session, NEW slots \in [Requests -> {NoRequest} \cup InFlight],
         request' = Without(slots, gone), clock' \in 0..MaxTime,
         expireAt' \in [Session -> Nat], UNCHANGED tokens,
         ended' \subseteq Session, ended \subseteq ended',
         \A k \in Session : Alive(k)' <=> Alive(k) /\ k \notin gone,
         \A k \in ended' : ~Alive(k)',
         \A g \in Requests : \/ RequestOK(slots[g])
                             \/ RequestOK(IF slots[g] = NoRequest THEN NoRequest
                                          ELSE [slots[g] EXCEPT !.due = @ \ gone])
  PROVE  IInv'
  <1>1. ASSUME NEW g \in Requests
        PROVE  request'[g] \in {NoRequest} \cup InFlight /\ RequestOK(request[g])'
    <2>1. CASE slots[g] = NoRequest
      BY <2>1, FreeSlot DEF Without, RequestOK
    <2>2. CASE slots[g] \in InFlight
      <3>1. PICK q \in InFlight : q = slots[g]
        BY <2>2
      <3>2. PICK p : p = [q EXCEPT !.due = @ \ gone]
        OBVIOUS
      <3>3. request'[g] = p
        BY <3>1, <3>2, FreeSlot DEF Without
      <3>4. p \in InFlight /\ p.late = q.late /\ p.pc = q.pc /\ p.kind = q.kind
            /\ p.token = q.token /\ p.keys = q.keys /\ p.due = q.due \ gone
        BY <3>2 DEF InFlight
      <3>5. RequestOK(q) \/ RequestOK(p)
        BY <3>1, <3>2, FreeSlot
      <3>6. RequestOK(p)
        BY <3>4, <3>5 DEF RequestOK
      <3>7. p.due \subseteq Session /\ p.due \cap gone = {}
        BY <3>4 DEF InFlight
      <3>8. RequestOK(p)'
        BY <3>4, <3>6, <3>7 DEF RequestOK
      <3> QED
        BY <3>3, <3>4, <3>8 DEF RequestOK
    <2> QED
      BY <2>1, <2>2
  <1>2. request' \in [Requests -> {NoRequest} \cup InFlight]
    BY <1>1 DEF Without
  <1> QED
    BY <1>1, <1>2 DEF IInv, Typed

\* Time passes: the sessions that expire are owed by nobody.
LEMMA TickKeeps ==
  ASSUME IInv, Tick
  PROVE  IInv'
  <1>1. PICK gone \in SUBSET Session : gone = {k \in Session : expireAt[k] <= clock + 1}
    OBVIOUS
  <1>2. request' = Without(request, gone) /\ UNCHANGED <<expireAt, tokens, ended>>
        /\ clock' = clock + 1 /\ clock' \in 0..MaxTime
    BY <1>1, SessionsAssumption DEF Tick, IInv, Typed
  <1>3. \A k \in Session : Alive(k)' <=> Alive(k) /\ k \notin gone
    BY <1>1, <1>2 DEF Alive, IInv, Typed
  <1>4. \A k \in ended' : ~Alive(k)'
    BY <1>2, <1>3 DEF IInv, Typed
  <1> QED
    BY <1>2, <1>3, <1>4, SessionsEnd DEF IInv, Typed

\* A logout deletes the key of a session, after which it owes the session no more.
LEMMA DeleteKeeps ==
  ASSUME IInv, NEW h \in Requests, NEW q \in InFlight, q = request[h],
         NEW k \in Own(q.token), NEW pc \in {"delete", "answer"},
         NEW keys \in SUBSET Own(q.token), ~q.late,
         Delete(h, k, pc, keys),
         q.kind = "logout" => pc = "answer" /\ k = KeyOf(q.token),
         q.kind = "logoutAll" => q.due \ {k} \subseteq keys,
         q.kind = "logoutAll" /\ pc = "answer" => keys = {},
         q.kind # "use"
  PROVE  IInv'
  <1>1. PICK p : p = [q EXCEPT !.pc = pc, !.keys = keys]
    OBVIOUS
  <1>2. PICK slots : slots = [request EXCEPT ![h] = p]
    OBVIOUS
  <1>3. p \in InFlight /\ p.late = q.late /\ p.pc = pc /\ p.kind = q.kind
        /\ p.token = q.token /\ p.keys = keys /\ p.due = q.due
    BY <1>1 DEF InFlight, Own, Busy
  <1>4. slots \in [Requests -> {NoRequest} \cup InFlight]
    BY <1>2, <1>3 DEF IInv, Typed
  <1>5. k \in Session
    BY DEF Own
  <1>6. /\ request' = Without(slots, {k}) /\ UNCHANGED <<clock, tokens>>
        /\ expireAt' = [expireAt EXCEPT ![k] = 0] /\ ended' = ended \cup {k}
    BY <1>1, <1>2 DEF Delete, IInv, Typed
  <1>7. \A n \in Session : Alive(n)' <=> Alive(n) /\ n \notin {k}
    BY <1>5, <1>6 DEF Alive, IInv, Typed
  <1>8. ended' \subseteq Session /\ \A n \in ended' : ~Alive(n)'
    BY <1>5, <1>6, <1>7 DEF IInv, Typed
  <1>9. ASSUME NEW g \in Requests
        PROVE  \/ RequestOK(slots[g])
               \/ RequestOK(IF slots[g] = NoRequest THEN NoRequest
                            ELSE [slots[g] EXCEPT !.due = @ \ {k}])
    <2>1. CASE g # h
      BY <1>2, <2>1 DEF IInv, Typed
    <2>2. CASE g = h
      <3>1. slots[g] = p /\ p # NoRequest
        BY <1>2, <1>3, <2>2, FreeSlot DEF IInv, Typed
      <3>2. PICK s : s = [p EXCEPT !.due = @ \ {k}]
        OBVIOUS
      <3>3. s.late = q.late /\ s.pc = pc /\ s.kind = q.kind
            /\ s.token = q.token /\ s.keys = keys /\ s.due = q.due \ {k}
        BY <1>3, <3>2 DEF InFlight
      <3>4. RequestOK(q) /\ q.kind \in {"logout", "logoutAll"}
        BY DEF IInv, InFlight, Kinds
      <3>5. RequestOK(s)
        BY <3>3, <3>4 DEF RequestOK
      <3> QED
        BY <3>1, <3>2, <3>5
    <2> QED
      BY <2>1, <2>2
  <1> QED
    BY <1>4, <1>5, <1>6, <1>7, <1>8, <1>9, SessionsEnd DEF IInv, Typed

\* A logout of one session, and each deletion of a logout from all devices.
LEMMA LogoutKeeps ==
  ASSUME IInv, NEW h \in Requests, Logout(h) \/ DeleteNext(h)
  PROVE  IInv'
  <1>1. request[h].pc \in {"serve", "delete"} /\ request[h].pc \in Busy
    BY DEF Logout, DeleteNext, At, Busy
  <1>2. PICK q \in InFlight : q = request[h] /\ RequestOK(q) /\ ~q.late
    BY <1>1, SlotFacts DEF RequestOK
  <1>3. CASE Logout(h)
    <2>1. q.kind = "logout" /\ KeyOf(q.token) \in Own(q.token)
      BY <1>2, <1>3, KeysAreOwn DEF Logout, InFlight
    <2> QED
      BY <1>2, <1>3, <2>1, DeleteKeeps DEF Logout
  <1>4. CASE DeleteNext(h)
    <2>1. PICK k \in q.keys :
             Delete(h, k, IF q.keys \ {k} = {} THEN "answer" ELSE "delete", q.keys \ {k})
      BY <1>2, <1>4 DEF DeleteNext
    <2>2. q.kind = "logoutAll" /\ q.due \subseteq q.keys /\ q.keys \subseteq Own(q.token)
      BY <1>2, <1>4 DEF DeleteNext, At, RequestOK, InFlight, Kinds
    <2>3. PICK pc \in {"delete", "answer"} :
             pc = IF q.keys \ {k} = {} THEN "answer" ELSE "delete"
      OBVIOUS
    <2> QED
      BY <1>2, <2>1, <2>2, <2>3, DeleteKeeps
  <1> QED
    BY <1>3, <1>4

\* Every step of a request.
LEMMA StepKeeps ==
  ASSUME IInv, NEW h \in Requests, Step(h)
  PROVE  IInv'
  BY CheckTtlKeeps, ExtendKeeps, ListSessionsKeeps, LogoutKeeps, SlotFrees
     DEF Step, Serve, Answer, RedisError

\* The invariant is inductive, and an invariant of Sessions.
THEOREM Invariance == Spec => []IInv
  <1>1. Init => IInv
    BY SessionsAssumption, FreeSlot DEF Init, IInv, Typed, RequestOK
  <1>2. IInv /\ [Next]_vars => IInv'
    <2> SUFFICES ASSUME IInv, [Next]_vars PROVE IInv'
      OBVIOUS
    <2>1. CASE UNCHANGED vars
      BY <2>1 DEF vars, IInv, Typed, RequestOK, Alive
    <2> QED
      BY <2>1, LoginKeeps, ArriveKeeps, StepKeeps, TickKeeps DEF Next
  <1> QED
    BY <1>1, <1>2, PTL DEF Spec

\* Every variable keeps its type, and a request handles no session but its user's.
THEOREM TypeCorrect == Spec => []TypeOK
  <1>1. IInv => TypeOK
    <2> SUFFICES ASSUME IInv, NEW h \in Requests, request[h].pc # "idle"
                 PROVE  /\ request[h].pc \in {"ttl", "extend", "serve", "delete", "answer"}
                        /\ request[h].kind \in Kinds
                        /\ request[h].token \in tokens
                        /\ request[h].keys \cup request[h].due
                             \subseteq {k \in Session : k[1] = request[h].token.user}
      BY DEF IInv, Typed, TypeOK, At
    <2>1. request[h] \in InFlight
      BY FreeSlot DEF IInv, Typed
    <2> QED
      BY <2>1 DEF IInv, RequestOK, InFlight, Busy, Own
  <1> QED
    BY <1>1, Invariance, PTL

\* A logout that answers has ended the sessions it was asked to end, although it
\* lists and deletes them one command at a time (logout, logoutFromAllDevices).
THEOREM LogoutEndsSessions == Spec => []LogoutEnds
  <1>1. IInv => LogoutEnds
    BY SlotFacts DEF IInv, LogoutEnds, RequestOK, At, Busy
  <1> QED
    BY <1>1, Invariance, PTL

\* A request with a session that was logged out goes no further than the TTL check
\* (ExtractToken).
THEOREM RevokedRefused == Spec => []RevokedIsRefused
  <1>1. IInv => RevokedIsRefused
    <2> SUFFICES ASSUME IInv, NEW h \in Requests, request[h].pc # "idle", request[h].late
                 PROVE  request[h].pc = "ttl"
      BY DEF RevokedIsRefused, At
    <2>1. request[h] \in InFlight
      BY FreeSlot DEF IInv, Typed
    <2> QED
      BY <2>1 DEF IInv, RequestOK
  <1> QED
    BY <1>1, Invariance, PTL

\* Nothing but a login revives a session: not the extension of a session that was
\* logged out, or expired, after its TTL was read (ExtractToken, login).
THEOREM LoginsOnly == Spec => NoResurrection
  <1>1. ASSUME IInv, [Next]_vars
        PROVE  \A k \in Session : ~Alive(k) /\ Alive(k)' =>
                  k[2] = clock /\ \E rememberMe \in BOOLEAN : Login(k[1], rememberMe)
    <2> SUFFICES ASSUME NEW k \in Session, ~Alive(k), Alive(k)'
                 PROVE  k[2] = clock /\ \E rememberMe \in BOOLEAN : Login(k[1], rememberMe)
      OBVIOUS
    <2>1. ASSUME NEW u \in Users, NEW rememberMe \in BOOLEAN, Login(u, rememberMe)
          PROVE  k = <<u, clock>>
      BY <1>1, <2>1 DEF Login, Alive, IInv, Typed
    <2>2. UNCHANGED <<clock, expireAt>> => FALSE
      BY DEF Alive
    <2>3. ASSUME NEW h \in Requests, Step(h) PROVE FALSE
      <3>1. CASE Extend(h)
        BY <1>1, <3>1 DEF Extend, Alive, IInv, Typed
      <3>2. CASE Logout(h) \/ DeleteNext(h)
        <4>1. PICK n : expireAt' = [expireAt EXCEPT ![n] = 0] /\ UNCHANGED clock
          BY <3>2 DEF Logout, DeleteNext, Delete
        <4> QED
          BY <1>1, <4>1 DEF Alive, IInv, Typed
      <3>3. CASE CheckTtl(h) \/ Serve(h) \/ ListSessions(h) \/ Answer(h) \/ RedisError(h)
        BY <2>2, <3>3 DEF CheckTtl, Serve, ListSessions, Answer, RedisError
      <3> QED
        BY <2>3, <3>1, <3>2, <3>3 DEF Step
    <2>4. Tick => FALSE
      BY <1>1 DEF Tick, Alive, IInv, Typed
    <2>5. \A h \in Requests, token \in tokens, kind \in Kinds : Arrive(h, token, kind) => FALSE
      BY <2>2 DEF Arrive
    <2>6. PICK u \in Users, rememberMe \in BOOLEAN : Login(u, rememberMe)
      BY <1>1, <2>2, <2>3, <2>4, <2>5 DEF Next, vars
    <2> QED
      BY <2>1, <2>6
  <1> QED
    BY <1>1, Invariance, PTL DEF Spec, NoResurrection
===============================================================================
