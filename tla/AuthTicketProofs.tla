-------------------------- MODULE AuthTicketProofs --------------------------
(***************************************************************************)
(* Theorems about AuthTicket, and AuthRecovery, for every set of calls and *)
(* tickets and every value of the four durations that leaves the refresh   *)
(* margin.                                                                 *)
(***************************************************************************)
EXTENDS AuthRecovery, SequenceTheorems, TLAPS

(* A cancelled waiter leaves the queue: one place fewer, the order of the  *)
(* others kept.                                                            *)
LEMMA WithoutProperties ==
    ASSUME NEW q \in Seq(Calls), NEW c, \E i \in 1..Len(q) : q[i] = c
    PROVE  /\ Without(q, c) \in Seq(Calls)
           /\ \E at \in 1..Len(q) :
                 /\ q[at] = c
                 /\ Len(Without(q, c)) = Len(q) - 1
                 /\ \A i \in 1..(Len(q) - 1) :
                       Without(q, c)[i] = IF i < at THEN q[i] ELSE q[i + 1]
<1> DEFINE at == CHOOSE i \in 1..Len(q) : q[i] = c
<1>1. at \in 1..Len(q) /\ q[at] = c
  OBVIOUS
<1> HIDE DEF at
<1> DEFINE a == SubSeq(q, 1, at - 1)
           b == SubSeq(q, at + 1, Len(q))
<1>2. Len(q) \in Nat /\ \A i \in 1..Len(q) : q[i] \in Calls
  BY LenProperties, ElementOfSeq
<1>3. /\ a \in Seq(Calls) /\ Len(a) = at - 1
      /\ \A i \in 1..(at - 1) : a[i] = q[i]
  BY <1>1, <1>2
<1>4. /\ b \in Seq(Calls) /\ Len(b) = Len(q) - at
      /\ \A i \in 1..(Len(q) - at) : b[i] = q[at + i]
  BY <1>1, <1>2
<1> HIDE DEF a, b
<1>5. /\ a \o b \in Seq(Calls)
      /\ Len(a \o b) = Len(a) + Len(b)
      /\ \A i \in 1..(Len(a) + Len(b)) :
            (a \o b)[i] = IF i <= Len(a) THEN a[i] ELSE b[i - Len(a)]
  BY <1>3, <1>4, ConcatProperties
<1>6. Without(q, c) = a \o b
  BY DEF Without, a, b, at
<1>7. Len(a \o b) = Len(q) - 1
  BY <1>1, <1>2, <1>3, <1>4, <1>5
<1>8. ASSUME NEW i \in 1..(Len(q) - 1)
      PROVE  (a \o b)[i] = IF i < at THEN q[i] ELSE q[i + 1]
  <2>1. CASE i < at
    BY <2>1, <1>1, <1>2, <1>3, <1>4, <1>5
  <2>2. CASE ~(i < at)
    <3>1. /\ (a \o b)[i] = b[i - Len(a)]
          /\ i - Len(a) \in 1..(Len(q) - at)
      BY <2>2, <1>1, <1>2, <1>3, <1>4, <1>5
    <3>2. b[i - Len(a)] = q[at + (i - Len(a))]
      BY <3>1, <1>4
    <3>3. at + (i - Len(a)) = i + 1
      BY <1>1, <1>2, <1>3
    <3> QED BY <2>2, <3>1, <3>2, <3>3
  <2> QED BY <2>1, <2>2
<1> QED BY <1>1, <1>5, <1>6, <1>7, <1>8

-----------------------------------------------------------------------------
(* The inductive invariant.                                                *)

(* What a call holds at each stage of its run.                             *)
CallShape ==
    \A c \in Calls :
       /\ pc[c] \in {"idle", "queued"} => held[c] = NONE
       /\ pc[c] # "sent" => sentCsrf[c] = NONE
       /\ pc[c] = "sent" =>
             sentCsrf[c] = IF c \in Writers THEN TokenOf(held[c]) ELSE NONE

CachedPair == ticket # NONE => csrf = TokenOf(ticket)

(* Every waiting call has exactly one place in the lock's queue, and nobody*)
(* else has one: so a call that gets the lock was waiting for it.          *)
QueueHoldsWaiters ==
    /\ \A c \in Calls :
          pc[c] = "queued" <=> \E i \in 1..Len(queue) : queue[i] = c
    /\ \A i, j \in 1..Len(queue) : queue[i] = queue[j] => i = j

(* How much of its life a ticket still has at the server, while it is      *)
(* cached, being fetched, and on its way with a request.                   *)
Margins ==
    /\ Usable /\ ticket \notin revoked =>
          serverLife[ticket] >= expiresIn + REQUEST_TIMEOUT
    /\ \A c \in Calls :
          held[c] # NONE /\ held[c] \notin revoked =>
             /\ pc[c] = "login" => serverLife[held[c]] + age[c] >= SERVER_LIFETIME
             /\ pc[c] = "sent" => serverLife[held[c]] + age[c] > REQUEST_TIMEOUT

(* Nothing makes the login under way superfluous.                          *)
LoginNeeded ==
    \A c \in Calls :
       pc[c] = "login" => ~Usable /\ sinceFailure = AUTH_RETRY_COOLDOWN

CooldownClock == retryIn + sinceFailure >= AUTH_RETRY_COOLDOWN

IInv ==
    /\ TypeOK
    /\ LockHeldByLogin
    /\ QueueHoldsWaiters
    /\ CallShape
    /\ CachedPair
    /\ Margins
    /\ LoginNeeded
    /\ CooldownClock

(* A client starts with no ticket, no cooldown and nobody at its lock.     *)
LEMMA InitIInv == Init => IInv
  BY AuthAssumption, RefreshMargin, EmptySeq
  DEF Init, IInv, TypeOK, LockHeldByLogin, QueueHoldsWaiters, CallShape,
      CachedPair, Margins, LoginNeeded, CooldownClock, Usable, Replies,
      Results, AuthErrors

-----------------------------------------------------------------------------
(* Every step preserves the invariant.                                     *)

(* The typing of what Finish and Send assign.                              *)
LEMMA FinishTyped ==
    ASSUME TypeOK, NEW c \in Calls, NEW r \in Results, Finish(c, r)
    PROVE  /\ pc' \in [Calls -> {"idle", "queued", "login", "sent"}]
           /\ held' \in [Calls -> Tickets \union {NONE}]
           /\ sentCsrf' \in [Calls -> Tickets \union {NONE}]
           /\ age' \in [Calls -> 0..REQUEST_TIMEOUT]
           /\ reply' \in [Calls -> Replies]
           /\ result' \in [Calls -> Results]
  BY AuthAssumption DEF TypeOK, Finish, Replies

(* The same for the request that goes out.                                 *)
LEMMA SendTyped ==
    ASSUME TypeOK, NEW c \in Calls,
           NEW t \in Tickets \union {NONE}, NEW token \in Tickets \union {NONE},
           Send(c, t, token)
    PROVE  /\ pc' \in [Calls -> {"idle", "queued", "login", "sent"}]
           /\ held' \in [Calls -> Tickets \union {NONE}]
           /\ sentCsrf' \in [Calls -> Tickets \union {NONE}]
           /\ age' \in [Calls -> 0..REQUEST_TIMEOUT]
           /\ reply' \in [Calls -> Replies]
           /\ result' \in [Calls -> Results]
  BY AuthAssumption DEF TypeOK, Send, Replies, Results

(* What a caller sees of a failure is one of the results.                  *)
LEMMA OutcomeTyped ==
    ASSUME NEW c, NEW failure \in Failures
    PROVE  Outcome(c, failure) \in Results
  BY DEF Outcome, Failures, Results, AuthErrors

(* Nothing is forgotten of a ticket that somebody holds, when another is   *)
(* issued and when time passes.                                            *)
LEMMA IssueSparesTheHeld ==
    ASSUME TypeOK, NEW c \in Calls, NEW w \in BOOLEAN, IssueTicket(c, w),
           NEW t \in Tickets, ~Fresh(t)
    PROVE  /\ t \in tokenless' <=> t \in tokenless
           /\ t \in revoked' <=> t \in revoked
           /\ serverLife'[t] = serverLife[t]
<1>1. PICK u \in Tickets :
         /\ Fresh(u)
         /\ serverLife' = [v \in Tickets |-> IF v = u THEN SERVER_LIFETIME ELSE LifeOf(v)]
         /\ revoked' = StillHeld(revoked)
         /\ tokenless' = StillHeld(tokenless) \union {v \in {u} : ~w}
  BY DEF IssueTicket
<1>2. t # u
  BY <1>1
<1> QED BY <1>1, <1>2 DEF StillHeld, LifeOf

LEMMA TimeSparesTheHeld ==
    ASSUME TypeOK, Tick, NEW t \in Tickets, ~Fresh(t)
    PROVE  /\ t \in tokenless' <=> t \in tokenless
           /\ t \in revoked' <=> t \in revoked
           /\ serverLife'[t] = Less(serverLife[t])
  BY DEF Tick, StillHeld, LifeOf

(* Every step keeps every variable in its type.                            *)
LEMMA TypeStep ==
    ASSUME TypeOK, QueueHoldsWaiters, [Next]_vars
    PROVE  TypeOK'
<1> USE AuthAssumption
<1>1. ASSUME NEW c \in Calls, Begin(c)
      PROVE  TypeOK'
  <2>1. CASE mode = "ticket"
    <3>1. /\ queue' = Append(queue, c)
          /\ pc' = [pc EXCEPT ![c] = "queued"]
          /\ result' = [result EXCEPT ![c] = "none"]
          /\ UNCHANGED <<held, sentCsrf, age, reply>>
          /\ UNCHANGED <<cacheVars, holder, serverVars, sinceFailure>>
      BY <1>1, <2>1 DEF Begin
    <3>2. queue' \in Seq(Calls)
      BY <3>1 DEF TypeOK
    <3> QED BY <3>1, <3>2 DEF TypeOK, Results, cacheVars, serverVars
  <2>2. CASE mode = "token"
    BY <1>1, <2>2, SendTyped DEF TypeOK, Begin, cacheVars, serverVars
  <2>3. CASE mode = "incomplete"
    BY <1>1, <2>3, FinishTyped, OutcomeTyped
    DEF TypeOK, Begin, Failures, AuthErrors, cacheVars, serverVars
  <2> QED BY <1>1, <2>1, <2>2, <2>3 DEF Begin
<1>2. ASSUME NEW c \in Calls, UseCached(c)
      PROVE  TypeOK'
  <2>1. Tail(queue) \in Seq(Calls)
    BY <1>2 DEF UseCached, First, TypeOK
  <2> QED BY <1>2, <2>1, SendTyped
          DEF TypeOK, UseCached, cacheVars, serverVars
<1>3. ASSUME NEW c \in Calls, RefuseInCooldown(c)
      PROVE  TypeOK'
  <2>1. Tail(queue) \in Seq(Calls)
    BY <1>3 DEF RefuseInCooldown, First, TypeOK
  <2>2. Outcome(c, authError) \in Results
    BY OutcomeTyped DEF TypeOK, Failures
  <2> QED BY <1>3, <2>1, <2>2, FinishTyped
          DEF TypeOK, RefuseInCooldown, cacheVars, serverVars
<1>4. ASSUME NEW c \in Calls, StartLogin(c)
      PROVE  TypeOK'
  <2>1. Tail(queue) \in Seq(Calls)
    BY <1>4 DEF StartLogin, First, TypeOK
  <2> QED BY <1>4, <2>1 DEF TypeOK, StartLogin, cacheVars, serverVars
<1>5. ASSUME NEW c \in Calls, LoginOk(c)
      PROVE  TypeOK'
  <2>1. held[c] \in Tickets \union {NONE}
    BY DEF TypeOK
  <2> QED BY <1>5, <2>1, SendTyped DEF TypeOK, LoginOk, TokenOf, serverVars
<1>6. ASSUME NEW c \in Calls, NEW failure \in Failures, LoginFail(c, failure)
      PROVE  TypeOK'
  BY <1>6, FinishTyped, OutcomeTyped
  DEF TypeOK, LoginFail, AuthErrors, serverVars
<1>7. ASSUME NEW c \in Calls, Receive(c)
      PROVE  TypeOK'
  <2>1. PICK r \in Results : Finish(c, r)
    BY <1>7, OutcomeTyped DEF Receive, Results, Failures, AuthErrors
  <2>2. ticket' \in Tickets \union {NONE}
    BY <1>7 DEF Receive, TypeOK
  <2> QED BY <1>7, <2>1, <2>2, FinishTyped
          DEF TypeOK, Receive, lockVars, serverVars
<1>8. ASSUME NEW c \in Calls, NEW failure \in {"Transport", "Other"},
             RequestFail(c, failure)
      PROVE  TypeOK'
  BY <1>8, FinishTyped, OutcomeTyped
  DEF TypeOK, RequestFail, Failures, cacheVars, lockVars, serverVars
<1>9. ASSUME NEW c \in Calls, Cancel(c)
      PROVE  TypeOK'
  <2>1. queue' \in Seq(Calls)
    BY <1>9, WithoutProperties DEF Cancel, TypeOK, QueueHoldsWaiters
  <2> QED BY <1>9, <2>1, FinishTyped
          DEF TypeOK, Cancel, Results, cacheVars, serverVars
<1>10. ASSUME NEW c \in Calls, NEW w \in BOOLEAN, IssueTicket(c, w)
       PROVE  TypeOK'
  <2>1. StillHeld(tokenless) \subseteq Tickets /\ StillHeld(revoked) \subseteq Tickets
    BY DEF StillHeld, TypeOK
  <2>2. \A u \in Tickets : LifeOf(u) \in 0..SERVER_LIFETIME
    BY DEF LifeOf, TypeOK
  <2> QED BY <1>10, <2>1, <2>2 DEF TypeOK, IssueTicket, cacheVars, lockVars
<1>11. ASSUME NEW c \in Calls, NEW status \in Replies, Answer(c, status)
       PROVE  TypeOK'
  BY <1>11 DEF TypeOK, Answer, cacheVars, lockVars, serverVars
<1>12. ASSUME NEW t \in Tickets, Revoke(t)
       PROVE  TypeOK'
  BY <1>12 DEF TypeOK, Revoke, cacheVars, lockVars, callVars
<1>13. CASE Tick
  <2>1. StillHeld(tokenless) \subseteq Tickets /\ StillHeld(revoked) \subseteq Tickets
    BY DEF StillHeld, TypeOK
  <2>2. \A u \in Tickets : Less(LifeOf(u)) \in 0..SERVER_LIFETIME
    BY DEF LifeOf, Less, TypeOK
  <2> QED BY <1>13, <2>1, <2>2 DEF TypeOK, Tick, OnTheWire, Less, lockVars
<1>14. CASE UNCHANGED vars
  BY <1>14 DEF TypeOK, vars, cacheVars, lockVars, callVars, serverVars
<1> QED
  BY <1>1, <1>2, <1>3, <1>4, <1>5, <1>6, <1>7, <1>8, <1>9, <1>10, <1>11,
     <1>12, <1>13, <1>14 DEF Next, CallStep, TakeLock

-----------------------------------------------------------------------------
(* One lemma per part of the invariant.                                    *)

(* The lock stays with the call that logs in.                              *)
LEMMA LockStep ==
    ASSUME TypeOK, LockHeldByLogin, [Next]_vars
    PROVE  LockHeldByLogin'
<1> USE AuthAssumption DEF TypeOK, LockHeldByLogin, Finish, Send, lockVars, callVars
<1>1. ASSUME NEW c \in Calls, Begin(c)
      PROVE  LockHeldByLogin'
  BY <1>1 DEF Begin
<1>2. ASSUME NEW c \in Calls, UseCached(c)
      PROVE  LockHeldByLogin'
  BY <1>2 DEF UseCached
<1>3. ASSUME NEW c \in Calls, RefuseInCooldown(c)
      PROVE  LockHeldByLogin'
  BY <1>3 DEF RefuseInCooldown
<1>4. ASSUME NEW c \in Calls, StartLogin(c)
      PROVE  LockHeldByLogin'
  BY <1>4 DEF StartLogin
<1>5. ASSUME NEW c \in Calls, LoginOk(c)
      PROVE  LockHeldByLogin'
  BY <1>5 DEF LoginOk
<1>6. ASSUME NEW c \in Calls, NEW failure \in Failures, LoginFail(c, failure)
      PROVE  LockHeldByLogin'
  BY <1>6 DEF LoginFail
<1>7. ASSUME NEW c \in Calls, Receive(c)
      PROVE  LockHeldByLogin'
  BY <1>7 DEF Receive
<1>8. ASSUME NEW c \in Calls,
             NEW failure \in {"Transport", "Other"}, RequestFail(c, failure)
      PROVE  LockHeldByLogin'
  BY <1>8 DEF RequestFail
<1>9. ASSUME NEW c \in Calls, Cancel(c)
      PROVE  LockHeldByLogin'
  BY <1>9 DEF Cancel
<1>10. ASSUME NEW c \in Calls, NEW w \in BOOLEAN, IssueTicket(c, w)
      PROVE  LockHeldByLogin'
  BY <1>10 DEF IssueTicket
<1>11. ASSUME NEW c \in Calls, NEW status \in Replies, Answer(c, status)
      PROVE  LockHeldByLogin'
  BY <1>11 DEF Answer
<1>12. ASSUME NEW t \in Tickets, Revoke(t)
      PROVE  LockHeldByLogin'
  BY <1>12 DEF Revoke
<1>13. CASE Tick
  BY <1>13 DEF Tick
<1>14. CASE UNCHANGED vars
  BY <1>14 DEF vars, callVars
<1> QED
  BY <1>1, <1>2, <1>3, <1>4, <1>5, <1>6, <1>7,
     <1>8, <1>9, <1>10, <1>11, <1>12, <1>13, <1>14
  DEF Next, CallStep, TakeLock

(* A call keeps the shape of its stage.                                    *)
LEMMA ShapeStep ==
    ASSUME TypeOK, CallShape, CachedPair, [Next]_vars
    PROVE  CallShape'
<1> USE AuthAssumption
    DEF TypeOK, CallShape, CachedPair, TokenOf, Finish, Send, cacheVars, callVars, serverVars
<1>1. ASSUME NEW c \in Calls, Begin(c)
      PROVE  CallShape'
  BY <1>1 DEF Begin
<1>2. ASSUME NEW c \in Calls, UseCached(c)
      PROVE  CallShape'
  BY <1>2 DEF UseCached, Usable
<1>3. ASSUME NEW c \in Calls, RefuseInCooldown(c)
      PROVE  CallShape'
  BY <1>3 DEF RefuseInCooldown
<1>4. ASSUME NEW c \in Calls, StartLogin(c)
      PROVE  CallShape'
  BY <1>4 DEF StartLogin, First
<1>5. ASSUME NEW c \in Calls, LoginOk(c)
      PROVE  CallShape'
  BY <1>5 DEF LoginOk
<1>6. ASSUME NEW c \in Calls, NEW failure \in Failures, LoginFail(c, failure)
      PROVE  CallShape'
  BY <1>6 DEF LoginFail
<1>7. ASSUME NEW c \in Calls, Receive(c)
      PROVE  CallShape'
  <2>1. PICK r : Finish(c, r)
    BY <1>7 DEF Receive
  <2>2. UNCHANGED tokenless
    BY <1>7 DEF Receive
  <2> QED BY <2>1, <2>2
<1>8. ASSUME NEW c \in Calls,
             NEW failure \in {"Transport", "Other"}, RequestFail(c, failure)
      PROVE  CallShape'
  BY <1>8 DEF RequestFail
<1>9. ASSUME NEW c \in Calls, Cancel(c)
      PROVE  CallShape'
  BY <1>9 DEF Cancel
<1>10. ASSUME NEW c \in Calls, NEW w \in BOOLEAN, IssueTicket(c, w)
      PROVE  CallShape'
  <2>1. \A d \in Calls : held[d] # NONE => ~Fresh(held[d])
    BY DEF Fresh
  <2>2. \A d \in Calls : held[d] # NONE =>
           (held[d] \in tokenless' <=> held[d] \in tokenless)
    BY <1>10, <2>1, IssueSparesTheHeld
  <2>3. \A d \in Calls : pc[d] = "sent" => held'[d] = held[d]
    BY <1>10 DEF IssueTicket
  <2>4. NONE \notin tokenless /\ NONE \notin tokenless'
    BY <1>10 DEF IssueTicket, StillHeld
  <2> QED BY <1>10, <2>2, <2>3, <2>4 DEF IssueTicket
<1>11. ASSUME NEW c \in Calls, NEW status \in Replies, Answer(c, status)
      PROVE  CallShape'
  BY <1>11 DEF Answer
<1>12. ASSUME NEW t \in Tickets, Revoke(t)
      PROVE  CallShape'
  BY <1>12 DEF Revoke
<1>13. CASE Tick
  <2>1. \A d \in Calls : held[d] # NONE => ~Fresh(held[d])
    BY DEF Fresh
  <2>2. \A d \in Calls : held[d] # NONE =>
           (held[d] \in tokenless' <=> held[d] \in tokenless)
    BY <1>13, <2>1, TimeSparesTheHeld
  <2>3. NONE \notin tokenless /\ NONE \notin tokenless'
    BY <1>13 DEF Tick, StillHeld
  <2> QED BY <1>13, <2>2, <2>3 DEF Tick
<1>14. CASE UNCHANGED vars
  BY <1>14 DEF vars, callVars
<1> QED
  BY <1>1, <1>2, <1>3, <1>4, <1>5, <1>6, <1>7,
     <1>8, <1>9, <1>10, <1>11, <1>12, <1>13, <1>14
  DEF Next, CallStep, TakeLock

(* The cached CSRF token stays that of the cached ticket.                  *)
LEMMA PairStep ==
    ASSUME TypeOK, CachedPair, [Next]_vars
    PROVE  CachedPair'
<1> USE AuthAssumption DEF TypeOK, CachedPair, TokenOf, cacheVars, serverVars
<1>1. ASSUME NEW c \in Calls, Begin(c)
      PROVE  CachedPair'
  BY <1>1 DEF Begin
<1>2. ASSUME NEW c \in Calls, UseCached(c)
      PROVE  CachedPair'
  BY <1>2 DEF UseCached
<1>3. ASSUME NEW c \in Calls, RefuseInCooldown(c)
      PROVE  CachedPair'
  BY <1>3 DEF RefuseInCooldown
<1>4. ASSUME NEW c \in Calls, StartLogin(c)
      PROVE  CachedPair'
  BY <1>4 DEF StartLogin
<1>5. ASSUME NEW c \in Calls, LoginOk(c)
      PROVE  CachedPair'
  BY <1>5 DEF LoginOk
<1>6. ASSUME NEW c \in Calls, NEW failure \in Failures, LoginFail(c, failure)
      PROVE  CachedPair'
  BY <1>6 DEF LoginFail
<1>7. ASSUME NEW c \in Calls, Receive(c)
      PROVE  CachedPair'
  BY <1>7 DEF Receive
<1>8. ASSUME NEW c \in Calls,
             NEW failure \in {"Transport", "Other"}, RequestFail(c, failure)
      PROVE  CachedPair'
  BY <1>8 DEF RequestFail
<1>9. ASSUME NEW c \in Calls, Cancel(c)
      PROVE  CachedPair'
  BY <1>9 DEF Cancel
<1>10. ASSUME NEW c \in Calls, NEW w \in BOOLEAN, IssueTicket(c, w)
      PROVE  CachedPair'
  <2>1. ticket # NONE => (ticket \in tokenless' <=> ticket \in tokenless)
    BY <1>10, IssueSparesTheHeld DEF Fresh
  <2> QED BY <1>10, <2>1 DEF IssueTicket
<1>11. ASSUME NEW c \in Calls, NEW status \in Replies, Answer(c, status)
      PROVE  CachedPair'
  BY <1>11 DEF Answer
<1>12. ASSUME NEW t \in Tickets, Revoke(t)
      PROVE  CachedPair'
  BY <1>12 DEF Revoke
<1>13. CASE Tick
  <2>1. ticket # NONE => (ticket \in tokenless' <=> ticket \in tokenless)
    BY <1>13, TimeSparesTheHeld DEF Fresh
  <2> QED BY <1>13, <2>1 DEF Tick
<1>14. CASE UNCHANGED vars
  BY <1>14 DEF vars, callVars
<1> QED
  BY <1>1, <1>2, <1>3, <1>4, <1>5, <1>6, <1>7,
     <1>8, <1>9, <1>10, <1>11, <1>12, <1>13, <1>14
  DEF Next, CallStep, TakeLock

(* The cooldown runs no faster than the clock.                             *)
LEMMA CooldownStep ==
    ASSUME TypeOK, LockHeldByLogin, LoginNeeded, CooldownClock, [Next]_vars
    PROVE  CooldownClock'
<1> USE AuthAssumption DEF TypeOK, CooldownClock, LoginNeeded, cacheVars
<1>1. ASSUME NEW c \in Calls, Begin(c)
      PROVE  CooldownClock'
  BY <1>1 DEF Begin
<1>2. ASSUME NEW c \in Calls, UseCached(c)
      PROVE  CooldownClock'
  BY <1>2 DEF UseCached
<1>3. ASSUME NEW c \in Calls, RefuseInCooldown(c)
      PROVE  CooldownClock'
  BY <1>3 DEF RefuseInCooldown
<1>4. ASSUME NEW c \in Calls, StartLogin(c)
      PROVE  CooldownClock'
  BY <1>4 DEF StartLogin
<1>5. ASSUME NEW c \in Calls, LoginOk(c)
      PROVE  CooldownClock'
  BY <1>5 DEF LoginOk
<1>6. ASSUME NEW c \in Calls, NEW failure \in Failures, LoginFail(c, failure)
      PROVE  CooldownClock'
  BY <1>6 DEF LoginFail
<1>7. ASSUME NEW c \in Calls, Receive(c)
      PROVE  CooldownClock'
  BY <1>7 DEF Receive
<1>8. ASSUME NEW c \in Calls,
             NEW failure \in {"Transport", "Other"}, RequestFail(c, failure)
      PROVE  CooldownClock'
  BY <1>8 DEF RequestFail
<1>9. ASSUME NEW c \in Calls, Cancel(c)
      PROVE  CooldownClock'
  BY <1>9 DEF Cancel
<1>10. ASSUME NEW c \in Calls, NEW w \in BOOLEAN, IssueTicket(c, w)
      PROVE  CooldownClock'
  BY <1>10 DEF IssueTicket
<1>11. ASSUME NEW c \in Calls, NEW status \in Replies, Answer(c, status)
      PROVE  CooldownClock'
  BY <1>11 DEF Answer
<1>12. ASSUME NEW t \in Tickets, Revoke(t)
      PROVE  CooldownClock'
  BY <1>12 DEF Revoke
<1>13. CASE Tick
  BY <1>13 DEF Tick, Less
<1>14. CASE UNCHANGED vars
  BY <1>14 DEF vars, callVars
<1> QED
  BY <1>1, <1>2, <1>3, <1>4, <1>5, <1>6, <1>7,
     <1>8, <1>9, <1>10, <1>11, <1>12, <1>13, <1>14
  DEF Next, CallStep, TakeLock

(* A login under way stays needed.                                         *)
LEMMA NeededStep ==
    ASSUME TypeOK, LockHeldByLogin, LoginNeeded, CooldownClock, [Next]_vars
    PROVE  LoginNeeded'
<1> USE AuthAssumption DEF TypeOK, LockHeldByLogin, CooldownClock, LoginNeeded, Usable, Finish, Send, cacheVars, callVars
<1>1. ASSUME NEW c \in Calls, Begin(c)
      PROVE  LoginNeeded'
  BY <1>1 DEF Begin
<1>2. ASSUME NEW c \in Calls, UseCached(c)
      PROVE  LoginNeeded'
  BY <1>2 DEF UseCached
<1>3. ASSUME NEW c \in Calls, RefuseInCooldown(c)
      PROVE  LoginNeeded'
  BY <1>3 DEF RefuseInCooldown
<1>4. ASSUME NEW c \in Calls, StartLogin(c)
      PROVE  LoginNeeded'
  BY <1>4 DEF StartLogin
<1>5. ASSUME NEW c \in Calls, LoginOk(c)
      PROVE  LoginNeeded'
  BY <1>5 DEF LoginOk
<1>6. ASSUME NEW c \in Calls, NEW failure \in Failures, LoginFail(c, failure)
      PROVE  LoginNeeded'
  BY <1>6 DEF LoginFail
<1>7. ASSUME NEW c \in Calls, Receive(c)
      PROVE  LoginNeeded'
  BY <1>7 DEF Receive
<1>8. ASSUME NEW c \in Calls,
             NEW failure \in {"Transport", "Other"}, RequestFail(c, failure)
      PROVE  LoginNeeded'
  BY <1>8 DEF RequestFail
<1>9. ASSUME NEW c \in Calls, Cancel(c)
      PROVE  LoginNeeded'
  BY <1>9 DEF Cancel
<1>10. ASSUME NEW c \in Calls, NEW w \in BOOLEAN, IssueTicket(c, w)
      PROVE  LoginNeeded'
  BY <1>10 DEF IssueTicket
<1>11. ASSUME NEW c \in Calls, NEW status \in Replies, Answer(c, status)
      PROVE  LoginNeeded'
  BY <1>11 DEF Answer
<1>12. ASSUME NEW t \in Tickets, Revoke(t)
      PROVE  LoginNeeded'
  BY <1>12 DEF Revoke
<1>13. CASE Tick
  BY <1>13 DEF Tick, Less
<1>14. CASE UNCHANGED vars
  BY <1>14 DEF vars, callVars
<1> QED
  BY <1>1, <1>2, <1>3, <1>4, <1>5, <1>6, <1>7,
     <1>8, <1>9, <1>10, <1>11, <1>12, <1>13, <1>14
  DEF Next, CallStep, TakeLock

(* No ticket loses its margin.                                             *)
LEMMA MarginStep ==
    ASSUME IInv, [Next]_vars
    PROVE  Margins'
<1> USE AuthAssumption, RefreshMargin
       DEF IInv, TypeOK, LockHeldByLogin, CallShape, Margins, LoginNeeded, Usable, Finish, Send,
           cacheVars, serverVars, callVars
<1>1. ASSUME NEW c \in Calls, Begin(c)
      PROVE  Margins'
  <2>1. /\ UNCHANGED <<ticket, expiresIn, revoked, serverLife>>
        /\ \A d \in Calls : d # c => UNCHANGED <<pc[d], held[d], age[d]>>
        /\ held'[c] = NONE
    BY <1>1 DEF Begin
  <2> QED BY <2>1
<1>2. ASSUME NEW c \in Calls, UseCached(c)
      PROVE  Margins'
  BY <1>2 DEF UseCached
<1>3. ASSUME NEW c \in Calls, RefuseInCooldown(c)
      PROVE  Margins'
  BY <1>3 DEF RefuseInCooldown
<1>4. ASSUME NEW c \in Calls, StartLogin(c)
      PROVE  Margins'
  BY <1>4 DEF StartLogin, First
<1>5. ASSUME NEW c \in Calls, LoginOk(c)
      PROVE  Margins'
  BY <1>5 DEF LoginOk
<1>6. ASSUME NEW c \in Calls, NEW failure \in Failures, LoginFail(c, failure)
      PROVE  Margins'
  BY <1>6 DEF LoginFail
<1>7. ASSUME NEW c \in Calls, Receive(c)
      PROVE  Margins'
  BY <1>7 DEF Receive
<1>8. ASSUME NEW c \in Calls,
             NEW failure \in {"Transport", "Other"}, RequestFail(c, failure)
      PROVE  Margins'
  BY <1>8 DEF RequestFail
<1>9. ASSUME NEW c \in Calls, Cancel(c)
      PROVE  Margins'
  BY <1>9 DEF Cancel
<1>10. ASSUME NEW c \in Calls, NEW w \in BOOLEAN, IssueTicket(c, w)
      PROVE  Margins'
  <2>1. ticket # NONE => ~Fresh(ticket)
    BY DEF Fresh
  <2>2. \A d \in Calls : held[d] # NONE => ~Fresh(held[d])
    BY DEF Fresh
  <2>3. /\ held[c] = NONE /\ pc[c] = "login"
        /\ held'[c] \in Tickets /\ serverLife'[held'[c]] = SERVER_LIFETIME
        /\ \A d \in Calls \ {c} : held'[d] = held[d]
        /\ UNCHANGED <<cacheVars, pc, age>>
    BY <1>10 DEF IssueTicket
  <2>4. ticket # NONE => /\ ticket \in revoked' <=> ticket \in revoked
                         /\ serverLife'[ticket] = serverLife[ticket]
    BY <1>10, <2>1, IssueSparesTheHeld
  <2>5. \A d \in Calls : held[d] # NONE =>
           /\ held[d] \in revoked' <=> held[d] \in revoked
           /\ serverLife'[held[d]] = serverLife[held[d]]
    BY <1>10, <2>2, IssueSparesTheHeld
  <2>6. Usable' = Usable
    BY <2>3
  <2> QED BY <2>3, <2>4, <2>5
<1>11. ASSUME NEW c \in Calls, NEW status \in Replies, Answer(c, status)
      PROVE  Margins'
  BY <1>11 DEF Answer
<1>12. ASSUME NEW t \in Tickets, Revoke(t)
      PROVE  Margins'
  BY <1>12 DEF Revoke
<1>13. CASE Tick
  <2>1. ticket # NONE => /\ ticket \in revoked' <=> ticket \in revoked
                         /\ serverLife'[ticket] = Less(serverLife[ticket])
    BY <1>13, TimeSparesTheHeld DEF Fresh
  <2>2. \A d \in Calls : held[d] # NONE =>
           /\ held[d] \in revoked' <=> held[d] \in revoked
           /\ serverLife'[held[d]] = Less(serverLife[held[d]])
    BY <1>13, TimeSparesTheHeld DEF Fresh
  <2>3. /\ UNCHANGED <<ticket, pc, held>> /\ expiresIn' = Less(expiresIn)
        /\ \A d \in Calls : pc[d] \in {"login", "sent"} => age'[d] = age[d] + 1
    BY <1>13 DEF Tick, OnTheWire
  <2>4. Usable' /\ ticket' \notin revoked' =>
           serverLife'[ticket'] >= expiresIn' + REQUEST_TIMEOUT
    BY <2>1, <2>3 DEF Less
  <2>5. ASSUME NEW d \in Calls, held'[d] # NONE, held'[d] \notin revoked'
        PROVE  /\ pc'[d] = "login" => serverLife'[held'[d]] + age'[d] >= SERVER_LIFETIME
               /\ pc'[d] = "sent" => serverLife'[held'[d]] + age'[d] > REQUEST_TIMEOUT
    <3>1. /\ held[d] # NONE /\ held[d] \notin revoked /\ held'[d] = held[d] /\ pc'[d] = pc[d]
          /\ serverLife'[held[d]] = Less(serverLife[held[d]])
          /\ serverLife[held[d]] \in Nat /\ age[d] \in Nat
      BY <2>2, <2>3, <2>5
    <3> QED BY <2>3, <3>1 DEF Less
  <2> QED BY <2>4, <2>5
<1>14. CASE UNCHANGED vars
  BY <1>14 DEF vars, callVars
<1> QED
  BY <1>1, <1>2, <1>3, <1>4, <1>5, <1>6, <1>7,
     <1>8, <1>9, <1>10, <1>11, <1>12, <1>13, <1>14
  DEF Next, CallStep, TakeLock

(* The first waiter leaves the queue, the others move up.                  *)
LEMMA HeadLeaves ==
    ASSUME TypeOK, QueueHoldsWaiters, NEW c \in Calls, First(c),
           queue' = Tail(queue), pc'[c] # "queued",
           \A d \in Calls \ {c} : pc'[d] = pc[d]
    PROVE  QueueHoldsWaiters'
<1>1. /\ queue \in Seq(Calls) /\ queue # << >>
      /\ Len(queue) \in Nat \ {0}
      /\ queue[1] = c
  BY EmptySeq DEF TypeOK, First
<1>2. /\ Len(queue') = Len(queue) - 1
      /\ \A i \in 1..(Len(queue) - 1) : queue'[i] = queue[i + 1]
  BY <1>1
<1>3. \A i, j \in 1..Len(queue') : queue'[i] = queue'[j] => i = j
  <2> SUFFICES ASSUME NEW i \in 1..Len(queue'), NEW j \in 1..Len(queue'),
                      queue'[i] = queue'[j]
               PROVE  i = j
    OBVIOUS
  <2>1. i + 1 \in 1..Len(queue) /\ j + 1 \in 1..Len(queue)
    BY <1>1, <1>2
  <2>2. queue[i + 1] = queue[j + 1]
    BY <1>1, <1>2
  <2> QED BY <1>1, <1>2, <2>1, <2>2 DEF QueueHoldsWaiters
<1>4. ASSUME NEW d \in Calls
      PROVE  pc'[d] = "queued" <=> \E i \in 1..Len(queue') : queue'[i] = d
  <2>1. CASE d = c
    <3>1. ASSUME NEW i \in 1..Len(queue'), queue'[i] = c
          PROVE  FALSE
      <4>1. i + 1 \in 1..Len(queue) /\ queue[i + 1] = queue[1]
        BY <1>1, <1>2, <3>1
      <4>2. 1 \in 1..Len(queue) /\ i + 1 # 1
        BY <1>1, <1>2
      <4> QED BY <4>1, <4>2 DEF QueueHoldsWaiters
    <3> QED BY <2>1, <3>1
  <2>2. CASE d # c
    <3>1. ASSUME pc[d] = "queued"
          PROVE  \E i \in 1..Len(queue') : queue'[i] = d
      <4>1. PICK k \in 1..Len(queue) : queue[k] = d
        BY <3>1 DEF QueueHoldsWaiters
      <4>2. k - 1 \in 1..Len(queue') /\ queue'[k - 1] = d
        BY <1>1, <1>2, <2>2, <4>1
      <4> QED BY <4>2
    <3>2. ASSUME NEW i \in 1..Len(queue'), queue'[i] = d
          PROVE  pc[d] = "queued"
      <4>1. i + 1 \in 1..Len(queue) /\ queue[i + 1] = d
        BY <1>1, <1>2, <3>2
      <4> QED BY <4>1 DEF QueueHoldsWaiters
    <3> QED BY <2>2, <3>1, <3>2
  <2> QED BY <2>1, <2>2
<1> QED BY <1>3, <1>4 DEF QueueHoldsWaiters

(* A new waiter takes the place behind all others.                         *)
LEMMA TailJoins ==
    ASSUME TypeOK, QueueHoldsWaiters, NEW c \in Calls, pc[c] # "queued",
           queue' = Append(queue, c), pc'[c] = "queued",
           \A d \in Calls \ {c} : pc'[d] = pc[d]
    PROVE  QueueHoldsWaiters'
<1>1. queue \in Seq(Calls) /\ Len(queue) \in Nat
  BY LenProperties DEF TypeOK
<1>2. /\ Len(queue') = Len(queue) + 1
      /\ queue'[Len(queue) + 1] = c
      /\ \A i \in 1..Len(queue) : queue'[i] = queue[i]
  BY <1>1
<1>3. \A i \in 1..Len(queue) : queue[i] # c
  BY DEF QueueHoldsWaiters
<1>4. \A i, j \in 1..Len(queue') : queue'[i] = queue'[j] => i = j
  <2> SUFFICES ASSUME NEW i \in 1..Len(queue'), NEW j \in 1..Len(queue'),
                      queue'[i] = queue'[j]
               PROVE  i = j
    OBVIOUS
  <2>1. CASE i \in 1..Len(queue) /\ j \in 1..Len(queue)
    BY <1>2, <2>1 DEF QueueHoldsWaiters
  <2>2. CASE i = Len(queue) + 1 \/ j = Len(queue) + 1
    BY <1>1, <1>2, <1>3, <2>2
  <2> QED BY <1>1, <1>2, <2>1, <2>2
<1>5. ASSUME NEW d \in Calls
      PROVE  pc'[d] = "queued" <=> \E i \in 1..Len(queue') : queue'[i] = d
  <2>1. CASE d = c
    BY <1>1, <1>2, <2>1
  <2>2. CASE d # c
    <3>1. pc[d] = "queued" <=> \E i \in 1..Len(queue) : queue[i] = d
      BY DEF QueueHoldsWaiters
    <3>2. (\E i \in 1..Len(queue) : queue[i] = d)
             <=> (\E i \in 1..Len(queue') : queue'[i] = d)
      BY <1>1, <1>2, <2>2
    <3> QED BY <2>2, <3>1, <3>2
  <2> QED BY <2>1, <2>2
<1> QED BY <1>4, <1>5 DEF QueueHoldsWaiters

(* A cancelled waiter leaves its place, the others close up.               *)
LEMMA WaiterLeaves ==
    ASSUME TypeOK, QueueHoldsWaiters, NEW c \in Calls, pc[c] = "queued",
           queue' = Without(queue, c), pc'[c] # "queued",
           \A d \in Calls \ {c} : pc'[d] = pc[d]
    PROVE  QueueHoldsWaiters'
<1>1. queue \in Seq(Calls) /\ Len(queue) \in Nat
  BY LenProperties DEF TypeOK
<1>2. \E i \in 1..Len(queue) : queue[i] = c
  BY DEF QueueHoldsWaiters
<1>3. PICK at \in 1..Len(queue) :
         /\ queue[at] = c
         /\ Len(Without(queue, c)) = Len(queue) - 1
         /\ \A i \in 1..(Len(queue) - 1) :
               Without(queue, c)[i] = IF i < at THEN queue[i] ELSE queue[i + 1]
  <2> HIDE DEF QueueHoldsWaiters, TypeOK
  <2> QED BY <1>1, <1>2, WithoutProperties
<1> DEFINE old(i) == IF i < at THEN i ELSE i + 1
<1>4. \A i \in 1..Len(queue') :
         /\ old(i) \in 1..Len(queue)
         /\ old(i) # at
         /\ queue'[i] = queue[old(i)]
  BY <1>1, <1>3
<1>5. \A i, j \in 1..Len(queue') : queue'[i] = queue'[j] => i = j
  <2> SUFFICES ASSUME NEW i \in 1..Len(queue'), NEW j \in 1..Len(queue'),
                      queue'[i] = queue'[j]
               PROVE  i = j
    OBVIOUS
  <2>1. old(i) = old(j)
    <3> HIDE DEF old
    <3> QED BY <1>4 DEF QueueHoldsWaiters
  <2> QED BY <1>1, <1>3, <2>1
<1>6. ASSUME NEW d \in Calls
      PROVE  pc'[d] = "queued" <=> \E i \in 1..Len(queue') : queue'[i] = d
  <2>1. CASE d = c
    <3>1. \A i \in 1..Len(queue') : queue'[i] # c
      BY <1>3, <1>4 DEF QueueHoldsWaiters
    <3> QED BY <2>1, <3>1
  <2>2. CASE d # c
    <3>1. ASSUME pc[d] = "queued"
          PROVE  \E i \in 1..Len(queue') : queue'[i] = d
      <4>1. PICK k \in 1..Len(queue) : queue[k] = d
        BY <3>1 DEF QueueHoldsWaiters
      <4>2. CASE k < at
        BY <1>1, <1>3, <4>1, <4>2
      <4>3. CASE k > at
        <5>1. k - 1 \in 1..Len(queue') /\ ~(k - 1 < at)
          BY <1>1, <1>3, <4>1, <4>3
        <5>2. queue'[k - 1] = queue[(k - 1) + 1]
          BY <1>3, <5>1
        <5> QED BY <4>1, <5>1, <5>2
      <4> QED BY <1>3, <2>2, <4>1, <4>2, <4>3
    <3>2. ASSUME NEW i \in 1..Len(queue'), queue'[i] = d
          PROVE  pc[d] = "queued"
      BY <1>4, <3>2 DEF QueueHoldsWaiters
    <3> QED BY <2>2, <3>1, <3>2
  <2> QED BY <2>1, <2>2
<1> QED BY <1>5, <1>6 DEF QueueHoldsWaiters

(* The queue holds the waiters, each once.                                 *)
LEMMA QueueStep ==
    ASSUME TypeOK, QueueHoldsWaiters, [Next]_vars
    PROVE  QueueHoldsWaiters'
<1> USE AuthAssumption
<1> DEFINE Others(c) == \A d \in Calls \ {c} : pc'[d] = pc[d]
           Stays == queue' = queue
           Aside(c) == Others(c) /\ (pc'[c] = "queued" <=> pc[c] = "queued")
<1>1. ASSUME NEW c \in Calls, Begin(c)
      PROVE  QueueHoldsWaiters'
  <2>1. CASE mode = "ticket"
    <3>1. /\ pc[c] # "queued" /\ pc'[c] = "queued"
          /\ queue' = Append(queue, c)
          /\ Others(c)
      BY <1>1, <2>1 DEF Begin, TypeOK
    <3> QED BY <3>1, TailJoins
  <2>2. CASE mode # "ticket"
    <3>1. Stays /\ Aside(c)
      BY <1>1, <2>2 DEF Begin, Finish, Send, TypeOK
    <3> QED BY <3>1 DEF QueueHoldsWaiters
  <2> QED BY <2>1, <2>2
<1>2. ASSUME NEW c \in Calls, TakeLock(c)
      PROVE  QueueHoldsWaiters'
  <2>1. /\ First(c) /\ queue' = Tail(queue)
        /\ pc'[c] # "queued"
        /\ Others(c)
    BY <1>2 DEF TakeLock, UseCached, RefuseInCooldown, StartLogin, Finish, Send, TypeOK
  <2> QED BY <2>1, HeadLeaves
<1>3. ASSUME NEW c \in Calls, LoginOk(c)
      PROVE  QueueHoldsWaiters'
  <2>1. Stays /\ Aside(c)
    BY <1>3 DEF LoginOk, Send, TypeOK
  <2> QED BY <2>1 DEF QueueHoldsWaiters
<1>4. ASSUME NEW c \in Calls, NEW failure \in Failures, LoginFail(c, failure)
      PROVE  QueueHoldsWaiters'
  <2>1. Stays /\ Aside(c)
    BY <1>4 DEF LoginFail, Finish, TypeOK
  <2> QED BY <2>1 DEF QueueHoldsWaiters
<1>5. ASSUME NEW c \in Calls, Receive(c)
      PROVE  QueueHoldsWaiters'
  <2>1. Stays /\ Aside(c)
    BY <1>5 DEF Receive, Finish, lockVars, TypeOK
  <2> QED BY <2>1 DEF QueueHoldsWaiters
<1>6. ASSUME NEW c \in Calls,
             NEW failure \in {"Transport", "Other"}, RequestFail(c, failure)
      PROVE  QueueHoldsWaiters'
  <2>1. Stays /\ Aside(c)
    BY <1>6 DEF RequestFail, Finish, lockVars, TypeOK
  <2> QED BY <2>1 DEF QueueHoldsWaiters
<1>7. ASSUME NEW c \in Calls, Cancel(c)
      PROVE  QueueHoldsWaiters'
  <2>1. pc'[c] = "idle" /\ Others(c)
    BY <1>7 DEF Cancel, Finish, TypeOK
  <2>2. CASE pc[c] = "queued"
    <3>1. queue' = Without(queue, c)
      BY <1>7, <2>2 DEF Cancel
    <3> QED BY <2>1, <2>2, <3>1, WaiterLeaves
  <2>3. CASE pc[c] # "queued"
    <3>1. Stays
      BY <1>7, <2>3 DEF Cancel
    <3> QED BY <2>1, <2>3, <3>1 DEF QueueHoldsWaiters
  <2> QED BY <2>2, <2>3
<1>8. CASE /\ Stays /\ UNCHANGED pc
  BY <1>8 DEF QueueHoldsWaiters
<1>9. ASSUME \/ \E c \in Calls : \/ \E w \in BOOLEAN : IssueTicket(c, w)
                               \/ \E status \in Replies : Answer(c, status)
             \/ \E t \in Tickets : Revoke(t)
             \/ Tick
             \/ UNCHANGED vars
      PROVE  Stays /\ UNCHANGED pc
  BY <1>9 DEF IssueTicket, Answer, Revoke, Tick, lockVars, callVars, vars
<1> QED
  <2> HIDE DEF Others, Stays, Aside
  <2> QED BY <1>1, <1>2, <1>3, <1>4, <1>5, <1>6, <1>7, <1>8, <1>9
      DEF Next, CallStep

-----------------------------------------------------------------------------
(* The theorems.                                                           *)

(* The inductive invariant holds in every reachable state.                 *)
THEOREM Invariance == Spec => []IInv
<1>1. Init => IInv
  BY InitIInv
<1>2. IInv /\ [Next]_vars => IInv'
  <2> SUFFICES ASSUME IInv, [Next]_vars
               PROVE  IInv'
    OBVIOUS
  <2>1. TypeOK' /\ QueueHoldsWaiters'
    BY TypeStep, QueueStep DEF IInv
  <2>2. LockHeldByLogin' /\ LoginNeeded' /\ CooldownClock'
    BY LockStep, NeededStep, CooldownStep DEF IInv
  <2>3. CallShape' /\ CachedPair' /\ Margins'
    BY ShapeStep, PairStep, MarginStep DEF IInv
  <2> QED BY <2>1, <2>2, <2>3 DEF IInv
<1> QED BY <1>1, <1>2, PTL DEF Spec

(* Every variable of the client and its calls stays in its type.           *)
THEOREM TypeCorrect == Spec => []TypeOK
<1>1. IInv => TypeOK
  BY DEF IInv
<1> QED BY <1>1, Invariance, PTL

(* The auth lock is held by the call that logs in and by nobody else:      *)
(* errors and cancellations always give it back.                           *)
THEOREM LockNeverLeaks == Spec => []LockHeldByLogin
<1>1. IInv => LockHeldByLogin
  BY DEF IInv
<1> QED BY <1>1, Invariance, PTL

(* A request carries the CSRF token of its ticket's login or, when that    *)
(* brought none or it is no write, none.                                   *)
THEOREM CsrfIsPaired == Spec => []PairedCsrf
<1>1. IInv => PairedCsrf
  BY DEF IInv, CallShape, PairedCsrf
<1> QED BY <1>1, Invariance, PTL

(* With the refresh margin of api.py no request in flight outlives its     *)
(* ticket at the server.                                                   *)
THEOREM RequestsNeverRaceExpiry == Spec => []NoExpiryRace
<1>1. IInv => NoExpiryRace
  BY AuthAssumption DEF IInv, TypeOK, Margins, NoExpiryRace
<1> QED BY <1>1, Invariance, PTL

(* The ticket a call's request carries.                                    *)
Given(c) == IF pc[c] = "sent" THEN held[c] ELSE NONE

(* Some call of c is a step of the promise, or none that it sees.          *)
PromiseStep(c) ==
    \/ UNCHANGED <<IF Usable THEN ticket ELSE NONE, holder, retryIn > 0, [d \in Calls |-> Given(d)]>>
    \/ Promise!Give(c) \/ Promise!StartLogin(c) \/ Promise!LoginOk(c)
    \/ Promise!LoginFail(c) \/ Promise!Abandon(c) \/ Promise!Return(c)

(* Who is not the caller keeps what it was given.                          *)
LEMMA OthersKeepTheirs ==
    ASSUME TypeOK, NEW c \in Calls,
           \A d \in Calls \ {c} : pc'[d] = pc[d] /\ held'[d] = held[d]
    PROVE  [d \in Calls |-> Given(d)]' = [[d \in Calls |-> Given(d)] EXCEPT ![c] = Given(c)']
  BY DEF Given

(* Every step of a call is one of the promise.                             *)
LEMMA CallKeepsPromise ==
    ASSUME IInv, NEW c \in Calls, CallStep(c)
    PROVE  PromiseStep(c)
<1> DEFINE U == IF Usable THEN ticket ELSE NONE
           G == [d \in Calls |-> Given(d)]
<1> USE AuthAssumption
<1>0. /\ TypeOK /\ LockHeldByLogin /\ LoginNeeded /\ CallShape
      /\ G[c] = Given(c)
  BY DEF IInv
<1>1. ASSUME UNCHANGED cacheVars
      PROVE  U' = U /\ (retryIn > 0)' = (retryIn > 0)
  BY <1>1 DEF cacheVars, Usable
<1>2. ASSUME \A d \in Calls \ {c} : pc'[d] = pc[d] /\ held'[d] = held[d]
      PROVE  G' = [G EXCEPT ![c] = Given(c)']
  BY <1>0, <1>2, OthersKeepTheirs
<1>3. ASSUME G' = [G EXCEPT ![c] = Given(c)'], Given(c)' = Given(c)
      PROVE  G' = G
  BY <1>0, <1>3
<1>a. CASE Begin(c)
  <2>1. /\ \A d \in Calls \ {c} : pc'[d] = pc[d] /\ held'[d] = held[d]
        /\ Given(c)' = NONE /\ Given(c) = NONE
    BY <1>a, <1>0 DEF Begin, Given, Finish, Send, TypeOK, CallShape
  <2> QED BY <1>a, <1>1, <1>2, <1>3, <2>1 DEF Begin, PromiseStep
<1>b. CASE UseCached(c)
  <2>1. /\ \A d \in Calls \ {c} : pc'[d] = pc[d] /\ held'[d] = held[d]
        /\ Given(c)' = ticket /\ Given(c) = NONE
        /\ U = ticket /\ U # NONE
    BY <1>b, <1>0 DEF UseCached, First, Given, Send, TypeOK, Usable
  <2>2. G' = [G EXCEPT ![c] = U]
    BY <1>2, <2>1
  <2>3. U' = U /\ (retryIn > 0)' = (retryIn > 0) /\ holder' = holder
    BY <1>b, <1>1 DEF UseCached
  <2> QED BY <1>0, <2>1, <2>2, <2>3 DEF Promise!Give, PromiseStep, Given
<1>c. CASE RefuseInCooldown(c)
  <2>1. /\ \A d \in Calls \ {c} : pc'[d] = pc[d] /\ held'[d] = held[d]
        /\ Given(c)' = NONE /\ Given(c) = NONE
    BY <1>c, <1>0 DEF RefuseInCooldown, First, Given, Finish, TypeOK
  <2> QED BY <1>c, <1>1, <1>2, <1>3, <2>1 DEF RefuseInCooldown, PromiseStep
<1>d. CASE StartLogin(c)
  <2>1. /\ \A d \in Calls \ {c} : pc'[d] = pc[d] /\ held'[d] = held[d]
        /\ Given(c)' = Given(c)
        /\ holder = NONE /\ holder' = c /\ U = NONE /\ ~(retryIn > 0)
    BY <1>d, <1>0 DEF StartLogin, First, Given, TypeOK
  <2>2. U' = U /\ (retryIn > 0)' = (retryIn > 0) /\ G' = G
    BY <1>d, <1>1, <1>2, <1>3, <2>1 DEF StartLogin
  <2> QED BY <2>1, <2>2 DEF Promise!StartLogin, PromiseStep, Given
<1>e. CASE LoginOk(c)
  <2>1. /\ \A d \in Calls \ {c} : pc'[d] = pc[d] /\ held'[d] = held[d]
        /\ Given(c)' = held[c] /\ Given(c) = NONE
        /\ holder = c /\ holder' = NONE
        /\ ticket' = held[c] /\ held[c] \in Tickets /\ expiresIn' = TICKET_LIFETIME
        /\ retryIn' = 0
    BY <1>e, <1>0 DEF LoginOk, Given, Send, TypeOK
  <2>2. U = NONE
    BY <1>e, <1>0 DEF LoginOk, LoginNeeded
  <2>3. U' = held[c] /\ U' \in Tickets /\ (retryIn > 0)' = FALSE
    BY <2>1 DEF Usable
  <2>4. G' = [G EXCEPT ![c] = U']
    BY <1>2, <2>1, <2>3
  <2> QED BY <1>0, <2>1, <2>2, <2>3, <2>4 DEF Promise!LoginOk, PromiseStep, Given
<1>f. ASSUME NEW failure \in Failures, LoginFail(c, failure)
      PROVE  PromiseStep(c)
  <2>1. /\ \A d \in Calls \ {c} : pc'[d] = pc[d] /\ held'[d] = held[d]
        /\ Given(c)' = NONE /\ Given(c) = NONE
        /\ holder = c /\ holder' = NONE
        /\ retryIn' = AUTH_RETRY_COOLDOWN /\ UNCHANGED <<ticket, expiresIn>>
    BY <1>f, <1>0 DEF LoginFail, Given, Finish, TypeOK
  <2>2. U' = U /\ (retryIn > 0)' = TRUE /\ G' = G
    BY <1>2, <1>3, <2>1 DEF Usable
  <2> QED BY <2>1, <2>2 DEF Promise!LoginFail, PromiseStep, Given
<1>g. CASE Receive(c)
  <2>1. /\ \A d \in Calls \ {c} : pc'[d] = pc[d] /\ held'[d] = held[d]
        /\ Given(c)' = NONE
        /\ ticket' \in {ticket, NONE} /\ UNCHANGED <<expiresIn, retryIn, holder>>
    BY <1>g, <1>0 DEF Receive, Given, Finish, TypeOK, lockVars
  <2>2. U' \in {U, NONE} /\ (retryIn > 0)' = (retryIn > 0)
    BY <2>1 DEF Usable
  <2>3. G' = [G EXCEPT ![c] = NONE]
    BY <1>2, <2>1
  <2> QED BY <2>1, <2>2, <2>3 DEF Promise!Return, PromiseStep, Given
<1>h. ASSUME NEW failure \in {"Transport", "Other"}, RequestFail(c, failure)
      PROVE  PromiseStep(c)
  <2>1. /\ \A d \in Calls \ {c} : pc'[d] = pc[d] /\ held'[d] = held[d]
        /\ Given(c)' = NONE /\ holder' = holder
    BY <1>h, <1>0 DEF RequestFail, Given, Finish, TypeOK, lockVars
  <2>2. U' \in {U, NONE} /\ (retryIn > 0)' = (retryIn > 0)
    BY <1>h, <1>1 DEF RequestFail
  <2>3. G' = [G EXCEPT ![c] = NONE]
    BY <1>2, <2>1
  <2> QED BY <2>1, <2>2, <2>3 DEF Promise!Return, PromiseStep, Given
<1>i. CASE Cancel(c)
  <2>1. /\ \A d \in Calls \ {c} : pc'[d] = pc[d] /\ held'[d] = held[d]
        /\ Given(c)' = NONE
        /\ holder' = IF holder = c THEN NONE ELSE holder
    BY <1>i, <1>0 DEF Cancel, Given, Finish, TypeOK
  <2>2. U' = U /\ (retryIn > 0)' = (retryIn > 0)
    BY <1>i, <1>1 DEF Cancel
  <2>3. G' = [G EXCEPT ![c] = NONE]
    BY <1>2, <2>1
  <2>4. CASE holder = c
    <3>1. Given(c) = NONE
      BY <1>0, <2>4 DEF LockHeldByLogin, Given
    <3> QED BY <1>2, <1>3, <2>1, <2>2, <2>4, <3>1 DEF Promise!Abandon, PromiseStep, Given
  <2>5. CASE holder # c
    BY <2>1, <2>2, <2>3, <2>5 DEF Promise!Return, PromiseStep, Given
  <2> QED BY <2>4, <2>5
<1>j. ASSUME NEW w \in BOOLEAN, IssueTicket(c, w)
      PROVE  PromiseStep(c)
  <2>1. /\ \A d \in Calls \ {c} : pc'[d] = pc[d] /\ held'[d] = held[d]
        /\ Given(c)' = Given(c) /\ holder' = holder
    BY <1>j, <1>0 DEF IssueTicket, Given, TypeOK, lockVars
  <2> QED BY <1>j, <1>1, <1>2, <1>3, <2>1 DEF IssueTicket, PromiseStep
<1>k. ASSUME NEW status \in Replies, Answer(c, status)
      PROVE  PromiseStep(c)
  BY <1>k, <1>1 DEF Answer, PromiseStep, Given, lockVars
<1> QED BY <1>a, <1>b, <1>c, <1>d, <1>e, <1>f, <1>g, <1>h, <1>i, <1>j, <1>k
        DEF CallStep, TakeLock

(* Every step of the client and of the server is one.                      *)
LEMMA StepKeepsPromise ==
    ASSUME IInv, [Next]_vars
    PROVE  [Promise!Next]_<<IF Usable THEN ticket ELSE NONE, holder, retryIn > 0,
                            [c \in Calls |-> IF pc[c] = "sent" THEN held[c] ELSE NONE]>>
<1> DEFINE U == IF Usable THEN ticket ELSE NONE
           G == [c \in Calls |-> IF pc[c] = "sent" THEN held[c] ELSE NONE]
<1>1. ASSUME NEW c \in Calls, CallStep(c)
      PROVE  [Promise!Next]_<<U, holder, retryIn > 0, G>>
  <2>1. PromiseStep(c)
    BY <1>1, CallKeepsPromise
  <2> QED BY <2>1 DEF PromiseStep, Promise!Next, Given
<1>2. ASSUME NEW t \in Tickets, Revoke(t)
      PROVE  [Promise!Next]_<<U, holder, retryIn > 0, G>>
  BY <1>2 DEF Revoke, Usable, cacheVars, lockVars, callVars
<1>3. CASE Tick
  <2>1. /\ UNCHANGED <<ticket, holder, pc, held>>
        /\ expiresIn' = Less(expiresIn) /\ retryIn' = Less(retryIn)
        /\ expiresIn \in Nat /\ retryIn \in Nat
    BY <1>3, AuthAssumption DEF Tick, lockVars, IInv, TypeOK
  <2>2. U' \in {U, NONE}
    BY <2>1 DEF Usable, Less
  <2>3. (retryIn > 0)' => retryIn > 0
    BY <2>1 DEF Less
  <2> QED BY <2>1, <2>2, <2>3 DEF Promise!Next, Promise!Lapse
<1>4. CASE UNCHANGED vars
  BY <1>4 DEF vars, Usable, cacheVars, lockVars, callVars
<1> QED BY <1>1, <1>2, <1>3, <1>4 DEF Next

(* The client implements SharedTicket, for any calls and durations: the    *)
(* lock, the cooldown and the second look at the cache do together what    *)
(* the calls rely on.                                                      *)
THEOREM ClientImplementsSharedTicket == Spec => ImplementsSharedTicket
<1>1. Init => Promise!Init
  BY DEF Init, Promise!Init, Usable
<1> QED BY <1>1, StepKeepsPromise, Invariance, PTL
        DEF Spec, ImplementsSharedTicket, Promise!Spec

(* Between a failed login and the next attempt lies the whole cooldown.    *)
THEOREM FailuresAreRemembered == Spec => FailedLoginIsRemembered
<1>1. IInv /\ [Next]_vars
         => [\A c \in Calls : LoginStarts(c) => sinceFailure = AUTH_RETRY_COOLDOWN]_vars
  <2> SUFFICES ASSUME IInv, Next, NEW d \in Calls, LoginStarts(d)
               PROVE  sinceFailure = AUTH_RETRY_COOLDOWN
    OBVIOUS
  <2>1. PICK c \in Calls : StartLogin(c)
    <3> USE DEF IInv, TypeOK, LoginStarts, Finish, Send
    <3>1. ASSUME NEW c \in Calls, CallStep(c)
          PROVE  StartLogin(c)
      BY <3>1 DEF CallStep, TakeLock, Begin, UseCached, RefuseInCooldown,
           LoginOk, LoginFail, Receive, RequestFail, Cancel, IssueTicket,
           Answer, callVars
    <3>2. ASSUME NEW t \in Tickets, Revoke(t)
          PROVE  FALSE
      BY <3>2 DEF Revoke, callVars
    <3>3. ASSUME Tick
          PROVE  FALSE
      BY <3>3 DEF Tick
    <3> QED BY <3>1, <3>2, <3>3 DEF Next
  <2> QED BY <2>1, AuthAssumption DEF StartLogin, IInv, TypeOK, CooldownClock
<1> QED BY <1>1, Invariance, PTL DEF Spec, FailedLoginIsRemembered

(* Polling calls never raise, validating calls hide no failure.            *)
THEOREM ErrorsFollowTheContract == Spec => ErrorContract
<1> DEFINE Contract(c) ==
       result[c] = "none" /\ result'[c] # "none" =>
          IF c \in Raising
          THEN result'[c] = "null" => reply[c] = "error"
          ELSE result'[c] \in {"data", "null", "cancelled"}
<1>1. IInv /\ [Next]_vars => [\A c \in Calls : Contract(c)]_vars
  <2> SUFFICES ASSUME IInv, Next, NEW d \in Calls
               PROVE  Contract(d)
    OBVIOUS
  <2> USE DEF IInv, TypeOK
  <2>1. \A c \in Calls : \A r : Finish(c, r) => result' = [result EXCEPT ![c] = r]
    BY DEF Finish
  <2>2. \A c \in Calls : \A t, token :
           Send(c, t, token) => result' = [result EXCEPT ![c] = "none"]
    BY DEF Send
  <2>3. ASSUME NEW c \in Calls, NEW failure \in Failures
        PROVE  IF c \in Raising THEN Outcome(c, failure) \notin {"null"}
               ELSE Outcome(c, failure) = "null"
    BY DEF Outcome, Failures, AuthErrors
  <2>4. ASSUME NEW c \in Calls, CallStep(c)
        PROVE  Contract(d)
    <3>1. CASE Begin(c)
      BY <3>1, <2>1, <2>2, <2>3 DEF Begin, Failures, AuthErrors
    <3>2. CASE UseCached(c) \/ LoginOk(c)
      BY <3>2, <2>2 DEF UseCached, LoginOk
    <3>3. CASE RefuseInCooldown(c)
      BY <3>3, <2>1, <2>3 DEF RefuseInCooldown, Failures
    <3>4. CASE \E failure \in Failures : LoginFail(c, failure)
      BY <3>4, <2>1, <2>3 DEF LoginFail
    <3>5. CASE Receive(c)
      BY <3>5, <2>1, <2>3 DEF Receive, Failures, AuthErrors
    <3>6. CASE \E failure \in {"Transport", "Other"} : RequestFail(c, failure)
      BY <3>6, <2>1, <2>3 DEF RequestFail, Failures
    <3>7. CASE Cancel(c)
      BY <3>7, <2>1 DEF Cancel
    <3>8. CASE UNCHANGED result
      BY <3>8
    <3> QED
      BY <2>4, <3>1, <3>2, <3>3, <3>4, <3>5, <3>6, <3>7, <3>8
      DEF CallStep, TakeLock, StartLogin, IssueTicket, Answer
  <2>5. CASE UNCHANGED result
    BY <2>5
  <2> QED BY <2>4, <2>5 DEF Next, Revoke, Tick, callVars
<1> QED BY <1>1, Invariance, PTL DEF Spec, ErrorContract


-----------------------------------------------------------------------------
(* A server that gets well.                                                *)

(* What a well server and its calls do, any server and calls may do.       *)
LEMMA RecoveryStep ==
    ASSUME [RecoveryNext]_recoveryVars
    PROVE  [Next]_vars
<1>1. CASE UNCHANGED recoveryVars
  BY <1>1 DEF recoveryVars
<1>2. ASSUME NEW c \in Calls, Honest(c)
      PROVE  Next
  BY <1>2 DEF Honest, Replies, CallStep, Next
<1>3. ASSUME NEW c \in Calls, WellStep(c)
      PROVE  Next
  BY <1>2, <1>3 DEF WellStep, CallStep, Next
<1>4. CASE Recover
  BY <1>4 DEF Recover
<1>5. CASE Tick
  BY <1>5 DEF Next
<1> QED BY <1>1, <1>3, <1>4, <1>5 DEF RecoveryNext

(* So everything proved of the client holds while its server recovers.     *)
THEOREM RecoveriesAreBehaviours == RecoverySpec => Spec
<1>1. RecoveryInit => Init
  BY DEF RecoveryInit
<1> QED BY <1>1, RecoveryStep, PTL DEF RecoverySpec, Spec

(* What can still fail runs out: from the moment the server is well no     *)
(* ticket is revoked, the cooldown only gets shorter, and the requests     *)
(* that are refused are those that carry a ticket revoked before, or one   *)
(* whose login brought no CSRF token.                                      *)
RefusalsRunOut ==
    /\ revoked' \subseteq revoked /\ tokenless' \subseteq tokenless
    /\ retryIn' <= retryIn
    /\ \A c \in Calls :
          reply[c] = "none" /\ reply'[c] = "401" => held[c] \in revoked \union tokenless

(* A well server accepts a request with a ticket it did not revoke and for *)
(* which it gave a token.                                                  *)
LEMMA KeptTicketsAreAccepted ==
    ASSUME IInv, NEW c \in Calls, pc[c] = "sent", held[c] \notin revoked \union tokenless
    PROVE  Accepts(c)
<1>1. held[c] # NONE => serverLife[held[c]] > 0
  <2> SUFFICES ASSUME held[c] # NONE PROVE serverLife[held[c]] > 0
    OBVIOUS
  <2>1. /\ serverLife[held[c]] + age[c] > REQUEST_TIMEOUT
        /\ serverLife[held[c]] \in Nat /\ age[c] \in 0..REQUEST_TIMEOUT
    BY AuthAssumption DEF IInv, Margins, TypeOK
  <2> QED BY <2>1, AuthAssumption
<1>2. c \in Writers => sentCsrf[c] = held[c]
  BY DEF IInv, CallShape, TokenOf
<1> QED BY <1>1, <1>2 DEF Accepts

(* No step of a well server adds to what can fail.                         *)
LEMMA WellStepsOnlyHelp ==
    ASSUME IInv, stable, [RecoveryNext]_recoveryVars
    PROVE  RefusalsRunOut
<1> USE AuthAssumption
<1>0. TypeOK /\ retryIn \in Nat /\ \A c \in Calls : reply[c] = "none" => reply[c] # "401"
  BY DEF IInv, TypeOK
<1>a. ASSUME UNCHANGED <<reply, revoked, tokenless, retryIn>>
      PROVE  RefusalsRunOut
  BY <1>0, <1>a DEF RefusalsRunOut
<1>1. CASE UNCHANGED recoveryVars
  BY <1>1, <1>a DEF recoveryVars, vars, cacheVars, callVars, serverVars
<1>2. CASE Tick
  BY <1>0, <1>2 DEF Tick, Less, StillHeld, RefusalsRunOut
<1>3. ASSUME NEW c \in Calls, WellStep(c)
      PROVE  RefusalsRunOut
  <2>1. CASE Begin(c)
    BY <1>0, <2>1 DEF Begin, Finish, Send, RefusalsRunOut, TypeOK, cacheVars, serverVars
  <2>2. CASE TakeLock(c)
    BY <1>0, <2>2 DEF TakeLock, UseCached, RefuseInCooldown, StartLogin, Finish, Send,
                      RefusalsRunOut, TypeOK, cacheVars, serverVars
  <2>3. CASE IssueTicket(c, TRUE)
    BY <1>0, <2>3 DEF IssueTicket, StillHeld, RefusalsRunOut, cacheVars
  <2>4. CASE LoginOk(c)
    BY <1>0, <2>4 DEF LoginOk, Send, RefusalsRunOut, TypeOK, serverVars
  <2>5. CASE Honest(c)
    <3>1. PICK status \in {"200", "401"} :
             /\ Answer(c, status)
             /\ status = "401" => ~Accepts(c)
      BY <2>5 DEF Honest
    <3>2. /\ pc[c] = "sent" /\ reply' = [reply EXCEPT ![c] = status]
          /\ UNCHANGED <<revoked, tokenless, retryIn>>
      BY <3>1 DEF Answer, cacheVars, serverVars
    <3>3. \A d \in Calls : reply[d] = "none" /\ reply'[d] = "401" => held[d] \in revoked \union tokenless
      BY <1>0, <3>1, <3>2, KeptTicketsAreAccepted DEF TypeOK
    <3> QED BY <1>0, <3>2, <3>3 DEF RefusalsRunOut
  <2>6. CASE Receive(c)
    BY <1>0, <2>6 DEF Receive, Finish, RefusalsRunOut, TypeOK, serverVars
  <2> QED BY <1>3, <2>1, <2>2, <2>3, <2>4, <2>5, <2>6 DEF WellStep
<1> QED BY <1>1, <1>2, <1>3 DEF RecoveryNext, Recover

(* The safety in Recovers: once the server is well, what kept the client   *)
(* from its data is used up, and comes from before.                        *)
THEOREM WellServersOnlyHelp == RecoverySpec => [][stable => RefusalsRunOut]_recoveryVars
BY WellStepsOnlyHelp, RecoveriesAreBehaviours, Invariance, PTL DEF RecoverySpec
=============================================================================
