----------------------------- MODULE AuthTicket -----------------------------
(***************************************************************************)
(* The authentication state of one ProxmoxClient (api.py) and the calls    *)
(* that share it.  Every call is a run of _api_request; with a password    *)
(* it first goes through _ensure_ticket, which caches a ticket and its     *)
(* CSRF token under an asyncio.Lock, remembers a failed login for a while  *)
(* and lets a 401 drop the cached ticket.                                  *)
(*                                                                         *)
(* Time is kept as what is left of each deadline: Tick lowers every        *)
(* countdown by one, so time.monotonic() and the absolute stamps of the    *)
(* code need no bound.  Tickets are recycled identities: a login takes one *)
(* that nobody holds any more (which of them makes no difference), so the  *)
(* number of logins needs no bound.                                        *)
(***************************************************************************)
EXTENDS Naturals, Sequences

CONSTANTS
    Calls,               \* tasks that call the API through this client
    Writers,             \* the calls whose method is not GET
    Raising,             \* the calls made with raise_errors=True
    Tickets,             \* identities a login can be given
    NONE,                \* Python's None
    AuthModes,           \* subset of {"ticket", "token", "incomplete"}
    REQUEST_TIMEOUT,
    TICKET_LIFETIME,
    AUTH_RETRY_COOLDOWN,
    SERVER_LIFETIME      \* how long the server honours a ticket (2 h)

AuthErrors == {"AuthenticationError", "PermissionError", "CannotConnect"}

(* How a login or a request may break: with one of the three errors of the *)
(* module, inside the transport (timeout, refused connection), or in any   *)
(* other way (an answer that is no JSON).                                  *)
Failures == AuthErrors \union {"Transport", "Other"}

ASSUME AuthAssumption ==
    /\ Writers \subseteq Calls
    /\ Raising \subseteq Calls
    /\ NONE \notin Calls
    /\ NONE \notin Tickets
    /\ AuthModes \subseteq {"ticket", "token", "incomplete"}
    /\ REQUEST_TIMEOUT \in Nat \ {0}
    /\ TICKET_LIFETIME \in Nat \ {0}
    /\ AUTH_RETRY_COOLDOWN \in Nat \ {0}
    /\ SERVER_LIFETIME \in Nat

(* "refresh well before that so a request never races the expiry"          *)
ASSUME RefreshMargin ==
    TICKET_LIFETIME + 2 * REQUEST_TIMEOUT <= SERVER_LIFETIME

VARIABLES
    mode,          \* how the client was configured: password, API token, or
                   \* a PBS client whose token is incomplete
    ticket,        \* self._ticket
    csrf,          \* self._csrf_token, named by the ticket it came with
    expiresIn,     \* self._ticket_expires - now, not below 0
    retryIn,       \* self._auth_retry_after - now, not below 0
    authError,     \* self._auth_error_type
    queue,         \* the calls waiting for self._auth_lock, in order
    holder,        \* the call inside the lock across an await, or NONE
    pc,            \* "idle", "queued", "login" or "sent"
    held,          \* the ticket a call logs in for, or sends
    sentCsrf,      \* the CSRFPreventionToken header of its request
    age,           \* how long its current HTTP request is under way
    reply,         \* the answer the server has given to that request
    result,        \* how the last run of the call ended; "none" while it runs
    serverLife,    \* how long the server still honours a ticket
    revoked,       \* tickets the server gave up before their time
    tokenless,     \* tickets whose login brought no CSRFPreventionToken
    sinceFailure   \* history: time since the last failed login, capped

cacheVars  == <<ticket, csrf, expiresIn, retryIn, authError>>
lockVars   == <<queue, holder>>
callVars   == <<pc, held, sentCsrf, age, reply, result>>
serverVars == <<mode, serverLife, revoked, tokenless>>
vars == <<cacheVars, lockVars, callVars, serverVars, sinceFailure>>

Replies == {"none", "200", "401", "403", "error"}
Results == AuthErrors \union {"none", "data", "null", "Other", "cancelled"}

TypeOK ==
    /\ mode \in AuthModes
    /\ ticket \in Tickets \union {NONE}
    /\ csrf \in Tickets \union {NONE}
    /\ expiresIn \in 0..TICKET_LIFETIME
    /\ retryIn \in 0..AUTH_RETRY_COOLDOWN
    /\ authError \in AuthErrors
    /\ queue \in Seq(Calls)
    /\ holder \in Calls \union {NONE}
    /\ pc \in [Calls -> {"idle", "queued", "login", "sent"}]
    /\ held \in [Calls -> Tickets \union {NONE}]
    /\ sentCsrf \in [Calls -> Tickets \union {NONE}]
    /\ age \in [Calls -> 0..REQUEST_TIMEOUT]
    /\ reply \in [Calls -> Replies]
    /\ result \in [Calls -> Results]
    /\ serverLife \in [Tickets -> 0..SERVER_LIFETIME]
    /\ revoked \in SUBSET Tickets
    /\ tokenless \in SUBSET Tickets
    /\ sinceFailure \in 0..AUTH_RETRY_COOLDOWN

Init ==
    /\ mode \in AuthModes
    /\ ticket = NONE /\ csrf = NONE
    /\ expiresIn = 0 /\ retryIn = 0
    /\ authError = "CannotConnect"
    /\ queue = << >> /\ holder = NONE
    /\ pc = [c \in Calls |-> "idle"]
    /\ held = [c \in Calls |-> NONE]
    /\ sentCsrf = [c \in Calls |-> NONE]
    /\ age = [c \in Calls |-> 0]
    /\ reply = [c \in Calls |-> "none"]
    /\ result = [c \in Calls |-> "none"]
    /\ serverLife = [t \in Tickets |-> 0]
    /\ revoked = {} /\ tokenless = {}
    /\ sinceFailure = AUTH_RETRY_COOLDOWN

-----------------------------------------------------------------------------
(* Steps every path shares.                                                *)

(* Mutant: the expiry of the ticket is forgotten.                          *)
UsableForever == ticket # NONE

Usable == ticket # NONE /\ expiresIn > 0

First(c) == queue # << >> /\ Head(queue) = c /\ pc[c] = "queued"

(* While polling, a failed call returns None; a validating call raises.    *)
Outcome(c, failure) ==
    IF c \notin Raising THEN "null"
    ELSE IF failure = "Transport" THEN "CannotConnect" ELSE failure

Finish(c, r) ==
    /\ pc' = [pc EXCEPT ![c] = "idle"]
    /\ result' = [result EXCEPT ![c] = r]
    /\ held' = [held EXCEPT ![c] = NONE]
    /\ sentCsrf' = [sentCsrf EXCEPT ![c] = NONE]
    /\ age' = [age EXCEPT ![c] = 0]
    /\ reply' = [reply EXCEPT ![c] = "none"]

(* The request goes out with the pair it was handed: the ticket as a       *)
(* Cookie header, the CSRF token, if there is one, when the method is not  *)
(* GET.                                                                    *)
Send(c, t, token) ==
    /\ pc' = [pc EXCEPT ![c] = "sent"]
    /\ held' = [held EXCEPT ![c] = t]
    /\ sentCsrf' = [sentCsrf EXCEPT ![c] = IF c \in Writers THEN token ELSE NONE]
    /\ age' = [age EXCEPT ![c] = 0]
    /\ reply' = [reply EXCEPT ![c] = "none"]
    /\ result' = [result EXCEPT ![c] = "none"]

-----------------------------------------------------------------------------
(* _api_request up to the request, and _ensure_ticket inside it.           *)

Begin(c) ==
    /\ pc[c] = "idle"
    /\ \/ /\ mode = "ticket"
          /\ queue' = Append(queue, c)
          /\ pc' = [pc EXCEPT ![c] = "queued"]
          /\ result' = [result EXCEPT ![c] = "none"]
          /\ UNCHANGED <<held, sentCsrf, age, reply>>
       \/ /\ mode = "token"
          /\ Send(c, NONE, NONE)
          /\ UNCHANGED queue
       \/ /\ mode = "incomplete"
          /\ Finish(c, Outcome(c, "AuthenticationError"))
          /\ UNCHANGED queue
    /\ UNCHANGED <<cacheVars, holder, serverVars, sinceFailure>>

(* The lock is free and c is next: no await follows on these two paths, so *)
(* the lock is taken and given back in one step.                           *)
UseCached(c) ==
    /\ holder = NONE /\ First(c)
    /\ Usable
    /\ queue' = Tail(queue)
    /\ Send(c, ticket, csrf)
    /\ UNCHANGED <<cacheVars, holder, serverVars, sinceFailure>>

(* Mutant: the remembered error is raised whoever asks.                    *)
RefuseByRaising(c) ==
    /\ holder = NONE /\ First(c)
    /\ ~Usable
    /\ retryIn > 0
    /\ queue' = Tail(queue)
    /\ Finish(c, authError)
    /\ UNCHANGED <<cacheVars, holder, serverVars, sinceFailure>>

RefuseInCooldown(c) ==
    /\ holder = NONE /\ First(c)
    /\ ~Usable
    /\ retryIn > 0
    /\ queue' = Tail(queue)
    /\ Finish(c, Outcome(c, authError))
    /\ UNCHANGED <<cacheVars, holder, serverVars, sinceFailure>>

(* Mutant: the cache is not looked at again once the lock is held.         *)
StartLoginBlindly(c) ==
    /\ holder = NONE /\ First(c)
    /\ retryIn = 0
    /\ queue' = Tail(queue)
    /\ holder' = c
    /\ pc' = [pc EXCEPT ![c] = "login"]
    /\ UNCHANGED <<cacheVars, held, sentCsrf, age, reply, result,
                   serverVars, sinceFailure>>

StartLogin(c) ==
    /\ holder = NONE /\ First(c)
    /\ ~Usable
    /\ retryIn = 0
    /\ queue' = Tail(queue)
    /\ holder' = c
    /\ pc' = [pc EXCEPT ![c] = "login"]
    /\ UNCHANGED <<cacheVars, held, sentCsrf, age, reply, result,
                   serverVars, sinceFailure>>

(* data.get("CSRFPreventionToken"): the token of a login, or None.         *)
TokenOf(t) == IF t \in tokenless THEN NONE ELSE t

(* Mutant: a CSRF token that is already cached is kept.                    *)
LoginOkKeepsCsrf(c) ==
    LET token == IF csrf = NONE THEN TokenOf(held[c]) ELSE csrf
    IN  /\ pc[c] = "login" /\ holder = c
        /\ held[c] # NONE
        /\ ticket' = held[c]
        /\ csrf' = token
        /\ expiresIn' = TICKET_LIFETIME
        /\ retryIn' = 0
        /\ holder' = NONE
        /\ Send(c, held[c], token)
        /\ UNCHANGED <<authError, queue, serverVars, sinceFailure>>

LoginOk(c) ==
    /\ pc[c] = "login" /\ holder = c
    /\ held[c] # NONE
    /\ ticket' = held[c]
    /\ csrf' = TokenOf(held[c])
    /\ expiresIn' = TICKET_LIFETIME
    /\ retryIn' = 0
    /\ holder' = NONE
    /\ Send(c, held[c], TokenOf(held[c]))
    /\ UNCHANGED <<authError, queue, serverVars, sinceFailure>>

(* Mutant: only the three known errors arm the cooldown.                   *)
LoginFailArmsSometimes(c, failure) ==
    /\ pc[c] = "login" /\ holder = c
    /\ retryIn' = IF failure \in AuthErrors THEN AUTH_RETRY_COOLDOWN ELSE retryIn
    /\ authError' = IF failure \in AuthErrors THEN failure ELSE "CannotConnect"
    /\ holder' = NONE
    /\ Finish(c, Outcome(c, failure))
    /\ sinceFailure' = 0
    /\ UNCHANGED <<ticket, csrf, expiresIn, queue, serverVars>>

(* Mutant: the error is remembered as it came.                             *)
LoginFailRaw(c, failure) ==
    /\ pc[c] = "login" /\ holder = c
    /\ retryIn' = AUTH_RETRY_COOLDOWN
    /\ authError' = failure
    /\ holder' = NONE
    /\ Finish(c, Outcome(c, failure))
    /\ sinceFailure' = 0
    /\ UNCHANGED <<ticket, csrf, expiresIn, queue, serverVars>>

(* Any failure, an answer that came too late or was lost included, arms    *)
(* the cooldown and is remembered.                                         *)
LoginFail(c, failure) ==
    /\ pc[c] = "login" /\ holder = c
    /\ retryIn' = AUTH_RETRY_COOLDOWN
    /\ authError' = IF failure \in AuthErrors THEN failure ELSE "CannotConnect"
    /\ holder' = NONE
    /\ Finish(c, Outcome(c, failure))
    /\ sinceFailure' = 0
    /\ UNCHANGED <<ticket, csrf, expiresIn, queue, serverVars>>

LoginTimeout(c) == age[c] = REQUEST_TIMEOUT /\ LoginFail(c, "Transport")

-----------------------------------------------------------------------------
(* _api_request from the answer on.                                        *)

Receive(c) ==
    /\ pc[c] = "sent"
    /\ reply[c] # "none"
    /\ \/ /\ reply[c] = "200"
          /\ Finish(c, "data")
          /\ UNCHANGED ticket
       \/ /\ reply[c] = "401" /\ c \in Raising
          /\ Finish(c, "AuthenticationError")
          /\ UNCHANGED ticket
       \/ /\ reply[c] = "401" /\ c \notin Raising
          /\ ticket' = NONE
          /\ Finish(c, "null")
       \/ /\ reply[c] = "403"
          /\ Finish(c, Outcome(c, "PermissionError"))
          /\ UNCHANGED ticket
       \/ /\ reply[c] = "error"
          /\ Finish(c, "null")
          /\ UNCHANGED ticket
    /\ UNCHANGED <<csrf, expiresIn, retryIn, authError, lockVars,
                   serverVars, sinceFailure>>

RequestFail(c, failure) ==
    /\ pc[c] = "sent"
    /\ Finish(c, Outcome(c, failure))
    /\ UNCHANGED <<cacheVars, lockVars, serverVars, sinceFailure>>

RequestTimeout(c) == age[c] = REQUEST_TIMEOUT /\ RequestFail(c, "Transport")

(* The caller's asyncio.timeout fires, or its entry is unloaded: the       *)
(* CancelledError passes every handler, a waiter leaves the queue and a    *)
(* holder gives the lock back without arming the cooldown.                 *)
Without(q, c) ==
    LET at == CHOOSE i \in 1..Len(q) : q[i] = c
    IN  SubSeq(q, 1, at - 1) \o SubSeq(q, at + 1, Len(q))

(* Mutant: a cancelled login keeps the lock.                               *)
CancelKeepsLock(c) ==
    /\ pc[c] # "idle"
    /\ queue' = IF pc[c] = "queued" THEN Without(queue, c) ELSE queue
    /\ Finish(c, "cancelled")
    /\ UNCHANGED <<cacheVars, holder, serverVars, sinceFailure>>

Cancel(c) ==
    /\ pc[c] # "idle"
    /\ queue' = IF pc[c] = "queued" THEN Without(queue, c) ELSE queue
    /\ holder' = IF holder = c THEN NONE ELSE holder
    /\ Finish(c, "cancelled")
    /\ UNCHANGED <<cacheVars, serverVars, sinceFailure>>

-----------------------------------------------------------------------------
(* The server and the clock.                                               *)

Fresh(t) ==
    /\ t \notin {ticket, csrf}
    /\ \A c \in Calls : t \notin {held[c], sentCsrf[c]}

(* What was known of a ticket nobody holds any more is of no consequence.  *)
StillHeld(S) == {t \in S : ~Fresh(t)}
LifeOf(t) == IF Fresh(t) THEN 0 ELSE serverLife[t]

(* The answer to a login has a CSRF token, or it has none.                 *)
IssueTicket(c, withToken) ==
    /\ pc[c] = "login" /\ held[c] = NONE
    /\ \E t \in Tickets :
          /\ Fresh(t) /\ t = CHOOSE u \in Tickets : Fresh(u)
          /\ held' = [held EXCEPT ![c] = t]
          /\ serverLife' = [u \in Tickets |-> IF u = t THEN SERVER_LIFETIME ELSE LifeOf(u)]
          /\ revoked' = StillHeld(revoked)
          /\ tokenless' = StillHeld(tokenless) \union {u \in {t} : ~withToken}
    /\ UNCHANGED <<mode, cacheVars, lockVars, pc, sentCsrf, age, reply,
                   result, sinceFailure>>

(* A live ticket, and for a write the CSRF token that belongs to it.       *)
Accepts(c) ==
    /\ held[c] # NONE => serverLife[held[c]] > 0
    /\ c \in Writers => sentCsrf[c] = held[c]

Answer(c, status) ==
    /\ pc[c] = "sent" /\ reply[c] = "none"
    /\ status # "none"
    /\ ~Accepts(c) => status = "401"
    /\ Accepts(c) /\ mode = "ticket" => status # "401"
    /\ reply' = [reply EXCEPT ![c] = status]
    /\ UNCHANGED <<cacheVars, lockVars, pc, held, sentCsrf, age, result,
                   serverVars, sinceFailure>>

Revoke(t) ==
    /\ serverLife[t] > 0 /\ ~Fresh(t)
    /\ serverLife' = [serverLife EXCEPT ![t] = 0]
    /\ revoked' = revoked \union {t}
    /\ UNCHANGED <<mode, tokenless, cacheVars, lockVars, callVars, sinceFailure>>

OnTheWire(c) == pc[c] \in {"login", "sent"}

Less(n) == IF n = 0 THEN 0 ELSE n - 1

(* Time does not pass a request whose ClientTimeout is due.                *)
Tick ==
    /\ \A c \in Calls : OnTheWire(c) => age[c] < REQUEST_TIMEOUT
    /\ age' = [c \in Calls |-> IF OnTheWire(c) THEN age[c] + 1 ELSE age[c]]
    /\ expiresIn' = Less(expiresIn)
    /\ retryIn' = Less(retryIn)
    /\ serverLife' = [t \in Tickets |-> Less(LifeOf(t))]
    /\ revoked' = StillHeld(revoked) /\ tokenless' = StillHeld(tokenless)
    /\ sinceFailure' = IF sinceFailure < AUTH_RETRY_COOLDOWN
                       THEN sinceFailure + 1 ELSE sinceFailure
    /\ UNCHANGED <<mode, ticket, csrf, authError, lockVars, pc, held,
                   sentCsrf, reply, result>>

-----------------------------------------------------------------------------
TakeLock(c) == UseCached(c) \/ RefuseInCooldown(c) \/ StartLogin(c)

CallStep(c) ==
    \/ Begin(c)
    \/ TakeLock(c)
    \/ LoginOk(c)
    \/ \E failure \in Failures : LoginFail(c, failure)
    \/ Receive(c)
    \/ \E failure \in {"Transport", "Other"} : RequestFail(c, failure)
    \/ Cancel(c)
    \/ \E withToken \in BOOLEAN : IssueTicket(c, withToken)
    \/ \E status \in Replies : Answer(c, status)

Next ==
    \/ \E c \in Calls : CallStep(c)
    \/ \E t \in Tickets : Revoke(t)
    \/ Tick

Spec == Init /\ [][Next]_vars

(* What the event loop and aiohttp guarantee: a free lock is handed to the *)
(* first waiter, an answer is taken, a due ClientTimeout fires, time goes  *)
(* on.  Nothing makes the server answer or a caller call again.            *)
Fairness ==
    /\ WF_vars(Tick)
    /\ \A c \in Calls :
          /\ WF_vars(TakeLock(c))
          /\ WF_vars(Receive(c))
          /\ WF_vars(LoginTimeout(c))
          /\ WF_vars(RequestTimeout(c))

FairSpec == Spec /\ Fairness

-----------------------------------------------------------------------------
(* Correctness.                                                            *)

(* The lock is held exactly by the call that logs in: neither an error nor *)
(* a cancellation leaks it (_ensure_ticket, async with _auth_lock).        *)
LockHeldByLogin ==
    \A c \in Calls : pc[c] = "login" <=> holder = c

(* A request in flight never pairs a ticket with the CSRF token of another *)
(* login, and a write goes out with the token its login brought, whatever  *)
(* 401s and logins happened since the call left the lock (_ensure_ticket's *)
(* docstring).  A login may bring none: api.py:246 then sends no header.   *)
PairedCsrf ==
    \A c \in Calls :
       pc[c] = "sent" /\ held[c] # NONE =>
          sentCsrf[c] = IF c \in Writers THEN TokenOf(held[c]) ELSE NONE

(* A request never races the expiry of its ticket: until its own timeout   *)
(* the server still honours the ticket it carries, unless it revoked it.   *)
NoExpiryRace ==
    \A c \in Calls :
       pc[c] = "sent" /\ held[c] # NONE /\ held[c] \notin revoked
          => serverLife[held[c]] > 0

(* The calls get what SharedTicket promises: parallel calls never log in   *)
(* twice for one need, a login that succeeds never replaces a ticket that  *)
(* could still be used, and a request carries the ticket that was usable   *)
(* when it left the lock, whatever 401s and cancellations come in between. *)
Promise == INSTANCE SharedTicket WITH
    usable <- IF Usable THEN ticket ELSE NONE,
    login <- holder,
    cooling <- retryIn > 0,
    given <- [c \in Calls |-> IF pc[c] = "sent" THEN held[c] ELSE NONE]

ImplementsSharedTicket == Promise!Spec

(* After a failed login the server sees no other login from this client    *)
(* for AUTH_RETRY_COOLDOWN, however many calls are waiting.                *)
LoginStarts(c) == pc[c] = "queued" /\ pc'[c] = "login"
FailedLoginIsRemembered ==
    [][\A c \in Calls :
          LoginStarts(c) => sinceFailure = AUTH_RETRY_COOLDOWN]_vars

(* The contract of _api_request on all its paths: a polling call never     *)
(* raises, and a validating call never hides a failure behind None unless  *)
(* the server itself answered with some other HTTP error.                  *)
ErrorContract ==
    [][\A c \in Calls :
          result[c] = "none" /\ result'[c] # "none" =>
             IF c \in Raising
             THEN result'[c] = "null" => reply[c] = "error"
             ELSE result'[c] \in {"data", "null", "cancelled"}]_vars

(* Every call comes back, however the logins of the others end.            *)
EveryCallReturns ==
    \A c \in Calls : pc[c] # "idle" ~> pc[c] = "idle"
=============================================================================
