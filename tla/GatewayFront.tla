---------------------------- MODULE GatewayFront ----------------------------
(***************************************************************************)
(* What a request passes before a handler of the gateway sees it, from the *)
(* outside in (crates/kavach-gateway/src/server.rs): the rate limiter, the *)
(* semaphore of concurrent requests, the timeout, the limit of the body    *)
(* and, below /api, the bearer token.  The wait for the semaphore is       *)
(* outside the timeout.                                                    *)
(*                                                                         *)
(* Time goes in ticks, Second ticks to a second.  A request is             *)
(* [api, preflight, auth, body, sized, handler]: it is an OPTIONS request  *)
(* or not, it has a Content-Length or not, and its handler is "prompt"     *)
(* when it returns, "stalled" when it awaits what may never come, such as  *)
(* the rest of the body.  Handlers that block their thread, which no timer *)
(* interrupts, are left out (GatewayPermits has them).                     *)
(***************************************************************************)
EXTENDS GatewayConfig, FiniteSets

CONSTANTS
    Files, Environments, Credentials, Worlds,  \* what the program may be started with
    Clients,          \* requests on their way
    Kinds,            \* what a request may be
    PerSecond, Burst, \* the limits of the rate limiter
    Concurrency,      \* permits of the semaphore
    Second,           \* ticks in a second
    MaxClock          \* bound on the clock

ASSUME FrontAssumption ==
    /\ PerSecond \in Nat /\ Burst \in Nat /\ Concurrency \in Nat
    /\ Second \in Nat \ {0} /\ MaxClock \in Nat

\* The limits are unsigned integers (u64), where a layer gives them at all.
Limits == {"request_body_limit", "request_timeout_seconds"}
Typed(layer) == \A k \in DOMAIN layer \cap Limits : layer[k] \in Nat \cup {Unreadable}

ASSUME LayerAssumption ==
    /\ \A file \in Files : Typed(file.keys)
    /\ \A env \in Environments : Typed(env)

VARIABLES
    gateway,    \* what `kavach serve` has come to, with its configuration and token
    clock,      \* the monotonic clock
    http,       \* [client -> its request: step, kind, the clock it read, status]
    stamps,     \* RateLimiterInner.timestamps, each with the request that left it
    queue,      \* requests that wait for the semaphore, in order
    admitted    \* the stamps of requests let through while their clock was still right

frontVars == <<gateway, clock, http, stamps, queue, admitted>>

Fresh(kind) == [step |-> "sent", kind |-> kind, now |-> 0, status |-> 0]

FrontInit ==
    /\ gateway = [state |-> "off", cfg |-> Defaults, token |-> Unreadable]
    /\ clock = 0
    /\ http \in [Clients -> {Fresh(kind) : kind \in Kinds}]
    /\ stamps = {} /\ queue = <<>> /\ admitted = {}

At(c, step) == http[c].step = step
Goes(c, step) == http' = [http EXCEPT ![c].step = step, ![c].now = 0]
Responds(c, status) == http' = [http EXCEPT ![c].step = "done", ![c].status = status,
                                            ![c].now = 0]

Start(file, env, token, world) ==
    /\ gateway.state = "off"
    /\ LET state == Serve(file, env, token, world)
       IN  gateway' = IF state = "listening"
                      THEN [state |-> state, cfg |-> LoadConfig(file, env).cfg, token |-> token]
                      ELSE [gateway EXCEPT !.state = state]
    /\ UNCHANGED <<clock, http, stamps, queue, admitted>>

Tick ==
    /\ gateway.state = "listening" /\ clock < MaxClock
    /\ clock' = clock + 1
    /\ UNCHANGED <<gateway, http, stamps, queue, admitted>>

-----------------------------------------------------------------------------
(***************************************************************************)
(* rate_limit and RateLimiter::check.                                      *)
(***************************************************************************)

\* The clock is read before the lock is taken.
ReadClock(c) ==
    /\ gateway.state = "listening" /\ At(c, "sent")
    /\ http' = [http EXCEPT ![c].step = "clocked", ![c].now = clock]
    /\ UNCHANGED <<gateway, clock, stamps, queue, admitted>>

Least(a, b) == IF a < b THEN a ELSE b

\* A slow request forgets the stamps that are later than its own time.
Recent_Slow(now) == {s \in stamps : s.at <= now /\ now - s.at < Second}

\* duration_since saturates: a later stamp counts as no time ago.
Recent(now) == {s \in stamps : s.at > now \/ now - s.at < Second}

Check(c) ==
    LET recent == Recent(http[c].now)
        stamp == [client |-> c, at |-> http[c].now]
    IN  /\ At(c, "clocked")
        /\ IF Cardinality(recent) >= Burst \/ Cardinality(recent) >= PerSecond
           THEN /\ stamps' = recent
                /\ Responds(c, 429)
                /\ UNCHANGED <<queue, admitted>>
           ELSE /\ stamps' = recent \cup {stamp}
                /\ admitted' = IF http[c].now = clock THEN admitted \cup {stamp} ELSE admitted
                /\ queue' = Append(queue, c)
                /\ Goes(c, "queued")
        /\ UNCHANGED <<gateway, clock>>

-----------------------------------------------------------------------------
(***************************************************************************)
(* The semaphore, the timeout, the body limit and the token.               *)
(***************************************************************************)
Holders == {c \in Clients : http[c].step \in {"running", "handling"}}

\* concurrency_limit: acquire is fair.
Acquire(c) ==
    /\ queue # <<>> /\ Head(queue) = c /\ Cardinality(Holders) < Concurrency
    /\ queue' = Tail(queue)
    /\ Goes(c, "running")
    /\ UNCHANGED <<gateway, clock, stamps, admitted>>

\* require_auth and GatewayToken::verify.
Verified(auth) == auth # Unreadable /\ IsToken(auth) /\ auth.raw = gateway.token.raw

\* The layers inside the timeout, up to the handler: CorsLayer answers OPTIONS
\* before the token is looked at, and a body without a Content-Length is found
\* too long only when the handler reads it.
Enter(c) ==
    LET kind == http[c].kind
        long == kind.body > gateway.cfg.request_body_limit
    IN  /\ At(c, "running")
        /\ IF long /\ kind.sized THEN Responds(c, 413)
           ELSE IF kind.preflight THEN Responds(c, 200)
           ELSE IF kind.api /\ ~ Verified(kind.auth) THEN Responds(c, 401)
           ELSE IF long THEN Responds(c, 413)
           ELSE Goes(c, "handling")
        /\ UNCHANGED <<gateway, clock, stamps, queue, admitted>>

Handle(c) ==
    /\ At(c, "handling") /\ http[c].kind.handler = "prompt"
    /\ Responds(c, 200)
    /\ UNCHANGED <<gateway, clock, stamps, queue, admitted>>

\* Answers the client and leaves the handler running with its permit.
Expire_Detached(c) ==
    /\ At(c, "handling") /\ http[c].status = 0
    /\ http' = [http EXCEPT ![c].status = 504]
    /\ UNCHANGED <<gateway, clock, stamps, queue, admitted>>

\* request_timeout, when the time is up: the handler is dropped, and with it the permit goes back.
Expire(c) ==
    /\ At(c, "handling")
    /\ Responds(c, 504)
    /\ UNCHANGED <<gateway, clock, stamps, queue, admitted>>

FrontNext ==
    \/ \E file \in Files, env \in Environments, token \in Credentials, world \in Worlds :
            Start(file, env, token, world)
    \/ Tick
    \/ \E c \in Clients : \/ ReadClock(c) \/ Check(c) \/ Acquire(c) \/ Enter(c)
                          \/ Handle(c) \/ Expire(c)

FrontSpec == FrontInit /\ [][FrontNext]_frontVars

\* The executor polls every task that can run, and every timer goes off.
FrontFairness ==
    \A c \in Clients : /\ WF_frontVars(Check(c)) /\ WF_frontVars(Acquire(c))
                       /\ WF_frontVars(Enter(c)) /\ WF_frontVars(Handle(c))
                       /\ WF_frontVars(Expire(c))

-----------------------------------------------------------------------------
(***************************************************************************)
(* Properties.                                                             *)
(***************************************************************************)

\* A gateway that listens is on a loopback address, has a well-formed token,
\* fails closed, redacts, and has limits that are not zero, whatever the file
\* and the environment say and whichever wins.
ListensSafely ==
    gateway.state = "listening" =>
        /\ gateway.cfg.bind \in Loopback /\ IsToken(gateway.token)
        /\ gateway.cfg.fail_closed /\ gateway.cfg.redaction_enabled
        /\ gateway.cfg.request_body_limit > 0 /\ gateway.cfg.request_timeout_seconds > 0

\* Of the requests that were checked on time, the limiter lets no more than its
\* smaller limit through in any second, though slow requests put old stamps
\* into the list and take stamps out of it.
RateBound ==
    \A t \in 0 .. clock :
        Cardinality({s \in admitted : s.at \in t .. t + Second - 1}) <= Least(Burst, PerSecond)

\* Every request the limiter lets through is answered, though handlers that
\* await what never comes hold all permits of the semaphore.  It says nothing
\* of handlers that block their thread (see RequestsAnswered of GatewayPermits).
RequestsServed == \A c \in Clients : At(c, "queued") ~> At(c, "done")
=============================================================================
