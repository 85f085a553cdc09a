--------------------------- MODULE GatewayPermits ---------------------------
(***************************************************************************)
(* Execution permits in the gateway: the handlers of /requests/evaluate,   *)
(* /requests/execute and /policies/reload (crates/kavach-gateway), the     *)
(* runtime calls they make (crates/kavach-runtime) and the permit checks   *)
(* of the enforcement adapters (crates/kavach-enforcement).                *)
(*                                                                         *)
(* Handlers run on the worker threads of the server and share three kinds  *)
(* of blocking locks: the RwLock around the runtime, the Mutex around the  *)
(* registry of issued permits, and one Mutex per permit.  An action is     *)
(* what a handler does between two points where it may block or where     *)
(* another handler can see the difference.                                 *)
(***************************************************************************)
EXTENDS Naturals, FiniteSets

CONSTANTS
    Handlers,     \* requests being served at the same time
    Permits,      \* permits, named by their token hash (fresh in the code)
    Calls,        \* [Handlers -> SUBSET Ops]: the endpoints a handler serves
    Ttl,          \* RuntimeConfig.permit_ttl
    Capacity,     \* MAX_ISSUED_PERMITS
    Configs,      \* the RuntimeConfig values the gateway may be started with
    Faults,       \* subset of {"audit", "redaction"} that may happen
    MaxCalls,     \* bound on the requests a handler serves
    MaxTime,      \* bound on the clock
    NoHandler, NoPermit

Ops == {"evaluate", "execute", "reload"}
RuntimeConfig == [dry_run : BOOLEAN, audit_fail_closed : BOOLEAN,
                  redaction_enabled : BOOLEAN]

ASSUME GatewayAssumption ==
    /\ Calls \in [Handlers -> SUBSET Ops]
    /\ Configs \subseteq RuntimeConfig
    /\ Ttl \in Nat
    /\ Capacity \in Nat
    /\ MaxCalls \in Nat
    /\ MaxTime \in Nat
    /\ NoHandler \notin Handlers
    /\ NoPermit \notin Permits

VARIABLES
    config,       \* the flags of the RuntimeConfig
    now,          \* the clock
    engine,       \* the version of the PolicyEngine in the runtime
    readers,      \* handlers that hold the runtime's read lock
    writer,       \* the handler that holds its write lock, or NoHandler
    waiting,      \* handlers blocked in runtime.write()
    registryLock, \* the handler that holds the registry's Mutex
    registry,     \* permits in the IssuedPermitRegistry
    permitLock,   \* permitLock[p]: the handler that holds p's Mutex
    permit,       \* permit[p]: the ExecutionPermit
    hnd,          \* hnd[h]: the request h serves, its step and its locals
    served,       \* served[h]: requests h has begun (bounded by MaxCalls)
    audit,        \* the events on the audit chain, with their permit
    effects       \* effects[p]: side effects performed under p (history)

locks == <<readers, writer, waiting>>
vars == <<config, now, engine, locks, registryLock, registry, permitLock,
          permit, hnd, served, audit, effects>>

----------------------------------------------------------------------------
(* State                                                                   *)

(* The fields engine (the version that decided) and dry_run (the input it  *)
(* was used with) are history: the code has no such fields.                *)
Permit == [issued : BOOLEAN, consumed : BOOLEAN, expires_at : Nat,
           engine : Nat, dry_run : BOOLEAN]

(* What a client sends to /requests/execute with a permit it was given:    *)
(* "good"; a secret, digest or scope that does not match, or an operation  *)
(* that has no adapter ("mismatch"); an input of the wrong kind for the    *)
(* operation ("wrong_input"); a command input that asks for a dry run of   *)
(* this one command ("dry_run").                                           *)
Presentations == {"good", "mismatch", "wrong_input", "dry_run"}

Steps == {"idle",
          "read", "evaluate", "registry", "retain",
          "permit", "verify", "dispatch", "effect", "redact",
          "finish_ok", "finish_failed", "discard", "remove",
          "write", "swap"}

Errors == {"none", "audit", "redaction", "other"}

Frame == [pc : Steps, op : Ops, permit : Permits \cup {NoPermit},
          present : Presentations, todo : SUBSET Permits, err : Errors]

IdleFrame == [pc |-> "idle", op |-> "evaluate", permit |-> NoPermit,
              present |-> "good", todo |-> {}, err |-> "none"]

Categories == {"DecisionAllow", "ExecutionStarted", "ExecutionSucceeded",
               "ExecutionFailed"}

is_expired(p) == now >= permit[p].expires_at
is_consumed(p) == permit[p].consumed

Goto(h, step) == hnd' = [hnd EXCEPT ![h].pc = step]

(* The handler's function returns: its guard on the runtime, if any, is    *)
(* dropped.                                                                *)
Return(h) == /\ hnd' = [hnd EXCEPT ![h] = IdleFrame]
             /\ readers' = readers \ {h}
             /\ UNCHANGED <<writer, waiting>>

(* Mutant: a failed append is logged and ignored.                          *)
Appended_FailsOpen(cat, p) ==
    \/ audit' = audit \cup {<<cat, p>>}
    \/ "audit" \in Faults /\ audit' = audit

(* audit_decision, audit_execution_started, audit_execution_result: redact *)
(* the resource's summary, then append one event.  Appended: the caller    *)
(* goes on, with the event on the chain or, when the append fails and      *)
(* audit_fail_closed is off, without it.  AppendFails: it gets an error.   *)
Appended(cat, p) ==
    \/ audit' = audit \cup {<<cat, p>>}
    \/ /\ "audit" \in Faults
       /\ ~config.audit_fail_closed
       /\ audit' = audit

RedactionFails == "redaction" \in Faults /\ config.redaction_enabled

AppendFails(err) ==
    /\ \/ err = "audit" /\ "audit" \in Faults /\ config.audit_fail_closed
       \/ err = "redaction" /\ RedactionFails
    /\ audit' = audit

Start(h, op) == /\ hnd[h].pc = "idle"
                /\ op \in Calls[h]
                /\ served[h] < MaxCalls
                /\ served' = [served EXCEPT ![h] = @ + 1]

----------------------------------------------------------------------------
(* POST /requests/evaluate                                                 *)

Evaluate(h) ==
    /\ Start(h, "evaluate")
    /\ hnd' = [hnd EXCEPT ![h].op = "evaluate", ![h].pc = "read"]
    /\ UNCHANGED <<config, now, engine, locks, registryLock, registry,
                   permitLock, permit, audit, effects>>

(* RwLock::read of the standard library on Linux: it blocks behind a       *)
(* writer that holds the lock and behind one that waits for it.            *)
AcquireRead(h) ==
    /\ hnd[h].pc = "read"
    /\ writer = NoHandler
    /\ waiting = {}
    /\ readers' = readers \cup {h}
    /\ Goto(h, IF hnd[h].op = "evaluate" THEN "evaluate" ELSE "verify")
    /\ UNCHANGED <<config, now, engine, writer, waiting, registryLock,
                   registry, permitLock, permit, served, audit, effects>>

(* Runtime::evaluate answers Denied or ApprovalRequired, or fails: the     *)
(* handler returns and no permit exists.                                   *)
NotPermitted(h) ==
    /\ hnd[h].pc = "evaluate"
    /\ Return(h)
    /\ UNCHANGED <<config, now, engine, registryLock, registry, permitLock,
                   permit, served, audit, effects>>

(* Mutant: the runtime's read guard is dropped before register.            *)
IssuePermit_DropsGuard(h) ==
    /\ hnd[h].pc = "evaluate"
    /\ \E p \in Permits :
          /\ ~permit[p].issued
          /\ permit' = [permit EXCEPT ![p] =
                [issued |-> TRUE, consumed |-> FALSE,
                 expires_at |-> now + Ttl, engine |-> engine,
                 dry_run |-> FALSE]]
          /\ Appended("DecisionAllow", p)
          /\ hnd' = [hnd EXCEPT ![h].pc = "registry", ![h].permit = p]
    /\ readers' = readers \ {h}
    /\ UNCHANGED <<config, now, engine, writer, waiting, registryLock,
                   registry, permitLock, served, effects>>

(* Runtime::evaluate answers Permitted: a new permit, bound to the request *)
(* by its digest, and a DecisionAllow event.                               *)
IssuePermit(h) ==
    /\ hnd[h].pc = "evaluate"
    /\ \E p \in Permits :
          /\ ~permit[p].issued
          /\ permit' = [permit EXCEPT ![p] =
                [issued |-> TRUE, consumed |-> FALSE,
                 expires_at |-> now + Ttl, engine |-> engine,
                 dry_run |-> FALSE]]
          /\ Appended("DecisionAllow", p)
          /\ hnd' = [hnd EXCEPT ![h].pc = "registry", ![h].permit = p]
    /\ UNCHANGED <<config, now, engine, locks, registryLock, registry,
                   permitLock, served, effects>>

(* IssuedPermitRegistry::register and ::get begin alike: take the mutex    *)
(* and purge the map.                                                      *)
LockRegistry(h) ==
    /\ hnd[h].pc = "registry"
    /\ registryLock = NoHandler
    /\ registryLock' = h
    /\ hnd' = [hnd EXCEPT ![h].pc = "retain", ![h].todo = registry]
    /\ UNCHANGED <<config, now, engine, locks, registry, permitLock, permit,
                   served, audit, effects>>

(* permits.retain(..): each entry's own mutex is taken for as long as the  *)
(* entry is looked at, in the arbitrary order of the map.  The purge       *)
(* blocks on an entry that a handler is executing.                         *)
Retain(h) ==
    /\ hnd[h].pc = "retain"
    /\ \E p \in hnd[h].todo :
          /\ permitLock[p] = NoHandler
          /\ hnd' = [hnd EXCEPT ![h].todo = @ \ {p}]
          /\ registry' = IF is_expired(p) \/ is_consumed(p)
                         THEN registry \ {p}
                         ELSE registry
    /\ UNCHANGED <<config, now, engine, locks, registryLock, permitLock,
                   permit, served, audit, effects>>

(* The rest of register: the capacity check and the insertion.  Both ways  *)
(* the handler returns; over capacity the permit is lost.                  *)
Register(h) ==
    /\ hnd[h].pc = "retain"
    /\ hnd[h].op = "evaluate"
    /\ hnd[h].todo = {}
    /\ registry' = IF Cardinality(registry) >= Capacity
                   THEN registry
                   ELSE registry \cup {hnd[h].permit}
    /\ registryLock' = NoHandler
    /\ Return(h)
    /\ UNCHANGED <<config, now, engine, permitLock, permit, served, audit,
                   effects>>

----------------------------------------------------------------------------
(* POST /requests/execute                                                  *)

(* A client can name any permit that was issued.                           *)
Execute(h) ==
    /\ Start(h, "execute")
    /\ \E p \in Permits, how \in Presentations :
          /\ permit[p].issued
          /\ hnd' = [hnd EXCEPT ![h] =
                [IdleFrame EXCEPT !.op = "execute", !.pc = "registry",
                                  !.permit = p, !.present = how]]
    /\ UNCHANGED <<config, now, engine, locks, registryLock, registry,
                   permitLock, permit, audit, effects>>

(* Mutant: the registry's guard lives on while the permit is executed.     *)
Lookup_KeepsGuard(h) ==
    /\ hnd[h].pc = "retain"
    /\ hnd[h].op = "execute"
    /\ hnd[h].todo = {}
    /\ \/ /\ hnd[h].permit \notin registry
          /\ registryLock' = NoHandler
          /\ Return(h)
       \/ /\ hnd[h].permit \in registry
          /\ Goto(h, "permit")
          /\ UNCHANGED <<locks, registryLock>>
    /\ UNCHANGED <<config, now, engine, registry, permitLock, permit, served,
                   audit, effects>>

(* The rest of get: an unknown permit ends the request, a known one is     *)
(* cloned out of the map and the registry is unlocked.                     *)
Lookup(h) ==
    /\ hnd[h].pc = "retain"
    /\ hnd[h].op = "execute"
    /\ hnd[h].todo = {}
    /\ registryLock' = NoHandler
    /\ \/ /\ hnd[h].permit \notin registry
          /\ Return(h)
       \/ /\ hnd[h].permit \in registry
          /\ Goto(h, "permit")
          /\ UNCHANGED locks
    /\ UNCHANGED <<config, now, engine, registry, permitLock, permit, served,
                   audit, effects>>

(* permit_entry.lock(), then state.runtime.read() with that lock held.     *)
LockPermit(h) ==
    /\ hnd[h].pc = "permit"
    /\ permitLock[hnd[h].permit] = NoHandler
    /\ permitLock' = [permitLock EXCEPT ![hnd[h].permit] = h]
    /\ Goto(h, "read")
    /\ UNCHANGED <<config, now, engine, locks, registryLock, registry, permit,
                   served, audit, effects>>

Fail(h, step, err) ==
    hnd' = [hnd EXCEPT ![h].pc = step, ![h].err = err]

(* Runtime::execute up to the audit: any check that fails is an error, and *)
(* an operation without an adapter is one too.                             *)
Acceptable(h) == /\ ~config.dry_run
                 /\ hnd[h].present # "mismatch"
                 /\ ~is_expired(hnd[h].permit)
                 /\ ~is_consumed(hnd[h].permit)

RejectPermit(h) ==
    /\ hnd[h].pc = "verify"
    /\ ~Acceptable(h)
    /\ Fail(h, "discard", "other")
    /\ UNCHANGED <<config, now, engine, locks, registryLock, registry,
                   permitLock, permit, served, audit, effects>>

(* audit_execution_started, before any side effect.                        *)
AuditStarted(h) ==
    /\ hnd[h].pc = "verify"
    /\ Acceptable(h)
    /\ \/ /\ Appended("ExecutionStarted", hnd[h].permit)
          /\ Goto(h, "dispatch")
       \/ \E err \in Errors : /\ AppendFails(err)
                              /\ Fail(h, "discard", err)
    /\ UNCHANGED <<config, now, engine, locks, registryLock, registry,
                   permitLock, permit, served, effects>>

(* The match on the adapter kind rejects an input of the wrong kind, and   *)
(* an adapter a resource of the wrong kind, before the permit is touched.  *)
WrongInput(h) ==
    /\ hnd[h].pc = "dispatch"
    /\ hnd[h].present = "wrong_input"
    /\ Fail(h, "finish_failed", "other")
    /\ UNCHANGED <<config, now, engine, locks, registryLock, registry,
                   permitLock, permit, served, audit, effects>>

(* Mutant: the adapter verifies the permit and does not consume it.        *)
ConsumePermit_OnlyVerifies(h) ==
    /\ hnd[h].pc = "dispatch"
    /\ hnd[h].present # "wrong_input"
    /\ IF is_expired(hnd[h].permit) \/ is_consumed(hnd[h].permit)
       THEN Fail(h, "finish_failed", "other")
       ELSE Goto(h, "effect")
    /\ UNCHANGED <<config, now, engine, locks, registryLock, registry,
                   permitLock, permit, served, audit, effects>>

(* verify_and_consume_permit, verify_command_permit,                       *)
(* verify_network_permit: the adapter checks the permit once more, against *)
(* a later clock, and consumes it.                                         *)
ConsumePermit(h) ==
    /\ hnd[h].pc = "dispatch"
    /\ hnd[h].present # "wrong_input"
    /\ LET p == hnd[h].permit
       IN  IF is_expired(p) \/ is_consumed(p)
           THEN /\ Fail(h, "finish_failed", "other")
                /\ UNCHANGED permit
           ELSE /\ permit' = [permit EXCEPT
                      ![p].consumed = TRUE,
                      ![p].dry_run = hnd[h].present = "dry_run"]
                /\ Goto(h, "effect")
    /\ UNCHANGED <<config, now, engine, locks, registryLock, registry,
                   permitLock, served, audit, effects>>

(* Mutant: an error of the adapter is taken for a result.                  *)
PerformEffect_IgnoresError(h) ==
    /\ hnd[h].pc = "effect"
    /\ effects' \in {effects, [effects EXCEPT ![hnd[h].permit] = @ + 1]}
    /\ Goto(h, "redact")
    /\ UNCHANGED <<config, now, engine, locks, registryLock, registry,
                   permitLock, permit, served, audit>>

(* The adapter's own checks and its operation.  It may fail before the     *)
(* side effect, or after part of it (a command that was spawned and timed  *)
(* out, a request that was sent).  The dry run of a command returns a      *)
(* result after the checks.                                                *)
PerformEffect(h) ==
    /\ hnd[h].pc = "effect"
    /\ \/ /\ hnd[h].present # "dry_run"
          /\ effects' = [effects EXCEPT ![hnd[h].permit] = @ + 1]
          /\ Goto(h, "redact") \/ Fail(h, "finish_failed", "other")
       \/ /\ hnd[h].present = "dry_run"
          /\ UNCHANGED effects
          /\ Goto(h, "redact")
       \/ /\ UNCHANGED effects
          /\ Fail(h, "finish_failed", "other")
    /\ UNCHANGED <<config, now, engine, locks, registryLock, registry,
                   permitLock, permit, served, audit>>

(* ExecutionResult::redacted, which fails closed.                          *)
RedactOutput(h) ==
    /\ hnd[h].pc = "redact"
    /\ \/ Goto(h, "finish_ok")
       \/ /\ RedactionFails
          /\ Fail(h, "finish_failed", "redaction")
    /\ UNCHANGED <<config, now, engine, locks, registryLock, registry,
                   permitLock, permit, served, audit, effects>>

(* audit_execution_result, from execute or from finish_failed_execution.   *)
AuditResult(h) ==
    /\ \E cat \in {"ExecutionSucceeded", "ExecutionFailed"} :
          /\ hnd[h].pc = (IF cat = "ExecutionSucceeded" THEN "finish_ok"
                                                       ELSE "finish_failed")
          /\ \/ /\ Appended(cat, hnd[h].permit)
                /\ Goto(h, "discard")
             \/ \E err \in Errors : /\ AppendFails(err)
                                    /\ Fail(h, "discard", err)
    /\ UNCHANGED <<config, now, engine, locks, registryLock, registry,
                   permitLock, permit, served, effects>>

(* discard_permit, and drop(permit).                                       *)
UnlockPermit(h) ==
    /\ hnd[h].pc = "discard"
    /\ permitLock' = [permitLock EXCEPT ![hnd[h].permit] = NoHandler]
    /\ \/ /\ is_consumed(hnd[h].permit) \/ is_expired(hnd[h].permit)
          /\ Goto(h, "remove")
          /\ UNCHANGED locks
       \/ /\ ~is_consumed(hnd[h].permit)
          /\ ~is_expired(hnd[h].permit)
          /\ Return(h)
    /\ UNCHANGED <<config, now, engine, registryLock, registry, permit,
                   served, audit, effects>>

(* IssuedPermitRegistry::remove, with the runtime's read guard still held. *)
RemovePermit(h) ==
    /\ hnd[h].pc = "remove"
    /\ registryLock = NoHandler
    /\ registry' = registry \ {hnd[h].permit}
    /\ Return(h)
    /\ UNCHANGED <<config, now, engine, registryLock, permitLock, permit,
                   served, audit, effects>>

----------------------------------------------------------------------------
(* POST /policies/reload                                                   *)

(* The files are read before the lock is asked for; a file that does not   *)
(* load ends the request there.                                            *)
Reload(h) ==
    /\ Start(h, "reload")
    /\ \/ /\ hnd' = [hnd EXCEPT ![h].op = "reload", ![h].pc = "write"]
          /\ waiting' = waiting \cup {h}
       \/ UNCHANGED <<hnd, waiting>>
    /\ UNCHANGED <<config, now, engine, readers, writer, registryLock,
                   registry, permitLock, permit, audit, effects>>

AcquireWrite(h) ==
    /\ hnd[h].pc = "write"
    /\ readers = {}
    /\ writer = NoHandler
    /\ writer' = h
    /\ waiting' = waiting \ {h}
    /\ Goto(h, "swap")
    /\ UNCHANGED <<config, now, engine, readers, registryLock, registry,
                   permitLock, permit, served, audit, effects>>

(* KavachRuntime::reload_policies: policies that do not validate leave the *)
(* engine as it is.                                                        *)
ReloadPolicies(h) ==
    /\ hnd[h].pc = "swap"
    /\ engine' \in {engine, engine + 1}
    /\ writer' = NoHandler
    /\ hnd' = [hnd EXCEPT ![h] = IdleFrame]
    /\ UNCHANGED <<config, now, readers, waiting, registryLock, registry,
                   permitLock, permit, served, audit, effects>>

----------------------------------------------------------------------------
(* The specification                                                       *)

Tick == /\ now < MaxTime
        /\ now' = now + 1
        /\ UNCHANGED <<config, engine, locks, registryLock, registry,
                       permitLock, permit, hnd, served, audit, effects>>

(* No request is being served: the server waits for the next one.          *)
Quiescent == /\ \A h \in Handlers : hnd[h].pc = "idle"
             /\ UNCHANGED vars

Init == /\ config \in Configs
        /\ now = 0
        /\ engine = 0
        /\ readers = {}
        /\ writer = NoHandler
        /\ waiting = {}
        /\ registryLock = NoHandler
        /\ registry = {}
        /\ permitLock = [p \in Permits |-> NoHandler]
        /\ permit = [p \in Permits |-> [issued |-> FALSE, consumed |-> FALSE,
                                       expires_at |-> 0, engine |-> 0,
                                       dry_run |-> FALSE]]
        /\ hnd = [h \in Handlers |-> IdleFrame]
        /\ served = [h \in Handlers |-> 0]
        /\ audit = {}
        /\ effects = [p \in Permits |-> 0]

Arrive(h) == Evaluate(h) \/ Execute(h) \/ Reload(h)

Step(h) == \/ AcquireRead(h)  \/ NotPermitted(h) \/ IssuePermit(h)
           \/ LockRegistry(h) \/ Retain(h)       \/ Register(h)
           \/ Lookup(h)       \/ LockPermit(h)   \/ RejectPermit(h)
           \/ AuditStarted(h) \/ WrongInput(h)   \/ ConsumePermit(h)
           \/ PerformEffect(h) \/ RedactOutput(h) \/ AuditResult(h)
           \/ UnlockPermit(h) \/ RemovePermit(h)
           \/ AcquireWrite(h) \/ ReloadPolicies(h)

Next == \/ \E h \in Handlers : Arrive(h) \/ Step(h)
        \/ Tick
        \/ Quiescent

Spec == Init /\ [][Next]_vars

(* Every worker thread is scheduled.  Nothing is assumed of which waiting  *)
(* thread a released lock goes to: MaxCalls makes the load finite.         *)
FairSpec == Spec /\ \A h \in Handlers : WF_vars(Step(h))

----------------------------------------------------------------------------
(* Properties                                                              *)

(* Every variable has its type.                                            *)
TypeOK ==
    /\ config \in RuntimeConfig
    /\ now \in Nat
    /\ engine \in Nat
    /\ readers \subseteq Handlers
    /\ writer \in Handlers \cup {NoHandler}
    /\ waiting \subseteq Handlers
    /\ registryLock \in Handlers \cup {NoHandler}
    /\ registry \subseteq Permits
    /\ permitLock \in [Permits -> Handlers \cup {NoHandler}]
    /\ permit \in [Permits -> Permit]
    /\ hnd \in [Handlers -> Frame]
    /\ served \in [Handlers -> Nat]
    /\ audit \subseteq Categories \X Permits
    /\ effects \in [Permits -> Nat]

(* Single-use permits: however many handlers present a permit at the same  *)
(* time, and whatever fails, at most one side effect happens under it      *)
(* (the per-permit lock of execute and ExecutionPermit::consume).          *)
SingleExecution == \A p \in Permits : effects[p] <= 1

(* With audit_fail_closed on, no side effect happens off the record: the   *)
(* decision that allowed it and the start of its execution are on the      *)
(* audit chain (audit_decision, audit_execution_started).                  *)
EffectsOnRecord ==
    config.audit_fail_closed =>
        \A p \in Permits :
            effects[p] > 0 =>
                /\ <<"DecisionAllow", p>> \in audit
                /\ <<"ExecutionStarted", p>> \in audit

(* A finished execution under p has had its effect, unless p was spent on  *)
(* the dry run of one command.                                             *)
Performed(p) == /\ permit[p].consumed
                /\ effects[p] = IF permit[p].dry_run THEN 0 ELSE 1

(* An ExecutionSucceeded event tells of a side effect that did happen, or  *)
(* of the dry run of a command, and a gateway configured for dry runs      *)
(* performs none (the order of the steps of Runtime::execute).             *)
RecordIsTrue ==
    \A p \in Permits :
        /\ <<"ExecutionSucceeded", p>> \in audit => Performed(p)
        /\ config.dry_run => effects[p] = 0

(* Steps at which a handler holds the lock of its permit.                  *)
HoldsPermit(h) ==
    \/ hnd[h].pc = "read" /\ hnd[h].op # "evaluate"
    \/ hnd[h].pc \in {"verify", "dispatch", "effect", "redact", "finish_ok",
                      "finish_failed", "discard"}

(* What a handler on its way to the side effect can rely on, in spite of   *)
(* the other handlers: the lock of its permit is its own; past             *)
(* audit_execution_started this is no dry run and the event is there; at   *)
(* the side effect the permit is consumed and unused; after it, used, or   *)
(* spent on a dry run.                                                     *)
PathToEffect(h) ==
    LET p == hnd[h].permit
    IN  /\ hnd[h].pc \in {"registry", "retain", "permit", "remove"} =>
              p \in Permits /\ permit[p].issued
        /\ HoldsPermit(h) =>
              p \in Permits /\ permit[p].issued /\ permitLock[p] = h
        /\ hnd[h].pc \in {"dispatch", "effect"} =>
              /\ ~config.dry_run
              /\ config.audit_fail_closed =>
                    <<"ExecutionStarted", p>> \in audit
        /\ hnd[h].pc = "effect" =>
              /\ permit[p].consumed /\ effects[p] = 0
              /\ permit[p].dry_run <=> hnd[h].present = "dry_run"
        /\ hnd[h].pc \in {"redact", "finish_ok"} => Performed(p)

(* A used permit is consumed, and a permit that is not issued is unused;   *)
(* an issued one has its decision on record.                               *)
UseIsConsumption(p) ==
    /\ effects[p] > 0 => permit[p].consumed
    /\ permit[p].consumed => permit[p].issued
    /\ config.audit_fail_closed /\ permit[p].issued =>
          <<"DecisionAllow", p>> \in audit

(* The inductive invariant behind SingleExecution, EffectsOnRecord and     *)
(* RecordIsTrue: the lock of the permit is held from its verification to   *)
(* its consumption and the side effect.                                    *)
PermitInv ==
    /\ TypeOK
    /\ SingleExecution
    /\ EffectsOnRecord
    /\ RecordIsTrue
    /\ \A h \in Handlers : PathToEffect(h)
    /\ \A p \in Permits : UseIsConsumption(p)

(* "policy reload can atomically swap the engine" (state.rs): a permit     *)
(* enters the registry under the engine that decided on it; no reload      *)
(* comes between the decision of evaluate and register.                    *)
DecidedByCurrentEngine ==
    [][\A p \in registry' \ registry : permit[p].engine = engine]_vars

(* What "Total request timeout." (state.rs) promises: a request that       *)
(* arrives is answered.  The timer cannot help, since a thread blocked on  *)
(* a std lock never yields to it, and with three handlers the locks block  *)
(* each other: the code does not have this property.                       *)
RequestsAnswered ==
    \A h \in Handlers : (hnd[h].pc # "idle") ~> (hnd[h].pc = "idle")

(* The circle the three kinds of locks can form.  A reload queues for the  *)
(* runtime behind a handler that reads it; an execute that has locked its  *)
(* permit queues for the runtime behind the reload; a purge of the         *)
(* registry waits for that permit; and the reader is the handler that      *)
(* purges, or waits for the registry it has locked.                        *)
Circle ==
    \E reload \in waiting, reader \in readers, purge, execute \in Handlers :
        /\ hnd[execute].op = "execute" /\ hnd[execute].pc = "read"
        /\ hnd[purge].pc = "retain"
        /\ hnd[execute].permit \in hnd[purge].todo
        /\ reader = purge \/ hnd[reader].pc \in {"registry", "remove"}

(* The circle around a policy reload is the only way in which requests     *)
(* wait for ever: as long as it does not close, one of the requests that   *)
(* are being served can go on, whatever evaluate, execute and reload hold  *)
(* of the runtime, the registry and the permits and in whichever order     *)
(* they got it.  A request takes finitely many steps, so each is answered. *)
OnlyCircleBlocks ==
    (\E h \in Handlers : hnd[h].pc # "idle") =>
        Circle \/ ENABLED (\E h \in Handlers : Step(h))
=============================================================================
