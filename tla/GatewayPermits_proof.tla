------------------------ MODULE GatewayPermits_proof ------------------------
(***************************************************************************)
(* Machine-checked proofs about GatewayPermits, for any number of handlers *)
(* and permits, any configuration, any load and any faults.                *)
(***************************************************************************)
EXTENDS GatewayPermits, TLAPS

(* The fields of a well-formed frame and of a well-formed permit.          *)
LEMMA FrameFields ==
    ASSUME NEW f \in Frame
    PROVE  /\ f.pc \in Steps /\ f.op \in Ops
           /\ f.permit \in Permits \cup {NoPermit}
           /\ f.present \in Presentations
           /\ f.todo \in SUBSET Permits
           /\ f.err \in Errors
  BY DEF Frame

(* The frame of a handler that serves no request.                          *)
LEMMA IdleFrameFacts ==
    IdleFrame \in Frame /\ IdleFrame.pc = "idle"
  BY DEF IdleFrame, Frame, Steps, Ops, Presentations, Errors

(* Only h's frame changes, and it stays well formed.                       *)
Moves(h) == /\ hnd' \in [Handlers -> Frame]
            /\ \A g \in Handlers \ {h} : hnd'[g] = hnd[g]

(* A change of step, with or without an error, keeps the other locals.     *)
LEMMA GotoFacts ==
    ASSUME TypeOK, NEW h \in Handlers, NEW s \in Steps, Goto(h, s)
    PROVE  /\ Moves(h)
           /\ hnd'[h].pc = s
           /\ hnd'[h].op = hnd[h].op
           /\ hnd'[h].permit = hnd[h].permit
           /\ hnd'[h].present = hnd[h].present
  BY DEF TypeOK, Goto, Frame, Moves

LEMMA FailFacts ==
    ASSUME TypeOK, NEW h \in Handlers, NEW s \in Steps, NEW e \in Errors,
           Fail(h, s, e)
    PROVE  /\ Moves(h)
           /\ hnd'[h].pc = s
           /\ hnd'[h].op = hnd[h].op
           /\ hnd'[h].permit = hnd[h].permit
  BY DEF TypeOK, Fail, Frame, Moves

LEMMA ReturnFacts ==
    ASSUME TypeOK, NEW h \in Handlers, Return(h)
    PROVE  /\ Moves(h)
           /\ hnd'[h].pc = "idle"
           /\ readers' \subseteq Handlers
           /\ UNCHANGED <<writer, waiting>>
  BY IdleFrameFacts DEF TypeOK, Return, Moves

(* Both outcomes of an append leave a chain that extends the old one.      *)
LEMMA AppendFacts ==
    ASSUME TypeOK, NEW cat \in Categories, NEW p \in Permits,
           \/ Appended(cat, p)
           \/ \E err \in Errors : AppendFails(err)
    PROVE  /\ audit' \subseteq Categories \X Permits
           /\ audit \subseteq audit'
           /\ audit' \subseteq audit \cup {<<cat, p>>}
           /\ Appended(cat, p) /\ config.audit_fail_closed =>
                 <<cat, p>> \in audit'
  BY DEF TypeOK, Appended, AppendFails

(***************************************************************************)
(* A step of h keeps the invariant when it keeps the path of h and what    *)
(* the invariant says of the permits, and takes from no other handler the  *)
(* lock of its permit or the state of a permit that it holds.              *)
(***************************************************************************)
LEMMA StepKeepsInv ==
    ASSUME PermitInv, TypeOK', NEW h \in Handlers,
           config' = config,
           Moves(h),
           audit \subseteq audit',
           \A p \in Permits :
               /\ permit[p].issued => permit'[p].issued
               /\ permit[p].consumed => /\ permit'[p].consumed
                                        /\ permit'[p].dry_run
                                              = permit[p].dry_run,
           \A g \in Handlers \ {h} :
               HoldsPermit(g) =>
                   /\ permitLock'[hnd[g].permit] = g
                   /\ effects'[hnd[g].permit] = effects[hnd[g].permit],
           PathToEffect(h)',
           SingleExecution', EffectsOnRecord', RecordIsTrue',
           \A p \in Permits : UseIsConsumption(p)'
    PROVE  PermitInv'
  <1>1. ASSUME NEW g \in Handlers \ {h} PROVE PathToEffect(g)'
    <2>1. hnd'[g] = hnd[g]
      BY DEF Moves
    <2>2. PathToEffect(g)
      BY DEF PermitInv
    <2>3. hnd[g].permit \in Permits \/ hnd[g].pc \notin {"effect", "redact",
              "finish_ok", "registry", "retain", "permit", "remove"}
      BY <2>2 DEF PathToEffect, Performed, HoldsPermit
    <2> QED
      BY <2>1, <2>2, <2>3 DEF PathToEffect, Performed, HoldsPermit
  <1>2. \A g \in Handlers : PathToEffect(g)'
    BY <1>1
  <1> QED
    BY <1>2 DEF PermitInv

(* The same for a step that touches no permit, chain, effect or permit     *)
(* lock: only the path of h is left to show.                               *)
LEMMA QuietStep ==
    ASSUME PermitInv, TypeOK', NEW h \in Handlers,
           UNCHANGED <<config, permit, permitLock, audit, effects>>,
           Moves(h),
           PathToEffect(h)'
    PROVE  PermitInv'
  <1>1. SingleExecution' /\ EffectsOnRecord' /\ RecordIsTrue'
    BY DEF PermitInv, SingleExecution, EffectsOnRecord, RecordIsTrue, Performed
  <1>2. \A p \in Permits : UseIsConsumption(p)'
    BY DEF PermitInv, UseIsConsumption
  <1>3. \A g \in Handlers \ {h} :
            HoldsPermit(g) =>
                /\ permitLock'[hnd[g].permit] = g
                /\ effects'[hnd[g].permit] = effects[hnd[g].permit]
    BY DEF PermitInv, PathToEffect
  <1> QED
    BY <1>1, <1>2, <1>3, StepKeepsInv

(***************************************************************************)
(* Steps that touch no permit, chain, effect or permit lock.               *)
(***************************************************************************)
LEMMA QuietSteps ==
    ASSUME PermitInv, NEW h \in Handlers,
           \/ Arrive(h) \/ AcquireRead(h) \/ NotPermitted(h)
           \/ LockRegistry(h) \/ Retain(h) \/ Register(h) \/ Lookup(h)
           \/ RejectPermit(h) \/ WrongInput(h) \/ RedactOutput(h)
           \/ RemovePermit(h) \/ AcquireWrite(h) \/ ReloadPolicies(h)
    PROVE  PermitInv'
  <1> USE GatewayAssumption
  <1>t. TypeOK /\ PathToEffect(h) /\ hnd[h] \in Frame
    BY DEF PermitInv, TypeOK
  <1>f. /\ hnd[h].pc \in Steps /\ hnd[h].op \in Ops
        /\ hnd[h].permit \in Permits \cup {NoPermit}
        /\ hnd[h].todo \in SUBSET Permits
    BY <1>t, FrameFields
  <1>1. CASE Evaluate(h)
    <2>1. Moves(h) /\ hnd'[h].pc = "read" /\ hnd'[h].op = "evaluate"
      BY <1>1, <1>t DEF Evaluate, TypeOK, Frame, Steps, Ops, Moves
    <2>2. TypeOK'
      BY <1>1, <1>t, <2>1 DEF Evaluate, Start, TypeOK, Moves, locks
    <2>3. PathToEffect(h)'
      BY <2>1 DEF PathToEffect, Performed, HoldsPermit
    <2> QED
      BY <1>1, <2>1, <2>2, <2>3, QuietStep DEF Evaluate
  <1>2. CASE Execute(h)
    <2>1. PICK p \in Permits, how \in Presentations :
            /\ permit[p].issued
            /\ hnd' = [hnd EXCEPT ![h] =
                  [IdleFrame EXCEPT !.op = "execute", !.pc = "registry",
                                    !.permit = p, !.present = how]]
      BY <1>2 DEF Execute
    <2>2. Moves(h) /\ hnd'[h].pc = "registry" /\ hnd'[h].permit = p
      BY <2>1, <1>t DEF TypeOK, IdleFrame, Frame, Steps, Ops, Errors, Moves
    <2>3. TypeOK'
      BY <1>2, <1>t, <2>2 DEF Execute, Start, TypeOK, Moves, locks
    <2>4. PathToEffect(h)'
      BY <1>2, <2>1, <2>2 DEF Execute, PathToEffect, Performed, HoldsPermit
    <2> QED
      BY <1>2, <2>2, <2>3, <2>4, QuietStep DEF Execute
  <1>3. CASE Reload(h)
    <2>1. CASE UNCHANGED <<hnd, waiting>>
      <3>1. Moves(h)
        BY <2>1, <1>t DEF TypeOK, Moves
      <3>2. TypeOK'
        BY <1>3, <1>t, <2>1 DEF Reload, Start, TypeOK
      <3>3. PathToEffect(h)'
        BY <1>3, <1>t, <2>1 DEF Reload, PathToEffect, Performed, HoldsPermit
      <3> QED
        BY <1>3, <3>1, <3>2, <3>3, QuietStep DEF Reload
    <2>2. CASE /\ hnd' = [hnd EXCEPT ![h].op = "reload", ![h].pc = "write"]
               /\ waiting' = waiting \cup {h}
      <3>1. Moves(h) /\ hnd'[h].pc = "write"
        BY <2>2, <1>t DEF TypeOK, Frame, Steps, Ops, Moves
      <3>2. TypeOK'
        BY <1>3, <1>t, <2>2, <3>1 DEF Reload, Start, TypeOK, Moves
      <3>3. PathToEffect(h)'
        BY <3>1 DEF PathToEffect, Performed, HoldsPermit
      <3> QED
        BY <1>3, <3>1, <3>2, <3>3, QuietStep DEF Reload
    <2> QED
      BY <1>3, <2>1, <2>2 DEF Reload
  <1>4. CASE AcquireRead(h)
    <2>1. /\ Moves(h)
          /\ hnd'[h].permit = hnd[h].permit
          /\ hnd'[h].op = hnd[h].op
          /\ \/ hnd'[h].pc = "evaluate"
             \/ hnd'[h].pc = "verify" /\ HoldsPermit(h)
      <3>1. CASE hnd[h].op = "evaluate"
        <4>1. Goto(h, "evaluate")
          BY <1>4, <3>1 DEF AcquireRead
        <4> QED
          BY <4>1, <1>t, GotoFacts DEF Steps
      <3>2. CASE hnd[h].op # "evaluate"
        <4>1. Goto(h, "verify")
          BY <1>4, <3>2 DEF AcquireRead
        <4> QED
          BY <4>1, <1>t, <1>4, <3>2, GotoFacts
             DEF Steps, HoldsPermit, AcquireRead
      <3> QED
        BY <3>1, <3>2
    <2>2. TypeOK'
      BY <1>4, <1>t, <2>1 DEF AcquireRead, TypeOK, Moves
    <2>3. PathToEffect(h)'
      BY <1>4, <1>t, <2>1 DEF AcquireRead, PathToEffect, Performed, HoldsPermit
    <2> QED
      BY <1>4, <2>1, <2>2, <2>3, QuietStep DEF AcquireRead
  <1>5. CASE NotPermitted(h)
    <2>1. Moves(h) /\ hnd'[h].pc = "idle" /\ readers' \subseteq Handlers
          /\ UNCHANGED <<writer, waiting>>
      BY <1>5, <1>t, ReturnFacts DEF NotPermitted
    <2>2. TypeOK'
      BY <1>5, <1>t, <2>1 DEF NotPermitted, TypeOK, Moves
    <2>3. PathToEffect(h)'
      BY <2>1 DEF PathToEffect, Performed, HoldsPermit
    <2> QED
      BY <1>5, <2>1, <2>2, <2>3, QuietStep DEF NotPermitted
  <1>6. CASE LockRegistry(h)
    <2>1. Moves(h) /\ hnd'[h].pc = "retain"
          /\ hnd'[h].permit = hnd[h].permit
      BY <1>6, <1>t DEF LockRegistry, TypeOK, Frame, Steps, Moves
    <2>2. TypeOK'
      BY <1>6, <1>t, <2>1 DEF LockRegistry, TypeOK, Moves, locks
    <2>3. PathToEffect(h)'
      BY <1>6, <1>t, <2>1
         DEF LockRegistry, PathToEffect, Performed, HoldsPermit
    <2> QED
      BY <1>6, <2>1, <2>2, <2>3, QuietStep DEF LockRegistry
  <1>7. CASE Retain(h)
    <2>1. PICK p \in hnd[h].todo :
            /\ hnd' = [hnd EXCEPT ![h].todo = @ \ {p}]
            /\ registry' \in {registry, registry \ {p}}
      BY <1>7 DEF Retain
    <2>2. Moves(h) /\ hnd'[h].pc = "retain"
          /\ hnd'[h].permit = hnd[h].permit
      BY <1>7, <1>t, <2>1 DEF Retain, TypeOK, Frame, Moves
    <2>3. TypeOK'
      BY <1>7, <1>t, <2>1, <2>2 DEF Retain, TypeOK, Moves, locks
    <2>4. PathToEffect(h)'
      BY <1>7, <1>t, <2>2 DEF Retain, PathToEffect, Performed, HoldsPermit
    <2> QED
      BY <1>7, <2>2, <2>3, <2>4, QuietStep DEF Retain
  <1>8. CASE Register(h)
    <2>1. Moves(h) /\ hnd'[h].pc = "idle" /\ readers' \subseteq Handlers
          /\ UNCHANGED <<writer, waiting>>
      BY <1>8, <1>t, ReturnFacts DEF Register
    <2>2. hnd[h].permit \in Permits
      BY <1>8, <1>t DEF Register, PathToEffect
    <2>3. TypeOK'
      BY <1>8, <1>t, <2>1, <2>2 DEF Register, TypeOK, Moves
    <2>4. PathToEffect(h)'
      BY <2>1 DEF PathToEffect, Performed, HoldsPermit
    <2> QED
      BY <1>8, <2>1, <2>3, <2>4, QuietStep DEF Register
  <1>9. CASE Lookup(h)
    <2>1. CASE Return(h)
      <3>1. Moves(h) /\ hnd'[h].pc = "idle" /\ readers' \subseteq Handlers
            /\ UNCHANGED <<writer, waiting>>
        BY <2>1, <1>t, ReturnFacts
      <3>2. TypeOK'
        BY <1>9, <1>t, <3>1 DEF Lookup, TypeOK, Moves
      <3>3. PathToEffect(h)'
        BY <3>1 DEF PathToEffect, Performed, HoldsPermit
      <3> QED
        BY <1>9, <3>1, <3>2, <3>3, QuietStep DEF Lookup
    <2>2. CASE Goto(h, "permit") /\ UNCHANGED locks
      <3>1. Moves(h) /\ hnd'[h].pc = "permit"
            /\ hnd'[h].permit = hnd[h].permit
        BY <2>2, <1>t, GotoFacts DEF Steps
      <3>2. TypeOK'
        BY <1>9, <1>t, <2>2, <3>1 DEF Lookup, TypeOK, Moves, locks
      <3>3. PathToEffect(h)'
        BY <1>9, <1>t, <3>1 DEF Lookup, PathToEffect, Performed, HoldsPermit
      <3> QED
        BY <1>9, <3>1, <3>2, <3>3, QuietStep DEF Lookup
    <2> QED
      BY <1>9, <2>1, <2>2 DEF Lookup
  <1>10. CASE RejectPermit(h)
    <2>1. Moves(h) /\ hnd'[h].pc = "discard"
          /\ hnd'[h].permit = hnd[h].permit
      BY <1>10, <1>t, FailFacts DEF RejectPermit, Steps, Errors
    <2>2. TypeOK'
      BY <1>10, <1>t, <2>1 DEF RejectPermit, TypeOK, Moves, locks
    <2>3. PathToEffect(h)'
      BY <1>10, <1>t, <2>1
         DEF RejectPermit, PathToEffect, Performed, HoldsPermit
    <2> QED
      BY <1>10, <2>1, <2>2, <2>3, QuietStep DEF RejectPermit
  <1>11. CASE WrongInput(h)
    <2>1. Moves(h) /\ hnd'[h].pc = "finish_failed"
          /\ hnd'[h].permit = hnd[h].permit
      BY <1>11, <1>t, FailFacts DEF WrongInput, Steps, Errors
    <2>2. TypeOK'
      BY <1>11, <1>t, <2>1 DEF WrongInput, TypeOK, Moves, locks
    <2>3. PathToEffect(h)'
      BY <1>11, <1>t, <2>1 DEF WrongInput, PathToEffect, Performed, HoldsPermit
    <2> QED
      BY <1>11, <2>1, <2>2, <2>3, QuietStep DEF WrongInput
  <1>12. CASE RedactOutput(h)
    <2>1. Moves(h) /\ hnd'[h].pc \in {"finish_ok", "finish_failed"}
          /\ hnd'[h].permit = hnd[h].permit
      BY <1>12, <1>t, GotoFacts, FailFacts DEF RedactOutput, Steps, Errors
    <2>2. TypeOK'
      BY <1>12, <1>t, <2>1 DEF RedactOutput, TypeOK, Moves, locks
    <2>3. PathToEffect(h)'
      BY <1>12, <1>t, <2>1
         DEF RedactOutput, PathToEffect, Performed, HoldsPermit
    <2> QED
      BY <1>12, <2>1, <2>2, <2>3, QuietStep DEF RedactOutput
  <1>13. CASE RemovePermit(h)
    <2>1. Moves(h) /\ hnd'[h].pc = "idle" /\ readers' \subseteq Handlers
          /\ UNCHANGED <<writer, waiting>>
      BY <1>13, <1>t, ReturnFacts DEF RemovePermit
    <2>2. TypeOK'
      BY <1>13, <1>t, <2>1 DEF RemovePermit, TypeOK, Moves
    <2>3. PathToEffect(h)'
      BY <2>1 DEF PathToEffect, Performed, HoldsPermit
    <2> QED
      BY <1>13, <2>1, <2>2, <2>3, QuietStep DEF RemovePermit
  <1>14. CASE AcquireWrite(h)
    <2>1. Moves(h) /\ hnd'[h].pc = "swap"
      BY <1>14, <1>t, GotoFacts DEF AcquireWrite, Steps
    <2>2. TypeOK'
      BY <1>14, <1>t, <2>1 DEF AcquireWrite, TypeOK, Moves
    <2>3. PathToEffect(h)'
      BY <2>1 DEF PathToEffect, Performed, HoldsPermit
    <2> QED
      BY <1>14, <2>1, <2>2, <2>3, QuietStep DEF AcquireWrite
  <1>15. CASE ReloadPolicies(h)
    <2>1. Moves(h) /\ hnd'[h].pc = "idle"
      BY <1>15, <1>t, IdleFrameFacts DEF ReloadPolicies, TypeOK, Moves
    <2>2. TypeOK'
      BY <1>15, <1>t, <2>1 DEF ReloadPolicies, TypeOK, Moves
    <2>3. PathToEffect(h)'
      BY <2>1 DEF PathToEffect, Performed, HoldsPermit
    <2> QED
      BY <1>15, <2>1, <2>2, <2>3, QuietStep DEF ReloadPolicies
  <1> QED
    BY <1>1, <1>2, <1>3, <1>4, <1>5, <1>6, <1>7, <1>8, <1>9, <1>10, <1>11,
       <1>12, <1>13, <1>14, <1>15 DEF Arrive

(***************************************************************************)
(* Taking and releasing the lock of a permit.                              *)
(***************************************************************************)
LEMMA LockSteps ==
    ASSUME PermitInv, NEW h \in Handlers,
           LockPermit(h) \/ UnlockPermit(h)
    PROVE  PermitInv'
  <1> USE GatewayAssumption
  <1> DEFINE p == hnd[h].permit
  <1>t. TypeOK /\ PathToEffect(h)
    BY DEF PermitInv
  <1>p. p \in Permits /\ permit[p].issued
    BY <1>t DEF PathToEffect, Performed, HoldsPermit, LockPermit, UnlockPermit
  <1>u. UNCHANGED <<config, permit, audit, effects>>
    BY DEF LockPermit, UnlockPermit
  <1>1. SingleExecution' /\ EffectsOnRecord' /\ RecordIsTrue'
    BY <1>u
       DEF PermitInv, SingleExecution, EffectsOnRecord, RecordIsTrue,
           Performed
  <1>2. \A q \in Permits : UseIsConsumption(q)'
    BY <1>u DEF PermitInv, UseIsConsumption
  <1>3. \A g \in Handlers \ {h} :
            HoldsPermit(g) =>
                hnd[g].permit \in Permits /\ permitLock[hnd[g].permit] = g
    BY DEF PermitInv, PathToEffect
  <1>4. CASE LockPermit(h)
    <2>1. Moves(h) /\ hnd'[h].pc = "read" /\ hnd'[h].permit = p
      BY <1>4, <1>t, GotoFacts DEF LockPermit, Steps
    <2>2. /\ permitLock[p] = NoHandler
          /\ permitLock' = [permitLock EXCEPT ![p] = h]
      BY <1>4 DEF LockPermit
    <2>3. TypeOK'
      BY <1>4, <1>t, <1>p, <2>1, <2>2 DEF LockPermit, TypeOK, Moves, locks
    <2>4. PathToEffect(h)'
      BY <1>u, <1>t, <1>p, <2>1, <2>2
         DEF PathToEffect, Performed, HoldsPermit, TypeOK
    <2>5. \A g \in Handlers \ {h} :
              HoldsPermit(g) =>
                  /\ permitLock'[hnd[g].permit] = g
                  /\ effects'[hnd[g].permit] = effects[hnd[g].permit]
      BY <1>u, <1>t, <1>3, <2>2 DEF TypeOK
    <2> QED
      BY <1>u, <1>1, <1>2, <2>1, <2>3, <2>4, <2>5, StepKeepsInv
  <1>5. CASE UnlockPermit(h)
    <2>1. /\ permitLock[p] = h
          /\ permitLock' = [permitLock EXCEPT ![p] = NoHandler]
      BY <1>5, <1>t DEF UnlockPermit, PathToEffect, Performed, HoldsPermit
    <2>2. /\ Moves(h)
          /\ hnd'[h].pc \in {"idle", "remove"}
          /\ hnd'[h].pc = "remove" => hnd'[h].permit = p
          /\ readers' \subseteq Handlers
          /\ UNCHANGED <<writer, waiting>>
      <3>1. CASE Goto(h, "remove") /\ UNCHANGED locks
        BY <3>1, <1>t, GotoFacts DEF Steps, locks, TypeOK
      <3>2. CASE Return(h)
        BY <3>2, <1>t, ReturnFacts
      <3> QED
        BY <1>5, <3>1, <3>2 DEF UnlockPermit
    <2>3. TypeOK'
      BY <1>5, <1>t, <1>p, <2>1, <2>2 DEF UnlockPermit, TypeOK, Moves
    <2>4. PathToEffect(h)'
      BY <1>u, <1>p, <2>2 DEF PathToEffect, Performed, HoldsPermit
    <2>5. \A g \in Handlers \ {h} :
              HoldsPermit(g) =>
                  /\ permitLock'[hnd[g].permit] = g
                  /\ effects'[hnd[g].permit] = effects[hnd[g].permit]
      BY <1>u, <1>t, <1>3, <2>1 DEF TypeOK
    <2> QED
      BY <1>u, <1>1, <1>2, <2>2, <2>3, <2>4, <2>5, StepKeepsInv
  <1> QED
    BY <1>4, <1>5

(***************************************************************************)
(* Appending the start and the result of an execution.                     *)
(***************************************************************************)
LEMMA AuditSteps ==
    ASSUME PermitInv, NEW h \in Handlers,
           AuditStarted(h) \/ AuditResult(h)
    PROVE  PermitInv'
  <1> USE GatewayAssumption
  <1> DEFINE p == hnd[h].permit
  <1>t. TypeOK /\ PathToEffect(h)
    BY DEF PermitInv
  <1>p. p \in Permits /\ permit[p].issued /\ permitLock[p] = h
    BY <1>t DEF PathToEffect, Performed, HoldsPermit, AuditStarted, AuditResult
  <1>u. UNCHANGED <<config, permit, permitLock, effects>>
    BY DEF AuditStarted, AuditResult
  <1>1. PICK cat \in Categories :
          /\ Appended(cat, p) \/ \E err \in Errors : AppendFails(err)
          /\ cat = "ExecutionSucceeded" => Performed(p)
    <2>1. CASE AuditStarted(h)
      BY <2>1 DEF AuditStarted, Categories
    <2>2. CASE AuditResult(h)
      <3>1. PICK c \in {"ExecutionSucceeded", "ExecutionFailed"} :
              /\ hnd[h].pc = (IF c = "ExecutionSucceeded" THEN "finish_ok"
                                                         ELSE "finish_failed")
              /\ Appended(c, p) \/ \E err \in Errors : AppendFails(err)
        BY <2>2 DEF AuditResult
      <3>2. c = "ExecutionSucceeded" => Performed(p)
        BY <3>1, <1>t DEF PathToEffect
      <3> QED
        BY <3>1, <3>2 DEF Categories
    <2> QED
      BY <2>1, <2>2
  <1>2. /\ audit' \subseteq Categories \X Permits
        /\ audit \subseteq audit'
        /\ audit' \subseteq audit \cup {<<cat, p>>}
    BY <1>1, <1>t, <1>p, AppendFacts
  <1>3. /\ Moves(h)
        /\ hnd'[h].permit = p
        /\ \/ hnd'[h].pc = "discard"
           \/ /\ hnd'[h].pc = "dispatch"
              /\ Acceptable(h)
              /\ config.audit_fail_closed =>
                    <<"ExecutionStarted", p>> \in audit'
    <2>1. CASE AuditStarted(h)
      <3>1. CASE Appended("ExecutionStarted", p) /\ Goto(h, "dispatch")
        BY <2>1, <3>1, <1>t, <1>p, GotoFacts, AppendFacts
           DEF AuditStarted, Steps, Categories
      <3>2. CASE \E err \in Errors : Fail(h, "discard", err)
        BY <3>2, <1>t, FailFacts DEF Steps
      <3> QED
        BY <2>1, <3>1, <3>2 DEF AuditStarted
    <2>2. CASE AuditResult(h)
      <3>1. CASE Goto(h, "discard")
        BY <3>1, <1>t, GotoFacts DEF Steps
      <3>2. CASE \E err \in Errors : Fail(h, "discard", err)
        BY <3>2, <1>t, FailFacts DEF Steps
      <3> QED
        BY <2>2, <3>1, <3>2 DEF AuditResult
    <2> QED
      BY <2>1, <2>2
  <1>4. TypeOK'
    BY <1>t, <1>2, <1>3 DEF AuditStarted, AuditResult, TypeOK, Moves, locks
  <1>5. PathToEffect(h)'
    BY <1>u, <1>p, <1>3 DEF PathToEffect, Performed, HoldsPermit, Acceptable
  <1>6. SingleExecution' /\ EffectsOnRecord'
    BY <1>u, <1>2 DEF PermitInv, SingleExecution, EffectsOnRecord
  <1>7. RecordIsTrue'
    <2>1. ASSUME NEW q \in Permits, <<"ExecutionSucceeded", q>> \in audit'
          PROVE  Performed(q)
      <3>1. CASE <<"ExecutionSucceeded", q>> \in audit
        BY <3>1 DEF PermitInv, RecordIsTrue
      <3>2. CASE cat = "ExecutionSucceeded" /\ q = p
        BY <3>2, <1>1
      <3> QED
        BY <2>1, <1>2, <3>1, <3>2
    <2> QED
      BY <1>u, <2>1 DEF PermitInv, RecordIsTrue, Performed
  <1>8. \A q \in Permits : UseIsConsumption(q)'
    BY <1>u, <1>2 DEF PermitInv, UseIsConsumption
  <1>9. \A g \in Handlers \ {h} :
            HoldsPermit(g) =>
                /\ permitLock'[hnd[g].permit] = g
                /\ effects'[hnd[g].permit] = effects[hnd[g].permit]
    BY <1>u DEF PermitInv, PathToEffect
  <1> QED
    BY <1>u, <1>2, <1>3, <1>4, <1>5, <1>6, <1>7, <1>8, <1>9, StepKeepsInv

(***************************************************************************)
(* A new permit is not consumed, is unused and has its decision on record. *)
(***************************************************************************)
LEMMA IssueStep ==
    ASSUME PermitInv, NEW h \in Handlers, IssuePermit(h)
    PROVE  PermitInv'
  <1> USE GatewayAssumption
  <1>t. TypeOK
    BY DEF PermitInv
  <1>1. PICK p \in Permits :
          /\ ~permit[p].issued
          /\ permit' = [permit EXCEPT ![p] =
                [issued |-> TRUE, consumed |-> FALSE,
                 expires_at |-> now + Ttl, engine |-> engine,
                 dry_run |-> FALSE]]
          /\ Appended("DecisionAllow", p)
          /\ hnd' = [hnd EXCEPT ![h].pc = "registry", ![h].permit = p]
    BY DEF IssuePermit
  <1>u. UNCHANGED <<config, permitLock, effects>>
    BY DEF IssuePermit
  <1>2. /\ audit' \subseteq Categories \X Permits
        /\ audit \subseteq audit'
        /\ audit' \subseteq audit \cup {<<"DecisionAllow", p>>}
        /\ config.audit_fail_closed => <<"DecisionAllow", p>> \in audit'
    BY <1>1, <1>t, AppendFacts DEF Categories
  <1>3. Moves(h) /\ hnd'[h].pc = "registry" /\ hnd'[h].permit = p
    <2> DEFINE f == [hnd[h] EXCEPT !.pc = "registry", !.permit = p]
    <2>1. hnd[h] \in Frame
      BY <1>t DEF TypeOK
    <2>2. f \in Frame /\ f.pc = "registry" /\ f.permit = p
      BY <2>1 DEF Frame, Steps
    <2>3. hnd' = [hnd EXCEPT ![h] = f]
      BY <1>1, <2>1
    <2> HIDE DEF f
    <2> QED
      BY <1>t, <2>2, <2>3 DEF TypeOK, Moves
  <1>4. /\ permit' \in [Permits -> Permit]
        /\ \A q \in Permits \ {p} : permit'[q] = permit[q]
        /\ permit'[p].issued /\ ~permit'[p].consumed
    BY <1>1, <1>t DEF TypeOK, Permit
  <1>5. effects[p] = 0 /\ ~permit[p].consumed
    <2>1. UseIsConsumption(p)
      BY DEF PermitInv
    <2>2. effects[p] \in Nat
      BY <1>t DEF TypeOK
    <2> QED
      BY <1>1, <2>1, <2>2 DEF UseIsConsumption
  <1>6. TypeOK'
    BY <1>t, <1>2, <1>3, <1>4 DEF IssuePermit, TypeOK, Moves, locks
  <1>7. PathToEffect(h)'
    BY <1>3, <1>4 DEF PathToEffect, Performed, HoldsPermit
  <1>8. SingleExecution' /\ EffectsOnRecord'
    BY <1>u, <1>2 DEF PermitInv, SingleExecution, EffectsOnRecord
  <1>9. RecordIsTrue'
    BY <1>u, <1>2, <1>4, <1>5 DEF PermitInv, RecordIsTrue, Performed
  <1>10. \A q \in Permits : UseIsConsumption(q)'
    BY <1>u, <1>2, <1>4, <1>5 DEF PermitInv, UseIsConsumption
  <1>11. \A g \in Handlers \ {h} :
            HoldsPermit(g) =>
                /\ permitLock'[hnd[g].permit] = g
                /\ effects'[hnd[g].permit] = effects[hnd[g].permit]
    BY <1>u DEF PermitInv, PathToEffect
  <1>12. \A q \in Permits :
             /\ permit[q].issued => permit'[q].issued
             /\ permit[q].consumed => /\ permit'[q].consumed
                                      /\ permit'[q].dry_run
                                            = permit[q].dry_run
    BY <1>4, <1>5
  <1> QED
    BY <1>u, <1>2, <1>3, <1>6, <1>7, <1>8, <1>9, <1>10, <1>11, <1>12,
       StepKeepsInv

(* Marking a permit as consumed keeps its other fields.                    *)
LEMMA ConsumedPermit ==
    ASSUME NEW q \in Permit, NEW d \in BOOLEAN
    PROVE  LET r == [q EXCEPT !.consumed = TRUE, !.dry_run = d]
           IN  /\ r \in Permit /\ r.consumed
               /\ r.issued = q.issued /\ r.dry_run = d
  BY DEF Permit

(***************************************************************************)
(* The adapter consumes a permit that is not consumed, hence unused.       *)
(***************************************************************************)
LEMMA ConsumeStep ==
    ASSUME PermitInv, NEW h \in Handlers, ConsumePermit(h)
    PROVE  PermitInv'
  <1> USE GatewayAssumption
  <1> DEFINE p == hnd[h].permit
  <1>t. TypeOK /\ PathToEffect(h)
    BY DEF PermitInv
  <1>p. /\ p \in Permits /\ permit[p].issued /\ permitLock[p] = h
        /\ ~config.dry_run
        /\ config.audit_fail_closed => <<"ExecutionStarted", p>> \in audit
    BY <1>t DEF PathToEffect, Performed, HoldsPermit, ConsumePermit
  <1>u. UNCHANGED <<config, permitLock, audit, effects>>
    BY DEF ConsumePermit
  <1>1. CASE Fail(h, "finish_failed", "other") /\ UNCHANGED permit
    <2>1. Moves(h) /\ hnd'[h].pc = "finish_failed" /\ hnd'[h].permit = p
      BY <1>1, <1>t, FailFacts DEF Steps, Errors
    <2>2. TypeOK'
      BY <1>1, <1>t, <2>1 DEF ConsumePermit, TypeOK, Moves, locks
    <2>3. PathToEffect(h)'
      BY <1>1, <1>p, <1>u, <2>1 DEF PathToEffect, Performed, HoldsPermit
    <2> QED
      BY <1>1, <1>u, <2>1, <2>2, <2>3, QuietStep
  <1>2. CASE /\ ~is_consumed(p)
             /\ permit' = [permit EXCEPT
                   ![p].consumed = TRUE,
                   ![p].dry_run = hnd[h].present = "dry_run"]
             /\ Goto(h, "effect")
    <2>1. /\ Moves(h) /\ hnd'[h].pc = "effect" /\ hnd'[h].permit = p
          /\ hnd'[h].present = hnd[h].present
      BY <1>2, <1>t, GotoFacts DEF Steps
    <2>2. /\ permit' \in [Permits -> Permit]
          /\ \A q \in Permits \ {p} : permit'[q] = permit[q]
          /\ permit'[p].consumed /\ permit'[p].issued = permit[p].issued
          /\ permit'[p].dry_run <=> hnd[h].present = "dry_run"
      <3> DEFINE d == hnd[h].present = "dry_run"
                 r == [permit[p] EXCEPT !.consumed = TRUE, !.dry_run = d]
      <3>1. permit' = [permit EXCEPT ![p] = r]
        BY <1>2, <1>t, <1>p DEF TypeOK, Permit
      <3>2. d \in BOOLEAN
        OBVIOUS
      <3> HIDE DEF d
      <3>3. /\ r \in Permit /\ r.consumed
            /\ r.issued = permit[p].issued /\ r.dry_run = d
        <4>1. permit[p] \in Permit
          BY <1>t, <1>p DEF TypeOK
        <4> QED
          BY <3>2, <4>1, ConsumedPermit
      <3> HIDE DEF r
      <3>4. /\ permit' \in [Permits -> Permit]
            /\ \A q \in Permits \ {p} : permit'[q] = permit[q]
            /\ permit'[p] = r
        BY <1>t, <1>p, <3>1, <3>3 DEF TypeOK
      <3> QED
        BY <3>3, <3>4, Zenon DEF d
    <2>3. effects[p] = 0
      <3>1. UseIsConsumption(p)
        BY <1>p DEF PermitInv
      <3>2. effects[p] \in Nat
        BY <1>t, <1>p DEF TypeOK
      <3> QED
        BY <1>2, <3>1, <3>2 DEF UseIsConsumption, is_consumed
    <2>4. TypeOK'
      BY <1>t, <2>1, <2>2 DEF ConsumePermit, TypeOK, Moves, locks
    <2>5. PathToEffect(h)'
      BY <1>p, <1>u, <2>1, <2>2, <2>3 DEF PathToEffect, Performed, HoldsPermit
    <2>6. SingleExecution' /\ EffectsOnRecord' /\ RecordIsTrue'
      BY <1>u, <1>2, <1>p, <2>2
         DEF is_consumed, PermitInv, SingleExecution, EffectsOnRecord,
             RecordIsTrue, Performed
    <2>7. \A q \in Permits : UseIsConsumption(q)'
      BY <1>u, <1>p, <2>2, <2>3 DEF PermitInv, UseIsConsumption
    <2>8. \A g \in Handlers \ {h} :
              HoldsPermit(g) =>
                  /\ permitLock'[hnd[g].permit] = g
                  /\ effects'[hnd[g].permit] = effects[hnd[g].permit]
      BY <1>u DEF PermitInv, PathToEffect
    <2>9. \A q \in Permits :
              /\ permit[q].issued => permit'[q].issued
              /\ permit[q].consumed => /\ permit'[q].consumed
                                       /\ permit'[q].dry_run
                                             = permit[q].dry_run
      BY <1>2, <2>2 DEF is_consumed
    <2> QED
      BY <1>u, <2>1, <2>4, <2>5, <2>6, <2>7, <2>8, <2>9, StepKeepsInv
  <1> QED
    BY <1>1, <1>2 DEF ConsumePermit

(***************************************************************************)
(* The side effect is the first one under a consumed permit whose lock no  *)
(* other handler holds.                                                    *)
(***************************************************************************)
LEMMA EffectStep ==
    ASSUME PermitInv, NEW h \in Handlers, PerformEffect(h)
    PROVE  PermitInv'
  <1> USE GatewayAssumption
  <1> DEFINE p == hnd[h].permit
  <1>t. TypeOK /\ PathToEffect(h)
    BY DEF PermitInv
  <1>p. /\ p \in Permits /\ permit[p].issued /\ permitLock[p] = h
        /\ ~config.dry_run
        /\ config.audit_fail_closed => <<"ExecutionStarted", p>> \in audit
        /\ permit[p].consumed /\ effects[p] = 0
        /\ permit[p].dry_run <=> hnd[h].present = "dry_run"
    BY <1>t DEF PathToEffect, Performed, HoldsPermit, PerformEffect
  <1>u. UNCHANGED <<config, permit, permitLock, audit>>
    BY DEF PerformEffect
  <1>1. CASE UNCHANGED effects /\ Fail(h, "finish_failed", "other")
    <2>1. Moves(h) /\ hnd'[h].pc = "finish_failed" /\ hnd'[h].permit = p
      BY <1>1, <1>t, FailFacts DEF Steps, Errors
    <2>2. TypeOK'
      BY <1>1, <1>t, <2>1 DEF PerformEffect, TypeOK, Moves, locks
    <2>3. PathToEffect(h)'
      BY <1>1, <1>p, <1>u, <2>1 DEF PathToEffect, Performed, HoldsPermit
    <2> QED
      BY <1>1, <1>u, <2>1, <2>2, <2>3, QuietStep
  <1>3. CASE /\ hnd[h].present = "dry_run"
             /\ UNCHANGED effects
             /\ Goto(h, "redact")
    <2>1. Moves(h) /\ hnd'[h].pc = "redact" /\ hnd'[h].permit = p
      BY <1>3, <1>t, GotoFacts DEF Steps
    <2>2. TypeOK'
      BY <1>3, <1>t, <2>1 DEF PerformEffect, TypeOK, Moves, locks
    <2>3. PathToEffect(h)'
      BY <1>3, <1>p, <1>u, <2>1 DEF PathToEffect, Performed, HoldsPermit
    <2> QED
      BY <1>3, <1>u, <2>1, <2>2, <2>3, QuietStep
  <1>2. CASE /\ hnd[h].present # "dry_run"
             /\ effects' = [effects EXCEPT ![p] = @ + 1]
             /\ Goto(h, "redact") \/ Fail(h, "finish_failed", "other")
    <2>1. Moves(h) /\ hnd'[h].pc \in {"redact", "finish_failed"}
          /\ hnd'[h].permit = p
      BY <1>2, <1>t, GotoFacts, FailFacts DEF Steps, Errors
    <2>2. /\ effects' \in [Permits -> Nat]
          /\ \A q \in Permits \ {p} : effects'[q] = effects[q]
          /\ effects'[p] = 1
      BY <1>2, <1>t, <1>p DEF TypeOK
    <2>3. TypeOK'
      BY <1>t, <2>1, <2>2 DEF PerformEffect, TypeOK, Moves, locks
    <2>4. PathToEffect(h)'
      BY <1>2, <1>p, <1>u, <2>1, <2>2
         DEF PathToEffect, Performed, HoldsPermit
    <2>5. SingleExecution'
      BY <2>2 DEF PermitInv, SingleExecution
    <2>6. EffectsOnRecord'
      BY <1>p, <1>u, <2>2 DEF PermitInv, EffectsOnRecord, UseIsConsumption
    <2>7. RecordIsTrue'
      BY <1>2, <1>p, <1>u, <2>2 DEF PermitInv, RecordIsTrue, Performed
    <2>8. \A q \in Permits : UseIsConsumption(q)'
      BY <1>p, <1>u, <2>2 DEF PermitInv, UseIsConsumption
    <2>9. ASSUME NEW g \in Handlers \ {h}, HoldsPermit(g)
          PROVE  /\ permitLock'[hnd[g].permit] = g
                 /\ effects'[hnd[g].permit] = effects[hnd[g].permit]
      <3>1. hnd[g].permit \in Permits /\ permitLock[hnd[g].permit] = g
        <4>1. PathToEffect(g)
          BY DEF PermitInv
        <4> QED
          BY <4>1, <2>9 DEF PathToEffect
      <3>2. hnd[g].permit # p
        BY <1>p, <3>1
      <3> QED
        BY <1>u, <2>2, <3>1, <3>2
    <2> QED
      BY <1>u, <2>1, <2>3, <2>4, <2>5, <2>6, <2>7, <2>8, <2>9, StepKeepsInv
  <1> QED
    BY <1>1, <1>2, <1>3 DEF PerformEffect

(* The clock is no part of the invariant but its type.                     *)
LEMMA TickStep ==
    ASSUME PermitInv, Tick
    PROVE  PermitInv'
  <1>1. TypeOK'
    BY DEF PermitInv, TypeOK, Tick, locks
  <1>2. SingleExecution' /\ EffectsOnRecord' /\ RecordIsTrue'
    BY DEF PermitInv, SingleExecution, EffectsOnRecord, RecordIsTrue,
           Performed, Tick
  <1>3. \A h \in Handlers : PathToEffect(h)'
    BY DEF PermitInv, PathToEffect, Performed, HoldsPermit, Tick
  <1>4. \A p \in Permits : UseIsConsumption(p)'
    BY DEF PermitInv, UseIsConsumption, Tick
  <1> QED
    BY <1>1, <1>2, <1>3, <1>4 DEF PermitInv

LEMMA StutterStep ==
    ASSUME PermitInv, UNCHANGED vars
    PROVE  PermitInv'
  <1>1. TypeOK'
    BY DEF PermitInv, TypeOK, vars, locks
  <1>2. SingleExecution' /\ EffectsOnRecord' /\ RecordIsTrue'
    BY DEF PermitInv, SingleExecution, EffectsOnRecord, RecordIsTrue,
           Performed, vars
  <1>3. \A h \in Handlers : PathToEffect(h)'
    BY DEF PermitInv, PathToEffect, Performed, HoldsPermit, vars
  <1>4. \A p \in Permits : UseIsConsumption(p)'
    BY DEF PermitInv, UseIsConsumption, vars
  <1> QED
    BY <1>1, <1>2, <1>3, <1>4 DEF PermitInv

LEMMA InitInv == Init => PermitInv
  <1> SUFFICES ASSUME Init PROVE PermitInv
    OBVIOUS
  <1> USE GatewayAssumption
  <1>1. TypeOK
    BY IdleFrameFacts DEF Init, TypeOK, Permit
  <1>2. SingleExecution /\ EffectsOnRecord /\ RecordIsTrue
    BY DEF Init, SingleExecution, EffectsOnRecord, RecordIsTrue, Performed
  <1>3. \A h \in Handlers : PathToEffect(h)
    BY IdleFrameFacts DEF Init, PathToEffect, Performed, HoldsPermit
  <1>4. \A p \in Permits : UseIsConsumption(p)
    BY DEF Init, UseIsConsumption
  <1> QED
    BY <1>1, <1>2, <1>3, <1>4 DEF PermitInv

(* The inductive invariant holds in every reachable state of the gateway.  *)
THEOREM PermitInvariance == Spec => []PermitInv
  <1>1. PermitInv /\ [Next]_vars => PermitInv'
    <2> SUFFICES ASSUME PermitInv, [Next]_vars PROVE PermitInv'
      OBVIOUS
    <2>1. ASSUME NEW h \in Handlers, Arrive(h) \/ Step(h) PROVE PermitInv'
      BY <2>1, QuietSteps, LockSteps, AuditSteps, IssueStep, ConsumeStep,
         EffectStep DEF Step
    <2>2. CASE Tick
      BY <2>2, TickStep
    <2>3. CASE Quiescent \/ UNCHANGED vars
      BY <2>3, StutterStep DEF Quiescent
    <2> QED
      BY <2>1, <2>2, <2>3 DEF Next
  <1> QED
    BY InitInv, <1>1, PTL DEF Spec

(* At most one side effect happens under a permit, however many handlers   *)
(* present it and whatever fails (single-use permits).                     *)
THEOREM PermitSingleUse == Spec => []SingleExecution
  <1>1. PermitInv => SingleExecution
    BY DEF PermitInv
  <1> QED
    BY <1>1, PermitInvariance, PTL

(* With audit_fail_closed on, no side effect happens before its decision   *)
(* and its start are on the audit chain.                                   *)
THEOREM NoUnrecordedEffect == Spec => []EffectsOnRecord
  <1>1. PermitInv => EffectsOnRecord
    BY DEF PermitInv
  <1> QED
    BY <1>1, PermitInvariance, PTL

(* An ExecutionSucceeded event tells of exactly one side effect, and a dry *)
(* run performs none.                                                      *)
THEOREM TruthfulRecord == Spec => []RecordIsTrue
  <1>1. PermitInv => RecordIsTrue
    BY DEF PermitInv
  <1> QED
    BY <1>1, PermitInvariance, PTL
----------------------------------------------------------------------------
(***************************************************************************)
(* Reload and evaluate: a second invariant, about the read guard that a    *)
(* handler of evaluate keeps from the decision to the registration.        *)
(***************************************************************************)
Registering(h) == hnd[h].op = "evaluate" /\ hnd[h].pc \in {"registry", "retain"}

Guarded(h) ==
    /\ hnd[h].pc = "swap" => writer = h
    /\ hnd[h].pc = "evaluate" => h \in readers
    /\ Registering(h) => /\ h \in readers
                         /\ hnd[h].permit \in Permits
                         /\ permit[hnd[h].permit].issued
                         /\ permit[hnd[h].permit].engine = engine

GuardInv == /\ readers # {} => writer = NoHandler
            /\ \A h \in Handlers : Guarded(h)

(* A step of h leaves the others' guards and decisions as they are.        *)
LEMMA GuardStep ==
    ASSUME GuardInv, NEW h \in Handlers, Moves(h), engine' = engine,
           \A p \in Permits : permit[p].issued =>
               permit'[p].issued /\ permit'[p].engine = permit[p].engine,
           readers \ {h} \subseteq readers',
           \A g \in Handlers \ {h} : writer = g => writer' = g,
           readers' # {} => writer' = NoHandler,
           Guarded(h)'
    PROVE  GuardInv'
  <1>1. ASSUME NEW g \in Handlers \ {h} PROVE Guarded(g)'
    <2>1. hnd'[g] = hnd[g] /\ Guarded(g)
      BY DEF Moves, GuardInv
    <2> QED
      BY <2>1 DEF Guarded, Registering
  <1> QED
    BY <1>1 DEF GuardInv

(* A step that leaves permits and locks alone and brings h to none of the  *)
(* guarded places.                                                         *)
LEMMA UnguardedStep ==
    ASSUME GuardInv, NEW h \in Handlers, Moves(h), engine' = engine,
           \A p \in Permits : permit[p].issued =>
               permit'[p].issued /\ permit'[p].engine = permit[p].engine,
           writer' = writer, readers' = readers \/ readers' = readers \ {h},
           hnd'[h].pc \notin {"swap", "evaluate"},
           hnd'[h].pc \in {"registry", "retain"} => hnd'[h].op # "evaluate"
    PROVE  GuardInv'
  <1>1. Guarded(h)'
    BY DEF Guarded, Registering
  <1>2. readers' # {} => writer' = NoHandler
    BY DEF GuardInv
  <1> QED
    BY <1>1, <1>2, GuardStep

(* A new request.                                                          *)
LEMMA ArriveGuarded ==
    ASSUME PermitInv, GuardInv, NEW h \in Handlers, Arrive(h)
    PROVE  GuardInv'
  <1>t. TypeOK /\ hnd[h] \in Frame
    BY DEF PermitInv, TypeOK
  <1>1. CASE Evaluate(h)
    <2>1. Moves(h) /\ hnd'[h].pc = "read"
      BY <1>1, <1>t DEF Evaluate, TypeOK, Moves, Frame, Steps, Ops
    <2> QED
      BY <1>1, <2>1, UnguardedStep DEF Evaluate, locks
  <1>2. CASE Execute(h)
    <2>0. PICK p \in Permits, how \in Presentations :
            hnd' = [hnd EXCEPT ![h] =
                  [IdleFrame EXCEPT !.op = "execute", !.pc = "registry",
                                    !.permit = p, !.present = how]]
      BY <1>2 DEF Execute
    <2>1. Moves(h) /\ hnd'[h].op = "execute" /\ hnd'[h].pc = "registry"
      BY <2>0, <1>t DEF TypeOK, IdleFrame, Frame, Steps, Ops, Errors, Moves
    <2> QED
      BY <1>2, <2>1, UnguardedStep DEF Execute, locks
  <1>3. CASE Reload(h)
    <2>1. CASE hnd' = hnd
      <3>1. UNCHANGED <<hnd, engine, readers, writer, permit>>
        BY <1>3, <2>1 DEF Reload
      <3> QED
        BY <3>1 DEF GuardInv, Guarded, Registering
    <2>2. CASE hnd' = [hnd EXCEPT ![h].op = "reload", ![h].pc = "write"]
      <3>1. Moves(h) /\ hnd'[h].pc = "write"
        BY <2>2, <1>t DEF TypeOK, Moves, Frame, Steps, Ops
      <3> QED
        BY <1>3, <3>1, UnguardedStep DEF Reload
    <2> QED
      BY <1>3, <2>1, <2>2 DEF Reload
  <1> QED
    BY <1>1, <1>2, <1>3 DEF Arrive

(* Steps that return, or go on to a place that needs no guard.             *)
LEMMA OthersGuarded ==
    ASSUME PermitInv, GuardInv, NEW h \in Handlers,
           \/ NotPermitted(h) \/ Register(h) \/ Lookup(h) \/ LockPermit(h)
           \/ RejectPermit(h) \/ AuditStarted(h) \/ WrongInput(h) \/ PerformEffect(h)
           \/ RedactOutput(h) \/ AuditResult(h) \/ UnlockPermit(h) \/ RemovePermit(h)
    PROVE  GuardInv'
  <1>t. TypeOK
    BY DEF PermitInv
  <1>1. /\ engine' = engine /\ permit' = permit
        /\ \/ Return(h)
           \/ UNCHANGED locks /\ \E s \in {"permit", "read", "dispatch", "redact", "finish_ok",
                                           "discard", "remove"} : Goto(h, s)
           \/ UNCHANGED locks /\ \E s \in {"discard", "finish_failed"}, e \in Errors : Fail(h, s, e)
    <2> USE DEF Errors
    <2>1. CASE NotPermitted(h) \/ Register(h) \/ RemovePermit(h)
      BY <2>1 DEF NotPermitted, Register, RemovePermit
    <2>2. CASE Lookup(h) \/ UnlockPermit(h)
      BY <2>2 DEF Lookup, UnlockPermit
    <2>3. CASE LockPermit(h) \/ RejectPermit(h) \/ WrongInput(h)
      BY <2>3 DEF LockPermit, RejectPermit, WrongInput
    <2>4. CASE AuditStarted(h)
      BY <2>4 DEF AuditStarted
    <2>5. CASE PerformEffect(h) \/ RedactOutput(h)
      BY <2>5 DEF PerformEffect, RedactOutput
    <2>6. CASE AuditResult(h)
      BY <2>6 DEF AuditResult
    <2> QED
      BY <2>1, <2>2, <2>3, <2>4, <2>5, <2>6
  <1>2. CASE Return(h)
    <2>1. Moves(h) /\ hnd'[h].pc = "idle" /\ writer' = writer /\ readers' = readers \ {h}
      BY <1>2, <1>t, ReturnFacts DEF Return
    <2> QED
      BY <1>1, <2>1, UnguardedStep
  <1>3. ASSUME NEW s \in {"permit", "read", "dispatch", "redact", "finish_ok", "discard", "remove"},
               Goto(h, s), UNCHANGED locks
        PROVE  GuardInv'
    <2>1. Moves(h) /\ hnd'[h].pc = s
      BY <1>3, <1>t, GotoFacts DEF Steps
    <2> QED
      BY <1>1, <1>3, <2>1, UnguardedStep DEF locks
  <1>4. ASSUME NEW s \in {"discard", "finish_failed"}, NEW e \in Errors, Fail(h, s, e),
               UNCHANGED locks
        PROVE  GuardInv'
    <2>1. Moves(h) /\ hnd'[h].pc = s
      BY <1>4, <1>t, FailFacts DEF Steps
    <2> QED
      BY <1>1, <1>4, <2>1, UnguardedStep DEF locks
  <1> QED
    BY <1>1, <1>2, <1>3, <1>4

(* Consuming a permit keeps the engine that decided on it.                 *)
LEMMA ConsumeGuarded ==
    ASSUME PermitInv, GuardInv, NEW h \in Handlers, ConsumePermit(h)
    PROVE  GuardInv'
  <1>t. TypeOK
    BY DEF PermitInv
  <1>1. engine' = engine /\ UNCHANGED locks
    BY DEF ConsumePermit
  <1>2. Goto(h, "effect") \/ Fail(h, "finish_failed", "other")
    BY DEF ConsumePermit
  <1>3. Moves(h) /\ hnd'[h].pc \in {"effect", "finish_failed"}
    BY <1>2, <1>t, GotoFacts, FailFacts DEF Steps, Errors
  <1>4. \A p \in Permits : permit[p].issued =>
            permit'[p].issued /\ permit'[p].engine = permit[p].engine
    <2>1. permit \in [Permits -> Permit]
      BY <1>t DEF TypeOK
    <2>2. \/ permit' = permit
          \/ permit' = [permit EXCEPT ![hnd[h].permit].consumed = TRUE,
                                      ![hnd[h].permit].dry_run = hnd[h].present = "dry_run"]
      BY DEF ConsumePermit
    <2> QED
      BY <2>1, <2>2 DEF Permit
  <1> QED
    BY <1>1, <1>3, <1>4, UnguardedStep DEF locks

(* The read guard is taken while nobody writes, and kept by the decision   *)
(* and by the two steps of register.                                       *)
LEMMA ReadersGuarded ==
    ASSUME PermitInv, GuardInv, NEW h \in Handlers,
           AcquireRead(h) \/ IssuePermit(h) \/ LockRegistry(h) \/ Retain(h)
    PROVE  GuardInv'
  <1>t. TypeOK /\ hnd[h] \in Frame /\ Guarded(h)
    BY DEF PermitInv, TypeOK, GuardInv
  <1>1. CASE AcquireRead(h)
    <2>1. /\ Moves(h) /\ hnd'[h].pc \in {"evaluate", "verify"} /\ readers' = readers \cup {h}
          /\ writer' = NoHandler /\ writer = NoHandler
      BY <1>1, <1>t, GotoFacts DEF AcquireRead, Steps
    <2>2. Guarded(h)'
      BY <2>1 DEF Guarded, Registering
    <2> QED
      BY <1>1, <2>1, <2>2, GatewayAssumption, GuardStep DEF AcquireRead
  <1>2. CASE IssuePermit(h)
    <2>1. PICK p \in Permits :
              /\ ~ permit[p].issued
              /\ permit' = [permit EXCEPT ![p] =
                    [issued |-> TRUE, consumed |-> FALSE, expires_at |-> now + Ttl,
                     engine |-> engine, dry_run |-> FALSE]]
              /\ hnd' = [hnd EXCEPT ![h].pc = "registry", ![h].permit = p]
      BY <1>2 DEF IssuePermit
    <2>2. Moves(h) /\ hnd'[h].pc = "registry" /\ hnd'[h].permit = p
      BY <2>1, <1>t DEF TypeOK, Moves, Frame, Steps
    <2>3. /\ permit'[p].issued /\ permit'[p].engine = engine
          /\ \A q \in Permits : q # p => permit'[q] = permit[q]
      BY <2>1, <1>t DEF TypeOK
    <2>4. h \in readers /\ engine' = engine /\ UNCHANGED locks
      BY <1>2, <1>t DEF IssuePermit, Guarded
    <2>5. Guarded(h)'
      BY <2>2, <2>3, <2>4 DEF Guarded, Registering, locks
    <2>6. \A q \in Permits : permit[q].issued =>
              permit'[q].issued /\ permit'[q].engine = permit[q].engine
      BY <2>1, <2>3
    <2> QED
      BY <2>2, <2>4, <2>5, <2>6, GuardStep DEF locks, GuardInv
  <1>3. CASE LockRegistry(h) \/ Retain(h)
    <2>1. UNCHANGED <<engine, locks, permit>>
      BY <1>3 DEF LockRegistry, Retain
    <2>2. /\ Moves(h) /\ hnd[h].pc \in {"registry", "retain"} /\ hnd'[h].pc = "retain"
          /\ hnd'[h].op = hnd[h].op /\ hnd'[h].permit = hnd[h].permit
      <3>1. registry \subseteq Permits /\ hnd[h].todo \subseteq Permits
        BY <1>t DEF TypeOK, Frame
      <3>2. CASE LockRegistry(h)
        BY <3>1, <3>2, <1>t DEF LockRegistry, TypeOK, Moves, Frame, Steps
      <3>3. CASE Retain(h)
        BY <3>1, <3>3, <1>t DEF Retain, TypeOK, Moves, Frame, Steps
      <3> QED
        BY <1>3, <3>2, <3>3
    <2>3. Guarded(h)'
      BY <2>1, <2>2, <1>t DEF Guarded, Registering, locks
    <2> QED
      BY <2>1, <2>2, <2>3, GuardStep DEF locks, GuardInv
  <1> QED
    BY <1>1, <1>2, <1>3

(* A reload: no handler is between its decision and its registration.      *)
LEMMA WriterGuarded ==
    ASSUME PermitInv, GuardInv, NEW h \in Handlers, AcquireWrite(h) \/ ReloadPolicies(h)
    PROVE  GuardInv'
  <1>t. TypeOK /\ Guarded(h)
    BY DEF PermitInv, GuardInv
  <1>1. CASE AcquireWrite(h)
    <2>1. /\ Moves(h) /\ hnd'[h].pc = "swap" /\ writer' = h /\ writer = NoHandler
          /\ readers' = {} /\ readers = {} /\ UNCHANGED <<engine, permit>>
      BY <1>1, <1>t, GotoFacts DEF AcquireWrite, Steps
    <2>2. Guarded(h)'
      BY <2>1 DEF Guarded, Registering
    <2> QED
      BY <2>1, <2>2, GatewayAssumption, GuardStep
  <1>2. CASE ReloadPolicies(h)
    <2>1. /\ writer = h /\ h # NoHandler /\ readers = {} /\ readers' = {}
          /\ writer' = NoHandler
      BY <1>2, <1>t, GatewayAssumption DEF ReloadPolicies, Guarded, GuardInv
    <2>2. Moves(h) /\ hnd'[h].pc = "idle"
      BY <1>2, <1>t, IdleFrameFacts DEF ReloadPolicies, TypeOK, Moves
    <2>3. ASSUME NEW g \in Handlers PROVE Guarded(g)'
      <3>1. CASE g = h
        BY <2>2, <3>1 DEF Guarded, Registering
      <3>2. CASE g # h
        <4>1. hnd'[g] = hnd[g] /\ Guarded(g)
          BY <2>2, <3>2 DEF Moves, GuardInv
        <4>2. hnd[g].pc # "swap" /\ hnd[g].pc # "evaluate" /\ ~ Registering(g)
          BY <2>1, <3>2, <4>1 DEF Guarded
        <4> QED
          BY <4>1, <4>2 DEF Guarded, Registering
      <3> QED
        BY <3>1, <3>2
    <2> QED
      BY <2>1, <2>3 DEF GuardInv
  <1> QED
    BY <1>1, <1>2

(* No reload comes between a decision of evaluate and the registration of  *)
(* its permit, with any number of handlers (DecidedByCurrentEngine).       *)
THEOREM ReloadIsAtomic == Spec => DecidedByCurrentEngine
  <1>1. Init => GuardInv
    BY IdleFrameFacts DEF Init, GuardInv, Guarded, Registering
  <1>2. PermitInv /\ GuardInv /\ [Next]_vars => GuardInv'
    <2> SUFFICES ASSUME PermitInv, GuardInv, [Next]_vars PROVE GuardInv'
      OBVIOUS
    <2>1. ASSUME NEW h \in Handlers, Arrive(h) \/ Step(h) PROVE GuardInv'
      BY <2>1, ArriveGuarded, OthersGuarded, ConsumeGuarded, ReadersGuarded,
         WriterGuarded DEF Step
    <2>2. CASE Tick \/ Quiescent \/ UNCHANGED vars
      <3>1. UNCHANGED <<hnd, engine, readers, writer, permit>>
        BY <2>2 DEF Tick, Quiescent, vars, locks
      <3> QED
        BY <3>1 DEF GuardInv, Guarded, Registering
    <2> QED
      BY <2>1, <2>2 DEF Next
  <1>3. PermitInv /\ GuardInv /\ [Next]_vars =>
            [\A p \in registry' \ registry : permit[p].engine = engine]_vars
    <2> SUFFICES ASSUME PermitInv, GuardInv, Next, NEW p \in registry' \ registry
                 PROVE  permit[p].engine = engine
      OBVIOUS
    <2>1. PICK h \in Handlers : Register(h)
      <3>1. CASE Tick \/ Quiescent
        BY <3>1 DEF Tick, Quiescent, vars
      <3>2. ASSUME NEW h \in Handlers, Arrive(h) PROVE FALSE
        BY <3>2 DEF Arrive, Evaluate, Execute, Reload
      <3>3. ASSUME NEW h \in Handlers, Step(h), ~ Register(h) PROVE FALSE
        <4>1. CASE \/ AcquireRead(h) \/ NotPermitted(h) \/ IssuePermit(h) \/ LockRegistry(h)
                   \/ Retain(h) \/ Lookup(h) \/ LockPermit(h) \/ RejectPermit(h)
          BY <4>1 DEF AcquireRead, NotPermitted, IssuePermit, LockRegistry, Retain, Lookup,
                      LockPermit, RejectPermit
        <4>2. CASE \/ AuditStarted(h) \/ WrongInput(h) \/ ConsumePermit(h) \/ PerformEffect(h)
                   \/ RedactOutput(h) \/ AuditResult(h)
          BY <4>2 DEF AuditStarted, WrongInput, ConsumePermit, PerformEffect, RedactOutput,
                      AuditResult
        <4>3. CASE UnlockPermit(h) \/ RemovePermit(h) \/ AcquireWrite(h) \/ ReloadPolicies(h)
          BY <4>3 DEF UnlockPermit, RemovePermit, AcquireWrite, ReloadPolicies
        <4> QED
          BY <3>3, <4>1, <4>2, <4>3 DEF Step
      <3> QED
        BY <3>1, <3>2, <3>3 DEF Next
    <2>2. p = hnd[h].permit /\ Registering(h) /\ Guarded(h)
      BY <2>1 DEF Register, Registering, GuardInv
    <2> QED
      BY <2>2 DEF Guarded
  <1> QED
    BY <1>1, <1>2, <1>3, PermitInvariance, PTL DEF Spec, DecidedByCurrentEngine
=============================================================================
