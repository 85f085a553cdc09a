------------------------ MODULE ApprovalBroker_proof ------------------------
(***************************************************************************)
(* Machine-checked proofs about ApprovalBroker, for any number of threads, *)
(* processes, approvals, digests, any clock and any faults.                *)
(***************************************************************************)
EXTENDS ApprovalBroker, TLAPS

(* Appending an event keeps every earlier event at its sequence number.    *)
LEMMA AppendFacts ==
    ASSUME NEW S, NEW s \in Seq(S), NEW e \in S
    PROVE  /\ Append(s, e) \in Seq(S)
           /\ Len(Append(s, e)) = Len(s) + 1
           /\ Len(s) \in Nat
           /\ \A n \in 1 .. Len(s) : Append(s, e)[n] = s[n]
           /\ Append(s, e)[Len(s) + 1] = e
  OBVIOUS

(* The fields of a well-formed frame.                                      *)
LEMMA FrameFields ==
    ASSUME NEW f \in Frame
    PROVE  /\ f.pc \in Steps /\ f.op \in Ops /\ f.id \in Ids \cup {NoId}
           /\ f.digest \in Digests /\ f.token \in Nat /\ f.at \in Nat
           /\ f.seq \in Nat
  BY DEF Frame, Token

(* The frame of a thread outside any operation.                            *)
LEMMA IdleFrameFacts ==
    /\ IdleFrame \in Frame
    /\ IdleFrame.pc = "idle" /\ IdleFrame.id = NoId /\ IdleFrame.seq = 0
  BY BrokerAssumption DEF IdleFrame, AnyDigest, Frame, Steps, Ops, Token, None

(* Going to another step changes the step of one thread only.              *)
LEMMA GotoFacts ==
    ASSUME TypeOK, NEW t \in Threads, NEW s \in Steps, Goto(t, s)
    PROVE  /\ thr' \in [Threads -> Frame]
           /\ \A u \in Threads \ {t} : thr'[u] = thr[u]
           /\ thr'[t].pc = s
           /\ thr'[t].op = thr[t].op
           /\ thr'[t].id = thr[t].id
           /\ thr'[t].token = thr[t].token
           /\ thr'[t].seq = thr[t].seq
           /\ \A u \in Threads : thr'[u].seq = thr[u].seq
  <1>1. thr[t] \in Frame
    BY DEF TypeOK
  <1>2. thr' = [thr EXCEPT ![t] = [thr[t] EXCEPT !.pc = s]]
    BY <1>1 DEF TypeOK, Goto
  <1>3. [thr[t] EXCEPT !.pc = s] \in Frame
    BY <1>1 DEF Frame
  <1>4. thr'[t] = [thr[t] EXCEPT !.pc = s]
    BY <1>2 DEF TypeOK
  <1>5. thr' \in [Threads -> Frame] /\ \A u \in Threads \ {t} : thr'[u] = thr[u]
    BY <1>2, <1>3 DEF TypeOK
  <1> QED
    BY <1>1, <1>4, <1>5 DEF Frame

(* Finding overdue rows records the clock and the step, nothing else.      *)
LEMMA FoundOverdueFacts ==
    ASSUME TypeOK, NEW t \in Threads, FoundOverdue(t)
    PROVE  /\ thr' \in [Threads -> Frame]
           /\ \A u \in Threads \ {t} : thr'[u] = thr[u]
           /\ thr'[t].pc = "audit_expired"
           /\ thr'[t].op = thr[t].op
           /\ thr'[t].id = thr[t].id
           /\ thr'[t].seq = thr[t].seq
           /\ \A u \in Threads : thr'[u].seq = thr[u].seq
  BY ZenonT(40) DEF TypeOK, FoundOverdue, Frame, Steps

(* Returning leaves the thread idle and, if it held it, the lock free.     *)
LEMMA ReturnFacts ==
    ASSUME TypeOK, NEW t \in Threads, Return(t)
    PROVE  /\ thr' \in [Threads -> Frame]
           /\ lock' \in [Processes -> Threads \cup {NoThread}]
           /\ \A u \in Threads \ {t} : thr'[u] = thr[u]
           /\ thr'[t].pc = "idle" /\ thr'[t].id = NoId /\ thr'[t].seq = 0
           /\ \A u \in Threads : thr'[u].seq <= Len(log)
  <1>1. /\ thr' \in [Threads -> Frame]
        /\ \A u \in Threads \ {t} : thr'[u] = thr[u]
        /\ thr'[t].pc = "idle" /\ thr'[t].id = NoId /\ thr'[t].seq = 0
    BY IdleFrameFacts DEF Return, TypeOK
  <1>2. lock' \in [Processes -> Threads \cup {NoThread}]
    BY BrokerAssumption DEF Return, TypeOK
  <1>3. Len(log) \in Nat
    BY DEF TypeOK
  <1>4. \A u \in Threads : thr'[u].seq <= Len(log)
    BY <1>1, <1>3 DEF TypeOK
  <1> QED
    BY <1>1, <1>2, <1>4

(* One event appended by thread t, and the number t keeps of it.           *)
LEMMA AppendAuditFacts ==
    ASSUME TypeOK, NEW t \in Threads, NEW cat \in Categories,
           NEW next \in Steps, AppendAudit(t, cat, next)
    PROVE  /\ log' \in Seq(Event)
           /\ Len(log) \in Nat
           /\ Len(log') = Len(log) + 1
           /\ \A n \in 1 .. Len(log) : log'[n] = log[n]
           /\ log'[Len(log) + 1] = [cat |-> cat, id |-> thr[t].id]
           /\ thr' \in [Threads -> Frame]
           /\ \A u \in Threads \ {t} : thr'[u] = thr[u]
           /\ thr'[t].pc = next
           /\ thr'[t].op = thr[t].op
           /\ thr'[t].id = thr[t].id
           /\ thr'[t].token = thr[t].token
           /\ thr'[t].seq = Len(log) + 1
           /\ \A u \in Threads : thr'[u].seq <= Len(log')
  <1> DEFINE e == [cat |-> cat, id |-> thr[t].id]
  <1>1. e \in Event
    BY DEF TypeOK, Frame, Event
  <1>2. /\ log' \in Seq(Event)
        /\ Len(log') = Len(log) + 1
        /\ Len(log) \in Nat
        /\ \A n \in 1 .. Len(log) : log'[n] = log[n]
        /\ log'[Len(log) + 1] = e
    BY <1>1, AppendFacts DEF AppendAudit, TypeOK
  <1>3. /\ thr' \in [Threads -> Frame]
        /\ \A u \in Threads \ {t} : thr'[u] = thr[u]
        /\ thr'[t].pc = next
        /\ thr'[t].op = thr[t].op
        /\ thr'[t].id = thr[t].id
        /\ thr'[t].token = thr[t].token
        /\ thr'[t].seq = Len(log) + 1
    BY <1>2 DEF AppendAudit, TypeOK, Frame
  <1>4. ASSUME NEW u \in Threads PROVE thr'[u].seq <= Len(log')
    <2>1. thr[u].seq \in Nat /\ thr[u].seq <= Len(log)
      BY FrameFields DEF TypeOK
    <2> QED
      BY <1>2, <1>3, <2>1
  <1> QED
    BY <1>2, <1>3, <1>4

(* The fields of a well-formed row.                                        *)
LEMMA RowFields ==
    ASSUME TypeOK, NEW i \in Ids
    PROVE  /\ rows[i] \in Row
           /\ rows[i].state \in States
           /\ rows[i].expires_at \in Nat
           /\ rows[i].token_hash \in 0 .. Len(log)
           /\ rows[i].audit_sequence \in 0 .. Len(log)
           /\ Len(log) \in Nat
  BY DEF TypeOK, Row, Token

----------------------------------------------------------------------------
(* Type correctness                                                        *)

(* The initial table, chain and frames are well formed.                    *)
LEMMA TypeInit == Init => TypeOK
  <1> SUFFICES ASSUME Init PROVE TypeOK
    OBVIOUS
  <1>1. AnyDigest \in Digests
    BY BrokerAssumption DEF AnyDigest
  <1>2. rows \in [Ids -> Row]
    BY <1>1 DEF Init, Row, States, Token, None
  <1>3. thr \in [Threads -> Frame]
    BY IdleFrameFacts DEF Init
  <1> QED
    BY <1>2, <1>3, IdleFrameFacts DEF Init, TypeOK, None, Token

(* An append changes the chain and one frame, and both stay well formed.   *)
LEMMA AppendAuditType ==
    ASSUME TypeOK, NEW t \in Threads, NEW cat \in Categories,
           NEW next \in Steps, AppendAudit(t, cat, next),
           UNCHANGED <<rows, now, lock, held, grants>>
    PROVE  TypeOK'
  <1>1. \A i \in Ids : /\ rows'[i].token_hash <= Len(log')
                       /\ rows'[i].audit_sequence <= Len(log')
    <2>1. Len(log') = Len(log) + 1 /\ Len(log) \in Nat
      BY AppendAuditFacts
    <2>2. \A i \in Ids : /\ rows[i].token_hash \in 0 .. Len(log)
                         /\ rows[i].audit_sequence \in 0 .. Len(log)
      BY RowFields
    <2> QED
      BY <2>1, <2>2
  <1> QED
    BY <1>1, AppendAuditFacts DEF TypeOK

(* Every step keeps the table, the chain and the frames well formed.       *)
LEMMA TypeStep == TypeOK /\ FramesAgreeWithLog /\ [Next]_vars => TypeOK'
  <1> SUFFICES ASSUME TypeOK, FramesAgreeWithLog, [Next]_vars PROVE TypeOK'
    OBVIOUS
  <1>0. Len(log) \in Nat
    BY DEF TypeOK
  <1>1. ASSUME NEW t \in Threads, NEW d \in Digests, RequestApproval(t, d)
        PROVE TypeOK'
    <2>1. thr' \in [Threads -> Frame]
      BY <1>1 DEF TypeOK, RequestApproval, Frame, Steps, Ops, Token, None
    <2>2. \A u \in Threads : thr'[u].seq <= Len(log)
      BY <1>0, <1>1 DEF TypeOK, RequestApproval, None
    <2> QED
      BY <1>1, <2>1, <2>2 DEF TypeOK, RequestApproval
  <1>2. ASSUME NEW t \in Threads, CountActiveForDigest(t) PROVE TypeOK'
    <2>1. CASE Return(t)
      BY <1>2, <2>1, ReturnFacts DEF TypeOK, CountActiveForDigest
    <2>2. CASE Goto(t, "count_pending") /\ UNCHANGED lock
      BY <1>2, <2>2, GotoFacts DEF TypeOK, CountActiveForDigest, Steps
    <2> QED
      BY <1>2, <2>1, <2>2 DEF CountActiveForDigest
  <1>3. ASSUME NEW t \in Threads, CountPending(t) PROVE TypeOK'
    <2>1. CASE Return(t)
      BY <1>3, <2>1, ReturnFacts DEF TypeOK, CountPending
    <2>2. CASE Goto(t, "insert") /\ UNCHANGED lock
      BY <1>3, <2>2, GotoFacts DEF TypeOK, CountPending, Steps
    <2> QED
      BY <1>3, <2>1, <2>2 DEF CountPending
  <1>4. ASSUME NEW t \in Threads, InsertPending(t) PROVE TypeOK'
    <2>1. thr' \in [Threads -> Frame]
      <3>1. PICK i \in Ids :
               thr' = [thr EXCEPT ![t].pc = "audit_requested", ![t].id = i]
        BY <1>4 DEF InsertPending
      <3>2. thr[t] \in Frame
        BY DEF TypeOK
      <3>3. [thr[t] EXCEPT !.pc = "audit_requested", !.id = i] \in Frame
        BY <3>2 DEF Frame, Steps
      <3>4. thr' = [thr EXCEPT ![t] =
                      [thr[t] EXCEPT !.pc = "audit_requested", !.id = i]]
        BY <3>1, <3>2 DEF TypeOK
      <3> QED
        BY <3>3, <3>4 DEF TypeOK
    <2>2. \A u \in Threads : thr'[u].seq <= Len(log)
      BY <1>4 DEF TypeOK, InsertPending, Frame
    <2>3. rows' \in [Ids -> Row]
      BY <1>4, BrokerAssumption, SMTT(30)
         DEF TypeOK, InsertPending, Frame, Row, States, Token, None
    <2>4. \A i \in Ids : /\ rows'[i].token_hash <= Len(log)
                         /\ rows'[i].audit_sequence <= Len(log)
      BY <1>0, <1>4 DEF TypeOK, InsertPending, None
    <2> QED
      BY <1>4, <2>1, <2>2, <2>3, <2>4 DEF TypeOK, InsertPending
  <1>5. ASSUME NEW t \in Threads, AppendRequested(t) PROVE TypeOK'
    BY <1>5, AppendAuditType DEF AppendRequested, Categories, Steps
  <1>6. ASSUME NEW t \in Threads, UpdateAuditSequence(t) PROVE TypeOK'
    <2>1. rows' \in [Ids -> Row]
      BY <1>6, FrameFields, ZenonT(40) DEF TypeOK, UpdateAuditSequence, Row
    <2>2. \A i \in Ids : /\ rows'[i].token_hash <= Len(log)
                         /\ rows'[i].audit_sequence <= Len(log)
      BY <1>6 DEF TypeOK, UpdateAuditSequence, Row
    <2> QED
      BY <1>6, <2>1, <2>2, ReturnFacts DEF TypeOK, UpdateAuditSequence
  <1>7. ASSUME NEW t \in Threads, NEW op \in Ops, NEW i \in Ids \cup {NoId},
               NEW k \in Nat, CallTransition(t, op, i, k)
        PROVE TypeOK'
    <2>1. AnyDigest \in Digests
      BY BrokerAssumption DEF AnyDigest
    <2>2. thr' \in [Threads -> Frame]
      BY <1>7, <2>1 DEF TypeOK, CallTransition, Frame, Steps, Token, None
    <2>3. \A u \in Threads : thr'[u].seq <= Len(log)
      BY <1>0, <1>7 DEF TypeOK, CallTransition, None
    <2> QED
      BY <1>7, <2>2, <2>3 DEF TypeOK, CallTransition
  <1>8. ASSUME NEW t \in Threads, AcquireTransitionLock(t) PROVE TypeOK'
    <2>1. lock' \in [Processes -> Threads \cup {NoThread}]
      BY <1>8, BrokerAssumption DEF TypeOK, AcquireTransitionLock
    <2>2. PICK s \in Steps : Goto(t, s)
      BY <1>8 DEF AcquireTransitionLock, Steps
    <2> QED
      BY <1>8, <2>1, <2>2, GotoFacts DEF TypeOK, AcquireTransitionLock
  <1>9. ASSUME NEW t \in Threads, EnsureTransitionable(t) PROVE TypeOK'
    <2>1. CASE Return(t)
      BY <1>9, <2>1, ReturnFacts DEF TypeOK, EnsureTransitionable
    <2>2. CASE FoundOverdue(t) /\ UNCHANGED lock
      BY <1>9, <2>2, FoundOverdueFacts DEF TypeOK, EnsureTransitionable
    <2>3. CASE Goto(t, "audit") /\ UNCHANGED lock
      BY <1>9, <2>3, GotoFacts DEF TypeOK, EnsureTransitionable, Steps
    <2> QED
      BY <1>9, <2>1, <2>2, <2>3 DEF EnsureTransitionable
  <1>10. ASSUME NEW t \in Threads, AppendTransition(t) PROVE TypeOK'
    <2>1. thr[t].op \in {"approve", "deny", "cancel", "consume"}
      BY <1>10 DEF AppendTransition, FramesAgreeWithLog, FrameAgreesWithLog, CategoryOf
    <2>2. CategoryOf[thr[t].op] \in Categories
      BY <2>1 DEF CategoryOf, Categories
    <2> QED
      BY <1>10, <2>2, AppendAuditType DEF AppendTransition, Steps
  <1>11. ASSUME NEW t \in Threads, TransitionToApproved(t) PROVE TypeOK'
    <2> DEFINE i == thr[t].id
    <2>0. thr[t].seq \in Nat /\ i \in Ids
      BY <1>11, FrameFields
         DEF TypeOK, TransitionToApproved, FramesAgreeWithLog,
             FrameAgreesWithLog
    <2>1. rows' \in [Ids -> Row]
      <3>1. CASE rows' = rows
        BY <3>1 DEF TypeOK
      <3>2. CASE rows' = [rows EXCEPT ![i].state = "expired"]
        BY <2>0, <3>2, ZenonT(40) DEF TypeOK, Row, States
      <3>3. CASE rows' = [rows EXCEPT ![i] =
                            [@ EXCEPT !.state = "approved",
                                      !.token_hash = thr[t].seq,
                                      !.audit_sequence = thr[t].seq]]
        BY <2>0, <3>3, ZenonT(40) DEF TypeOK, Row, States, Token
      <3> QED
        BY <1>11, <3>1, <3>2, <3>3 DEF TransitionToApproved
    <2>2. \A j \in Ids : /\ rows'[j].token_hash <= Len(log)
                         /\ rows'[j].audit_sequence <= Len(log)
      BY <1>11, ZenonT(40) DEF TypeOK, TransitionToApproved, Row
    <2>3. held' \in [Processes -> SUBSET Token]
      <3>1. held \in [Processes -> SUBSET Token] /\ thr[t].seq \in Token
        BY FrameFields DEF TypeOK, Token
      <3>2. ProcessOf[t] \in Processes
        BY BrokerAssumption
      <3>3. \/ held' = held
            \/ held' = [held EXCEPT ![ProcessOf[t]] = @ \cup {thr[t].seq}]
        BY <1>11 DEF TransitionToApproved
      <3> QED
        BY <3>1, <3>2, <3>3
    <2> QED
      BY <1>11, <2>1, <2>2, <2>3, ReturnFacts DEF TypeOK, TransitionToApproved
  <1>12. ASSUME NEW t \in Threads,
                TransitionToDenied(t) \/ TransitionToCancelled(t)
         PROVE TypeOK'
    <2>1. PICK s \in States : DecidePending(thr[t].id, s, thr[t].seq)
      BY <1>12 DEF TransitionToDenied, TransitionToCancelled, States
    <2>2. rows' \in [Ids -> Row]
      BY <2>1, FrameFields, ZenonT(40) DEF TypeOK, DecidePending, Row
    <2>3. \A i \in Ids : /\ rows'[i].token_hash <= Len(log)
                         /\ rows'[i].audit_sequence <= Len(log)
      BY <2>1 DEF TypeOK, DecidePending, Row
    <2> QED
      BY <1>12, <2>2, <2>3, ReturnFacts
         DEF TypeOK, TransitionToDenied, TransitionToCancelled
  <1>13. ASSUME NEW t \in Threads, StoreConsume(t) PROVE TypeOK'
    <2> DEFINE i == thr[t].id
               Expires == rows' = [rows EXCEPT ![i].state = "expired"]
               Consumes == rows' = [rows EXCEPT ![i] =
                                      [@ EXCEPT !.state = "consumed",
                                                !.token_hash = None,
                                                !.audit_sequence = thr[t].seq]]
    <2>0. thr[t].seq \in Nat /\ thr[t].seq <= Len(log) /\ i \in Ids
      <3>1. i \in Ids
        BY <1>13 DEF StoreConsume, FramesAgreeWithLog, FrameAgreesWithLog
      <3> QED
        BY <3>1, FrameFields DEF TypeOK
    <2>a. UNCHANGED rows \/ Expires \/ Consumes
      BY <1>13 DEF StoreConsume
    <2>1. rows' \in [Ids -> Row]
      <3>1. CASE UNCHANGED rows
        BY <3>1 DEF TypeOK
      <3>2. CASE Expires
        BY <2>0, <3>2, ZenonT(40) DEF TypeOK, Row, States
      <3>3. CASE Consumes
        BY <2>0, <3>3, ZenonT(40) DEF TypeOK, Row, States, Token, None
      <3> QED
        BY <2>a, <3>1, <3>2, <3>3
    <2>2. \A j \in Ids : /\ rows'[j].token_hash <= Len(log)
                         /\ rows'[j].audit_sequence <= Len(log)
      <3>1. CASE UNCHANGED rows
        BY <3>1 DEF TypeOK
      <3>2. CASE Expires
        BY <2>0, <3>2 DEF TypeOK, Row
      <3>3. CASE Consumes
        BY <1>0, <2>0, <3>3 DEF TypeOK, Row, None
      <3> QED
        BY <2>a, <3>1, <3>2, <3>3
    <2>3. grants' \in [Ids -> Nat]
      BY <1>13 DEF TypeOK, StoreConsume
    <2> QED
      BY <1>13, <2>1, <2>2, <2>3, ReturnFacts DEF TypeOK, StoreConsume
  <1>14. ASSUME NEW t \in Threads, HasOverdue(t) PROVE TypeOK'
    <2>1. CASE Return(t)
      BY <1>14, <2>1, ReturnFacts DEF TypeOK, HasOverdue
    <2>2. CASE FoundOverdue(t) /\ UNCHANGED lock
      BY <1>14, <2>2, FoundOverdueFacts DEF TypeOK, HasOverdue
    <2> QED
      BY <1>14, <2>1, <2>2 DEF HasOverdue
  <1>15. ASSUME NEW t \in Threads, AppendExpired(t) PROVE TypeOK'
    BY <1>15, AppendAuditType DEF AppendExpired, Categories, Steps
  <1>16. ASSUME NEW t \in Threads, ExpireOverdue(t) PROVE TypeOK'
    <2>1. rows' \in [Ids -> Row]
      BY <1>16, FrameFields, ZenonT(40) DEF TypeOK, ExpireOverdue, Row, States
    <2>2. \A i \in Ids : /\ rows'[i].token_hash <= Len(log)
                         /\ rows'[i].audit_sequence <= Len(log)
      BY <1>16 DEF TypeOK, ExpireOverdue, Row
    <2> QED
      BY <1>16, <2>1, <2>2, ReturnFacts DEF TypeOK, ExpireOverdue
  <1>17. ASSUME NEW t \in Threads, AuditFails(t) \/ StoreFails(t)
         PROVE TypeOK'
    BY <1>17, ReturnFacts DEF TypeOK, AuditFails, StoreFails
  <1>18. ASSUME NEW p \in Processes, Crash(p) PROVE TypeOK'
    BY <1>0, <1>18, IdleFrameFacts, BrokerAssumption DEF TypeOK, Crash
  <1>19. CASE Tick
    BY <1>19 DEF TypeOK, Tick
  <1>20. CASE UNCHANGED vars
    BY <1>20 DEF TypeOK, vars
  <1>21. ASSUME NEW t \in Threads, Decision(t) \/ Consume(t) \/ Sweep(t)
         PROVE \E op \in Ops, i \in Ids \cup {NoId}, k \in Nat :
                  CallTransition(t, op, i, k)
    BY <1>21, BrokerAssumption
       DEF TypeOK, Decision, Consume, Sweep, Ops, Token, None
  <1> QED
    BY <1>1, <1>2, <1>3, <1>4, <1>5, <1>6, <1>7, <1>8, <1>9, <1>10, <1>11,
       <1>12, <1>13, <1>14, <1>15, <1>16, <1>17, <1>18, <1>19, <1>20, <1>21
       DEF Next, Begin, Step

----------------------------------------------------------------------------
(* What a step may do to the chain and to one row                          *)

(* Events keep their numbers.                                              *)
LogGrows == /\ Len(log) \in Nat /\ Len(log') \in Nat
            /\ Len(log) <= Len(log')
            /\ \A n \in 1 .. Len(log) : log'[n] = log[n]

(* The thread that is about to commit operation op on approval i.          *)
Committing(t, op, i) == /\ thr[t].pc = "commit"
                        /\ thr[t].op = op
                        /\ thr[t].id = i

(* The moves of row i and of its grants: the edges of the life cycle, each *)
(* with the thread that made it.                                           *)
Stays(i) == /\ rows'[i].state = rows[i].state
            /\ rows'[i].token_hash = rows[i].token_hash
            /\ grants'[i] = grants[i]
Opens(i) == /\ rows[i].state = "absent" /\ rows'[i].state = "pending"
            /\ grants'[i] = grants[i]
Approves(i) == /\ rows[i].state = "pending" /\ rows'[i].state = "approved"
               /\ grants'[i] = grants[i]
               /\ \E t \in Threads : /\ Committing(t, "approve", i)
                                     /\ rows'[i].token_hash = thr[t].seq
Rejects(i) == /\ rows[i].state = "pending"
              /\ grants'[i] = grants[i]
              /\ \E t \in Threads :
                    \/ /\ rows'[i].state = "denied"
                       /\ Committing(t, "deny", i)
                    \/ /\ rows'[i].state = "cancelled"
                       /\ Committing(t, "cancel", i)
Expires(i) == /\ IsActive(i) /\ rows'[i].state = "expired"
              /\ grants'[i] = grants[i]
Grants(i) == /\ rows[i].state = "approved" /\ rows'[i].state = "consumed"
             /\ now < rows[i].expires_at
             /\ grants'[i] = grants[i] + 1
             /\ \E t \in Threads : Committing(t, "consume", i)
Moves(i) == \/ Stays(i) \/ Opens(i) \/ Approves(i) \/ Rejects(i)
            \/ Expires(i) \/ Grants(i)

(* The number row i carries: the old one, none, or one of its own event.   *)
Numbered(i) ==
    \/ rows'[i].audit_sequence \in {rows[i].audit_sequence, None}
    \/ \E t \in Threads :
          /\ rows'[i].audit_sequence = thr[t].seq
          /\ \/ thr[t].pc \in {"link", "commit"} /\ thr[t].id = i
             \/ thr[t].pc = "expire_overdue"

(* Every step appends at most one event at the end of the chain.           *)
LEMMA LogStep ==
    ASSUME TypeOK, FramesAgreeWithLog, [Next]_vars
    PROVE  LogGrows
  <1>1. Len(log) \in Nat
    BY DEF TypeOK
  <1>2. ASSUME NEW t \in Threads, NEW cat \in Categories, NEW next \in Steps,
               AppendAudit(t, cat, next)
        PROVE LogGrows
    <2>1. /\ Len(log') = Len(log) + 1
          /\ \A n \in 1 .. Len(log) : log'[n] = log[n]
      BY <1>2, AppendAuditFacts
    <2> QED
      BY <1>1, <2>1 DEF LogGrows
  <1>3. ASSUME NEW t \in Threads, AppendTransition(t) PROVE LogGrows
    <2>1. thr[t].op \in {"approve", "deny", "cancel", "consume"}
      BY <1>3 DEF AppendTransition, FramesAgreeWithLog, FrameAgreesWithLog,
                  CategoryOf
    <2>2. CategoryOf[thr[t].op] \in Categories
      BY <2>1 DEF CategoryOf, Categories
    <2> QED
      BY <1>2, <1>3, <2>2 DEF AppendTransition, Steps
  <1>4. ASSUME NEW t \in Threads, AppendRequested(t) \/ AppendExpired(t)
        PROVE LogGrows
    BY <1>2, <1>4 DEF AppendRequested, AppendExpired, Categories, Steps
  <1>5. CASE UNCHANGED log
    BY <1>1, <1>5 DEF LogGrows
  <1> QED
    BY <1>3, <1>4, <1>5
       DEF Next, vars, Begin, Step, Crash, Tick, AuditFails, StoreFails,
           RequestApproval, CountActiveForDigest, CountPending, InsertPending,
           UpdateAuditSequence, Decision, Consume, Sweep, CallTransition,
           AcquireTransitionLock, EnsureTransitionable, TransitionToApproved,
           TransitionToDenied, TransitionToCancelled, StoreConsume,
           HasOverdue, ExpireOverdue

(* Every step moves every row along the life cycle or leaves it alone, and *)
(* numbers it only with an event of its own.                               *)
LEMMA RowStep ==
    ASSUME TypeOK, FramesAgreeWithLog, [Next]_vars, NEW i \in Ids
    PROVE  Moves(i) /\ Numbered(i)
  <1>1. CASE UNCHANGED <<rows, grants>>
    BY <1>1 DEF Moves, Stays, Numbered
  <1>2. ASSUME NEW t \in Threads, InsertPending(t) PROVE Moves(i) /\ Numbered(i)
    BY <1>2 DEF InsertPending, TypeOK, Moves, Stays, Opens, Numbered, None
  <1>3. ASSUME NEW t \in Threads, UpdateAuditSequence(t)
        PROVE Moves(i) /\ Numbered(i)
    BY <1>3 DEF UpdateAuditSequence, TypeOK, Row, Moves, Stays, Numbered
  <1>4. ASSUME NEW t \in Threads, TransitionToApproved(t)
        PROVE Moves(i) /\ Numbered(i)
    <2> DEFINE j == thr[t].id
    <2>1. CASE UNCHANGED rows
      BY <1>4, <2>1, <1>1 DEF TransitionToApproved
    <2>2. CASE /\ rows[j].state = "pending"
               /\ rows' = [rows EXCEPT ![j].state = "expired"]
      BY <1>4, <2>2 DEF TransitionToApproved, TypeOK, Row, Moves, Stays,
                        Expires, IsActive, Numbered
    <2>3. CASE /\ rows[j].state = "pending"
               /\ rows' = [rows EXCEPT ![j] =
                             [@ EXCEPT !.state = "approved",
                                       !.token_hash = thr[t].seq,
                                       !.audit_sequence = thr[t].seq]]
      BY <1>4, <2>3 DEF TransitionToApproved, TypeOK, Row, Moves, Stays,
                        Approves, Numbered, Committing
    <2> QED
      BY <1>4, <2>1, <2>2, <2>3 DEF TransitionToApproved
  <1>5. ASSUME NEW t \in Threads, TransitionToDenied(t)
        PROVE Moves(i) /\ Numbered(i)
    BY <1>5 DEF TransitionToDenied, DecidePending, TypeOK, Row, Moves, Stays,
                Rejects, Numbered, Committing
  <1>6. ASSUME NEW t \in Threads, TransitionToCancelled(t)
        PROVE Moves(i) /\ Numbered(i)
    BY <1>6 DEF TransitionToCancelled, DecidePending, TypeOK, Row, Moves,
                Stays, Rejects, Numbered, Committing
  <1>7. ASSUME NEW t \in Threads, StoreConsume(t) PROVE Moves(i) /\ Numbered(i)
    <2> DEFINE j == thr[t].id
    <2>1. CASE UNCHANGED <<rows, grants>>
      BY <2>1, <1>1
    <2>2. CASE /\ rows[j].state = "approved"
               /\ rows' = [rows EXCEPT ![j].state = "expired"]
               /\ UNCHANGED grants
      BY <2>2 DEF TypeOK, Row, Moves, Stays, Expires, IsActive, Numbered
    <2>3. CASE /\ rows[j].state = "approved"
               /\ now < rows[j].expires_at
               /\ rows' = [rows EXCEPT ![j] =
                             [@ EXCEPT !.state = "consumed",
                                       !.token_hash = None,
                                       !.audit_sequence = thr[t].seq]]
               /\ grants' = [grants EXCEPT ![j] = @ + 1]
      <3>1. CASE i = j
        BY <1>7, <2>3, <3>1 DEF StoreConsume, TypeOK, Row, Moves, Grants,
                                Numbered, Committing
      <3>2. CASE i # j
        BY <2>3, <3>2 DEF TypeOK, Moves, Stays, Numbered
      <3> QED
        BY <3>1, <3>2
    <2> QED
      BY <1>7, <2>1, <2>2, <2>3 DEF StoreConsume
  <1>8. ASSUME NEW t \in Threads, ExpireOverdue(t) PROVE Moves(i) /\ Numbered(i)
    BY <1>8 DEF ExpireOverdue, Overdue, TypeOK, Row, Moves, Stays, Expires,
                IsActive, Numbered
  <1> QED
    BY <1>1, <1>2, <1>3, <1>4, <1>5, <1>6, <1>7, <1>8
       DEF Next, vars, Begin, Step, Crash, Tick, AuditFails, StoreFails,
           RequestApproval, CountActiveForDigest, CountPending,
           Decision, Consume, Sweep, CallTransition,
           AcquireTransitionLock, EnsureTransitionable, AppendTransition,
           AppendRequested, AppendExpired, HasOverdue

----------------------------------------------------------------------------
(* The inductive invariant                                                 *)

(* The invariant holds initially: there is no row, no event and no thread  *)
(* inside an operation.                                                    *)
LEMMA InvInit == Init => IndInv
  <1> SUFFICES ASSUME Init PROVE IndInv
    OBVIOUS
  <1>1. TypeOK
    BY TypeInit
  <1>2. \A t \in Threads : thr[t].pc = "idle" /\ thr[t] = IdleFrame
    BY IdleFrameFacts DEF Init
  <1>3. LockDiscipline
    BY <1>2, BrokerAssumption DEF Init, LockDiscipline, Locked
  <1>4. FramesAgreeWithLog /\ CheckedTokenStaysValid
    BY <1>2 DEF FramesAgreeWithLog, FrameAgreesWithLog, CheckedTokenStaysValid
  <1>5. \A i \in Ids : rows[i].state = "absent" /\ rows[i].audit_sequence = None
    BY DEF Init
  <1>6. /\ ApprovedCarriesToken /\ DecisionsAudited
        /\ SequenceNamesOwnEvent
    BY <1>5 DEF ApprovedCarriesToken, DecisionsAudited, SequenceNamesOwnEvent
  <1>7. AtMostOneGrant
    BY <1>5 DEF Init, AtMostOneGrant
  <1> QED
    BY <1>1, <1>3, <1>4, <1>6, <1>7 DEF IndInv

(* An event that is in the chain stays in it.                              *)
LEMMA RecordedStays ==
    ASSUME LogGrows, NEW i, NEW cat, Recorded(i, cat)
    PROVE  Recorded(i, cat)'
  BY DEF Recorded, LogGrows

(* A committing thread's event is in the chain.                            *)
LEMMA CommittingRecorded ==
    ASSUME TypeOK, FramesAgreeWithLog, NEW t \in Threads, NEW i \in Ids,
           NEW op \in DOMAIN CategoryOf, Committing(t, op, i)
    PROVE  /\ thr[t].seq \in 1 .. Len(log)
           /\ log[thr[t].seq] = [cat |-> CategoryOf[op], id |-> i]
           /\ Recorded(i, CategoryOf[op])
  <1>1. thr[t].seq \in Nat /\ thr[t].seq <= Len(log) /\ Len(log) \in Nat
    BY FrameFields DEF TypeOK
  <1>2. FrameAgreesWithLog(thr[t])
    BY DEF FramesAgreeWithLog
  <1>3. /\ thr[t].seq # 0
        /\ log[thr[t].seq] = [cat |-> CategoryOf[op], id |-> i]
    BY <1>2 DEF FrameAgreesWithLog, Committing, None
  <1> QED
    BY <1>1, <1>3 DEF Recorded

(* Rows: the token of an approved row, the events behind every decision,   *)
(* the grants, and the numbers.                                            *)
LEMMA RowsInvStep ==
    ASSUME IndInv, [Next]_vars
    PROVE  /\ ApprovedCarriesToken' /\ DecisionsAudited'
           /\ AtMostOneGrant' /\ SequenceNamesOwnEvent'
  <1> USE DEF IndInv
  <1>0. LogGrows
    BY LogStep
  <1>1. ASSUME NEW i \in Ids PROVE Moves(i) /\ Numbered(i)
    BY RowStep
  <1>2. ASSUME NEW i \in Ids, rows'[i].state = "approved"
        PROVE  /\ rows'[i].token_hash # None
               /\ log'[rows'[i].token_hash] = [cat |-> "Approved", id |-> i]
    <2>1. CASE Stays(i)
      BY <1>0, <1>2, <2>1, RowFields
         DEF Stays, ApprovedCarriesToken, LogGrows, None
    <2>2. CASE Approves(i)
      <3>1. PICK t \in Threads : /\ Committing(t, "approve", i)
                                 /\ rows'[i].token_hash = thr[t].seq
        BY <2>2 DEF Approves
      <3>2. /\ thr[t].seq \in 1 .. Len(log)
            /\ log[thr[t].seq] = [cat |-> "Approved", id |-> i]
        BY <3>1, CommittingRecorded DEF CategoryOf
      <3> QED
        BY <1>0, <3>1, <3>2 DEF LogGrows, None
    <2> QED
      BY <1>1, <1>2, <2>1, <2>2
         DEF Moves, Opens, Rejects, Expires, Grants
  <1>3. ASSUME NEW i \in Ids, rows'[i].state = "denied"
        PROVE  Recorded(i, "Denied")'
    <2>1. CASE Stays(i)
      BY <1>0, <1>3, <2>1, RecordedStays DEF Stays, DecisionsAudited
    <2>2. CASE Rejects(i)
      BY <1>0, <1>3, <2>2, CommittingRecorded, RecordedStays
         DEF Rejects, CategoryOf
    <2> QED
      BY <1>1, <1>3, <2>1, <2>2 DEF Moves, Opens, Approves, Expires, Grants
  <1>4. ASSUME NEW i \in Ids, rows'[i].state = "cancelled"
        PROVE  Recorded(i, "Cancelled")'
    <2>1. CASE Stays(i)
      BY <1>0, <1>4, <2>1, RecordedStays DEF Stays, DecisionsAudited
    <2>2. CASE Rejects(i)
      BY <1>0, <1>4, <2>2, CommittingRecorded, RecordedStays
         DEF Rejects, CategoryOf
    <2> QED
      BY <1>1, <1>4, <2>1, <2>2 DEF Moves, Opens, Approves, Expires, Grants
  <1>5. ASSUME NEW i \in Ids, rows'[i].state = "approved"
        PROVE  Recorded(i, "Approved")'
    <2>1. CASE Stays(i)
      BY <1>0, <1>5, <2>1, RecordedStays DEF Stays, DecisionsAudited
    <2>2. CASE Approves(i)
      BY <1>0, <2>2, CommittingRecorded, RecordedStays
         DEF Approves, CategoryOf
    <2> QED
      BY <1>1, <1>5, <2>1, <2>2 DEF Moves, Opens, Rejects, Expires, Grants
  <1>6. ASSUME NEW i \in Ids, rows'[i].state = "consumed"
        PROVE  \E m, n \in 1 .. Len(log') :
                  /\ m < n
                  /\ log'[m] = [cat |-> "Approved", id |-> i]
                  /\ log'[n] = [cat |-> "Consumed", id |-> i]
    <2>1. PICK m, n \in 1 .. Len(log) :
                  /\ m < n
                  /\ log[m] = [cat |-> "Approved", id |-> i]
                  /\ log[n] = [cat |-> "Consumed", id |-> i]
      <3>1. CASE Stays(i)
        BY <1>6, <3>1 DEF Stays, DecisionsAudited
      <3>2. CASE Grants(i)
        <4>1. PICK t \in Threads : Committing(t, "consume", i)
          BY <3>2 DEF Grants
        <4>2. /\ thr[t].seq \in 1 .. Len(log)
              /\ log[thr[t].seq] = [cat |-> "Consumed", id |-> i]
          BY <4>1, CommittingRecorded DEF CategoryOf
        <4>3. /\ rows[i].token_hash # 0
              /\ log[rows[i].token_hash] = [cat |-> "Approved", id |-> i]
          BY <3>2 DEF Grants, ApprovedCarriesToken, None
        <4>4. rows[i].token_hash < thr[t].seq
          BY <3>2, <4>1
             DEF Grants, CheckedTokenStaysValid, Committing, Verifies
        <4>5. rows[i].token_hash \in 1 .. Len(log)
          BY <4>3, RowFields
        <4> QED
          BY <4>2, <4>3, <4>4, <4>5
      <3> QED
        BY <1>1, <1>6, <3>1, <3>2 DEF Moves, Opens, Approves, Rejects, Expires
    <2>2. m \in 1 .. Len(log') /\ n \in 1 .. Len(log')
      BY <1>0, <2>1 DEF LogGrows
    <2>3. log'[m] = log[m] /\ log'[n] = log[n]
      BY <1>0, <2>1 DEF LogGrows
    <2> QED
      BY <2>1, <2>2, <2>3
  <1>7. ASSUME NEW i \in Ids
        PROVE  grants'[i] = IF rows'[i].state = "consumed" THEN 1 ELSE 0
    BY <1>1, <1>7 DEF Moves, Stays, Opens, Approves, Rejects, Expires, Grants,
                      AtMostOneGrant, IsActive
  <1>8. ASSUME NEW i \in Ids, rows'[i].audit_sequence # None
        PROVE  /\ rows'[i].audit_sequence <= Len(log')
               /\ \/ log'[rows'[i].audit_sequence].id = i
                  \/ log'[rows'[i].audit_sequence].cat = "Expired"
    <2> DEFINE n == rows'[i].audit_sequence
    <2>1. n \in 1 .. Len(log) /\ (log[n].id = i \/ log[n].cat = "Expired")
      <3>1. CASE n = rows[i].audit_sequence
        BY <1>8, <3>1, RowFields DEF SequenceNamesOwnEvent, None
      <3>2. ASSUME NEW t \in Threads, n = thr[t].seq,
                   \/ thr[t].pc \in {"link", "commit"} /\ thr[t].id = i
                   \/ thr[t].pc = "expire_overdue"
            PROVE  n \in 1 .. Len(log) /\ (log[n].id = i \/ log[n].cat = "Expired")
        <4>1. thr[t].seq \in Nat /\ thr[t].seq <= Len(log) /\ Len(log) \in Nat
          BY FrameFields DEF TypeOK
        <4>2. FrameAgreesWithLog(thr[t])
          BY DEF FramesAgreeWithLog
        <4> QED
          BY <3>2, <4>1, <4>2 DEF FrameAgreesWithLog, None
      <3> QED
        BY <1>1, <1>8, <3>1, <3>2 DEF Numbered
    <2> QED
      BY <1>0, <2>1 DEF LogGrows
  <1>9. ApprovedCarriesToken' /\ DecisionsAudited'
    BY <1>2, <1>3, <1>4, <1>5, <1>6 DEF ApprovedCarriesToken, DecisionsAudited
  <1>10. AtMostOneGrant' /\ SequenceNamesOwnEvent'
    BY <1>7, <1>8 DEF AtMostOneGrant, SequenceNamesOwnEvent
  <1> QED
    BY <1>9, <1>10

(* What a step may do to the frame of one thread.                          *)
Kept(u) == thr'[u] = thr[u]
Idled(u) == thr'[u].pc = "idle"
Began(u) == /\ thr[u].pc = "idle"
            /\ \/ thr'[u].pc = "count_active"
               \/ /\ thr'[u].pc = "lock"
                  /\ \/ thr'[u].op = "sweep"
                     \/ thr'[u].op \in DOMAIN CategoryOf /\ thr'[u].id \in Ids
Went(u) == /\ <<thr[u].pc, thr'[u].pc>> \in
                {<<"count_active", "count_pending">>,
                 <<"count_pending", "insert">>,
                 <<"ensure", "audit_expired">>,
                 <<"has_overdue", "audit_expired">>}
Inserted(u) == /\ thr[u].pc = "insert"
               /\ thr'[u].pc = "audit_requested" /\ thr'[u].id \in Ids
Locks(u) == /\ thr[u].pc = "lock"
            /\ lock[ProcessOf[u]] = NoThread
            /\ thr'[u].op = thr[u].op /\ thr'[u].id = thr[u].id
            /\ thr'[u].pc = IF thr[u].op = "sweep" THEN "has_overdue"
                                                   ELSE "ensure"
Checked(u) == /\ thr[u].pc = "ensure" /\ thr'[u].pc = "audit"
              /\ thr'[u].op = thr[u].op /\ thr'[u].id = thr[u].id
              /\ thr'[u].token = thr[u].token
              /\ UNCHANGED <<rows, log>>
              /\ thr[u].op = "consume" =>
                    /\ rows[thr[u].id].state = "approved"
                    /\ Verifies(rows[thr[u].id], thr[u].token)
Appended(u, from, to, cat) ==
    /\ thr[u].pc = from /\ thr'[u].pc = to
    /\ UNCHANGED rows
    /\ thr'[u].op = thr[u].op /\ thr'[u].id = thr[u].id
    /\ thr'[u].token = thr[u].token
    /\ thr'[u].seq = Len(log) + 1
    /\ Len(log') = Len(log) + 1
    /\ log'[thr'[u].seq] = [cat |-> cat, id |-> thr[u].id]
FrameMoves(u) ==
    \/ Kept(u) \/ Idled(u) \/ Began(u) \/ Went(u) \/ Inserted(u)
    \/ Locks(u) \/ Checked(u)
    \/ Appended(u, "audit_requested", "link", "Requested")
    \/ Appended(u, "audit", "commit", CategoryOf[thr[u].op])
    \/ Appended(u, "audit_expired", "expire_overdue", "Expired")

(* Every step moves every thread along the steps of its operation or       *)
(* leaves it alone.                                                        *)
LEMMA FrameStep ==
    ASSUME TypeOK, FramesAgreeWithLog, [Next]_vars, NEW u \in Threads
    PROVE  FrameMoves(u)
  <1> USE DEF FrameMoves
  <1>1. ASSUME NEW t \in Threads, Return(t) PROVE Kept(u) \/ Idled(u)
    BY <1>1, ReturnFacts DEF Kept, Idled
  <1>2. ASSUME NEW t \in Threads, NEW d \in Digests, RequestApproval(t, d)
        PROVE FrameMoves(u)
    BY <1>2 DEF RequestApproval, Start, TypeOK, Kept, Began
  <1>3. ASSUME NEW t \in Threads, CountActiveForDigest(t) PROVE FrameMoves(u)
    <2>1. CASE Goto(t, "count_pending")
      BY <1>3, <2>1, GotoFacts DEF CountActiveForDigest, Steps, Kept, Went
    <2> QED
      BY <1>1, <1>3, <2>1 DEF CountActiveForDigest
  <1>4. ASSUME NEW t \in Threads, CountPending(t) PROVE FrameMoves(u)
    <2>1. CASE Goto(t, "insert")
      BY <1>4, <2>1, GotoFacts DEF CountPending, Steps, Kept, Went
    <2> QED
      BY <1>1, <1>4, <2>1 DEF CountPending
  <1>5. ASSUME NEW t \in Threads, InsertPending(t) PROVE FrameMoves(u)
    BY <1>5 DEF InsertPending, TypeOK, Frame, Kept, Inserted
  <1>6. ASSUME NEW t \in Threads, AppendRequested(t) PROVE FrameMoves(u)
    BY <1>6, AppendAuditFacts, ZenonT(40)
       DEF AppendRequested, Categories, Steps, Kept, Appended
  <1>7. ASSUME NEW t \in Threads, Decision(t) \/ Consume(t) \/ Sweep(t)
        PROVE FrameMoves(u)
    BY <1>7 DEF Decision, Consume, Sweep, CallTransition, Start, TypeOK, Kept,
                Began, CategoryOf
  <1>8. ASSUME NEW t \in Threads, AcquireTransitionLock(t) PROVE FrameMoves(u)
    <2>1. CASE Goto(t, "ensure") /\ thr[t].op # "sweep"
      BY <1>8, <2>1, GotoFacts DEF AcquireTransitionLock, Steps, Kept, Locks
    <2>2. CASE Goto(t, "has_overdue") /\ thr[t].op = "sweep"
      BY <1>8, <2>2, GotoFacts DEF AcquireTransitionLock, Steps, Kept, Locks
    <2> QED
      BY <1>8, <2>1, <2>2 DEF AcquireTransitionLock
  <1>9. ASSUME NEW t \in Threads, EnsureTransitionable(t) PROVE FrameMoves(u)
    <2>1. CASE FoundOverdue(t)
      BY <1>9, <2>1, FoundOverdueFacts DEF EnsureTransitionable, Kept, Went
    <2>2. CASE /\ rows[thr[t].id].state = Expected(thr[t].op)
               /\ thr[t].op = "consume" =>
                     Verifies(rows[thr[t].id], thr[t].token)
               /\ Goto(t, "audit")
      BY <1>9, <2>2, GotoFacts
         DEF EnsureTransitionable, Steps, Expected, Kept, Checked
    <2> QED
      BY <1>1, <1>9, <2>1, <2>2 DEF EnsureTransitionable
  <1>10. ASSUME NEW t \in Threads, AppendTransition(t) PROVE FrameMoves(u)
    <2>1. thr[t].op \in {"approve", "deny", "cancel", "consume"}
      BY <1>10 DEF AppendTransition, FramesAgreeWithLog, FrameAgreesWithLog,
                   CategoryOf
    <2>2. CategoryOf[thr[t].op] \in Categories
      BY <2>1 DEF CategoryOf, Categories
    <2>3. thr[t].pc = "audit" /\ AppendAudit(t, CategoryOf[thr[t].op], "commit") /\ rows' = rows
      BY <1>10 DEF AppendTransition
    <2>4. "commit" \in Steps
      BY DEF Steps
    <2>5. /\ Len(log') = Len(log) + 1
          /\ log'[Len(log) + 1] = [cat |-> CategoryOf[thr[t].op], id |-> thr[t].id]
          /\ \A v \in Threads \ {t} : thr'[v] = thr[v]
          /\ thr'[t].pc = "commit" /\ thr'[t].op = thr[t].op /\ thr'[t].id = thr[t].id
          /\ thr'[t].token = thr[t].token /\ thr'[t].seq = Len(log) + 1
      BY <2>2, <2>3, <2>4, AppendAuditFacts, Zenon
    <2>6. CASE u = t
      <3>1. Appended(t, "audit", "commit", CategoryOf[thr[t].op])
        BY <2>3, <2>5, Zenon DEF Appended
      <3> QED BY <2>6, <3>1, Zenon DEF FrameMoves
    <2>7. CASE u # t
      BY <2>5, <2>7, Zenon DEF FrameMoves, Kept
    <2> QED BY <2>6, <2>7
  <1>11. ASSUME NEW t \in Threads, HasOverdue(t) PROVE FrameMoves(u)
    <2>1. CASE FoundOverdue(t)
      BY <1>11, <2>1, FoundOverdueFacts DEF HasOverdue, Kept, Went
    <2> QED
      BY <1>1, <1>11, <2>1 DEF HasOverdue
  <1>12. ASSUME NEW t \in Threads, AppendExpired(t) PROVE FrameMoves(u)
    BY <1>12, AppendAuditFacts
       DEF AppendExpired, Categories, Steps, Kept, Appended
  <1>13. ASSUME NEW p \in Processes, Crash(p) PROVE FrameMoves(u)
    BY <1>13, IdleFrameFacts DEF Crash, Kept, Idled
  <1>14. CASE Tick \/ UNCHANGED vars
    BY <1>14 DEF Tick, vars, Kept
  <1>15. ASSUME NEW t \in Threads,
                \/ UpdateAuditSequence(t) \/ TransitionToApproved(t)
                \/ TransitionToDenied(t) \/ TransitionToCancelled(t)
                \/ StoreConsume(t) \/ ExpireOverdue(t)
                \/ AuditFails(t) \/ StoreFails(t)
         PROVE FrameMoves(u)
    BY <1>1, <1>15
       DEF UpdateAuditSequence, TransitionToApproved, TransitionToDenied,
           TransitionToCancelled, StoreConsume, ExpireOverdue, AuditFails,
           StoreFails
  <1> QED
    BY <1>2, <1>3, <1>4, <1>5, <1>6, <1>7, <1>8, <1>9, <1>10, <1>11, <1>12,
       <1>13, <1>14, <1>15
       DEF Next, Begin, Step

(* Frames keep agreeing with the chain.                                    *)
LEMMA FramesInvStep ==
    ASSUME IndInv, [Next]_vars
    PROVE  FramesAgreeWithLog'
  <1> USE DEF IndInv
  <1>0. LogGrows
    BY LogStep
  <1> SUFFICES ASSUME NEW u \in Threads PROVE FrameAgreesWithLog(thr[u])'
    BY DEF FramesAgreeWithLog
  <1>1. FrameMoves(u)
    BY FrameStep
  <1>2. FrameAgreesWithLog(thr[u])
    BY DEF FramesAgreeWithLog
  <1>3. thr[u].seq \in Nat /\ thr[u].seq <= Len(log)
    BY FrameFields DEF TypeOK
  <1>4. CASE Kept(u)
    BY <1>0, <1>2, <1>3, <1>4 DEF Kept, FrameAgreesWithLog, LogGrows, None
  <1>5. CASE \/ Idled(u) \/ Began(u) \/ Went(u) \/ Inserted(u)
             \/ Locks(u) \/ Checked(u)
    BY <1>2, <1>5
       DEF Idled, Began, Went, Inserted, Locks, Checked, FrameAgreesWithLog
  <1>6. CASE Appended(u, "audit_requested", "link", "Requested")
    BY <1>0, <1>2, <1>6 DEF Appended, FrameAgreesWithLog, LogGrows, None
  <1>7. CASE Appended(u, "audit", "commit", CategoryOf[thr[u].op])
    BY <1>0, <1>2, <1>7 DEF Appended, FrameAgreesWithLog, LogGrows, None
  <1>8. CASE Appended(u, "audit_expired", "expire_overdue", "Expired")
    BY <1>0, <1>2, <1>8 DEF Appended, FrameAgreesWithLog, LogGrows, None
  <1> QED
    BY <1>1, <1>4, <1>5, <1>6, <1>7, <1>8 DEF FrameMoves

(* A checked token stays valid: no step of any thread or process changes   *)
(* the token of an approved row, and an approval never becomes pending or  *)
(* approved a second time.                                                 *)
LEMMA CheckedInvStep ==
    ASSUME IndInv, [Next]_vars
    PROVE  CheckedTokenStaysValid'
  <1> USE DEF IndInv
  <1>0. LogGrows
    BY LogStep
  <1> SUFFICES ASSUME NEW u \in Threads,
                      thr'[u].pc \in {"audit", "commit"},
                      thr'[u].op = "consume"
               PROVE  /\ rows'[thr'[u].id].state \notin {"absent", "pending"}
                      /\ rows'[thr'[u].id].state = "approved" =>
                            Verifies(rows'[thr'[u].id], thr'[u].token)
                      /\ thr'[u].token <= Len(log')
                      /\ thr'[u].pc = "commit" => thr'[u].token < thr'[u].seq
    BY DEF CheckedTokenStaysValid, Verifies
  <1>1. FrameMoves(u)
    BY FrameStep
  <1>2. FrameAgreesWithLog(thr[u])
    BY DEF FramesAgreeWithLog
  <1>3. thr[u].seq \in Nat /\ thr[u].token \in Nat /\ Len(log) \in Nat
    BY FrameFields DEF TypeOK
  <1>4. CASE Kept(u)
    <2> DEFINE i == thr[u].id
    <2>1. i \in Ids
      BY <1>2, <1>4 DEF Kept, FrameAgreesWithLog
    <2>2. Moves(i)
      BY <2>1, RowStep
    <2>3. /\ rows[i].state \notin {"absent", "pending"}
          /\ rows[i].state = "approved" => Verifies(rows[i], thr[u].token)
          /\ thr[u].token <= Len(log)
          /\ thr[u].pc = "commit" => thr[u].token < thr[u].seq
      BY <1>4 DEF Kept, CheckedTokenStaysValid
    <2>4. thr[u].token <= Len(log')
      BY <1>0, <1>3, <2>3 DEF LogGrows
    <2>5. /\ rows'[i].state \notin {"absent", "pending"}
          /\ rows'[i].state = "approved" => Verifies(rows'[i], thr[u].token)
      BY <2>2, <2>3 DEF Moves, Stays, Opens, Approves, Rejects, Expires,
                        Grants, Verifies
    <2> QED
      BY <1>4, <2>3, <2>4, <2>5 DEF Kept
  <1>5. CASE Checked(u)
    <2>1. thr[u].id \in Ids
      BY <1>2, <1>5 DEF Checked, FrameAgreesWithLog
    <2>2. rows[thr[u].id].token_hash <= Len(log)
      BY <2>1 DEF TypeOK
    <2> QED
      BY <1>5, <2>1, <2>2 DEF Checked, Verifies
  <1>6. CASE Appended(u, "audit", "commit", CategoryOf[thr[u].op])
    BY <1>3, <1>6 DEF Appended, CheckedTokenStaysValid, Verifies
  <1>7. CASE \/ Idled(u) \/ Began(u) \/ Went(u) \/ Inserted(u) \/ Locks(u)
             \/ Appended(u, "audit_requested", "link", "Requested")
             \/ Appended(u, "audit_expired", "expire_overdue", "Expired")
    BY <1>7 DEF Idled, Began, Went, Inserted, Locks, Appended
  <1> QED
    BY <1>1, <1>4, <1>5, <1>6, <1>7 DEF FrameMoves

(* The lock is held exactly by the thread between acquisition and return.  *)
LEMMA LockInvStep ==
    ASSUME IndInv, [Next]_vars
    PROVE  LockDiscipline'
  <1> USE DEF IndInv
  <1>1. ASSUME NEW t \in Threads, Return(t) PROVE LockDiscipline'
    <2>1. \A u \in Threads : ProcessOf[u] \in Processes /\ u # NoThread
      BY BrokerAssumption
    <2>2. /\ \A u \in Threads \ {t} : thr'[u] = thr[u]
          /\ thr'[t].pc = "idle"
      BY <1>1, ReturnFacts
    <2>3. CASE thr[t].pc \in Locked
      <3>1. lock' = [lock EXCEPT ![ProcessOf[t]] = NoThread]
        BY <1>1, <2>3 DEF Return
      <3>2. lock[ProcessOf[t]] = t
        BY <2>3 DEF LockDiscipline
      <3>3. ASSUME NEW u \in Threads
            PROVE  lock'[ProcessOf[u]] = u <=> thr'[u].pc \in Locked
        <4>1. lock[ProcessOf[u]] = u <=> thr[u].pc \in Locked
          BY DEF LockDiscipline
        <4>2. CASE u = t
          BY <2>1, <2>2, <3>1, <4>2 DEF Locked, TypeOK
        <4>3. CASE u # t /\ ProcessOf[u] = ProcessOf[t]
          BY <2>1, <2>2, <3>1, <3>2, <4>1, <4>3 DEF TypeOK
        <4>4. CASE u # t /\ ProcessOf[u] # ProcessOf[t]
          BY <2>1, <2>2, <3>1, <4>1, <4>4 DEF TypeOK
        <4> QED
          BY <4>2, <4>3, <4>4
      <3> QED
        BY <3>3 DEF LockDiscipline
    <2>4. CASE thr[t].pc \notin Locked
      BY <1>1, <2>2, <2>4 DEF Return, LockDiscipline, Locked
    <2> QED
      BY <2>3, <2>4
  <1>2. ASSUME UNCHANGED lock,
               \A u \in Threads : thr'[u].pc \in Locked <=> thr[u].pc \in Locked
        PROVE LockDiscipline'
    BY <1>2 DEF LockDiscipline
  <1>3. ASSUME NEW t \in Threads, AcquireTransitionLock(t)
        PROVE LockDiscipline'
    <2>1. \A u \in Threads : ProcessOf[u] \in Processes /\ u # NoThread
      BY BrokerAssumption
    <2>2. PICK s \in Locked : Goto(t, s)
      BY <1>3 DEF AcquireTransitionLock, Locked
    <2>3. s \in Steps
      BY <2>2 DEF Locked, Steps
    <2>4. thr'[t].pc \in Locked /\ \A u \in Threads \ {t} : thr'[u] = thr[u]
      BY <2>2, <2>3, GotoFacts
    <2>5. /\ lock[ProcessOf[t]] = NoThread
          /\ lock' = [lock EXCEPT ![ProcessOf[t]] = t]
      BY <1>3 DEF AcquireTransitionLock
    <2> QED
      BY <2>1, <2>4, <2>5 DEF LockDiscipline, TypeOK
  <1>4. ASSUME NEW p \in Processes, Crash(p) PROVE LockDiscipline'
    <2>1. \A u \in Threads : ProcessOf[u] \in Processes /\ u # NoThread
      BY BrokerAssumption
    <2> QED
      BY <1>4, <2>1, IdleFrameFacts DEF Crash, LockDiscipline, Locked, TypeOK
  <1>5. CASE UNCHANGED lock
    <2>1. CASE UNCHANGED thr
      BY <1>2, <1>5, <2>1
    <2>2. ASSUME NEW t \in Threads, NEW d \in Digests, RequestApproval(t, d)
          PROVE LockDiscipline'
      BY <1>2, <1>5, <2>2 DEF RequestApproval, Start, Locked, TypeOK
    <2>3. ASSUME NEW t \in Threads, Decision(t) \/ Consume(t) \/ Sweep(t)
          PROVE LockDiscipline'
      <3>1. /\ thr[t].pc = "idle" /\ thr'[t].pc = "lock"
            /\ \A u \in Threads \ {t} : thr'[u] = thr[u]
        BY <2>3 DEF Decision, Consume, Sweep, CallTransition, Start, TypeOK
      <3> QED
        BY <1>2, <1>5, <3>1 DEF Locked
    <2>4. ASSUME NEW t \in Threads, NEW s \in Steps, Goto(t, s),
                 s \in Locked <=> thr[t].pc \in Locked
          PROVE LockDiscipline'
      BY <1>2, <1>5, <2>4, GotoFacts
    <2>5. ASSUME NEW t \in Threads, FoundOverdue(t), thr[t].pc \in Locked
          PROVE LockDiscipline'
      BY <1>2, <1>5, <2>5, FoundOverdueFacts DEF Locked
    <2>6. ASSUME NEW t \in Threads, InsertPending(t) PROVE LockDiscipline'
      <3>1. /\ thr[t].pc = "insert" /\ thr'[t].pc = "audit_requested"
            /\ \A u \in Threads \ {t} : thr'[u] = thr[u]
        BY <2>6 DEF InsertPending, TypeOK, Frame
      <3> QED
        BY <1>2, <1>5, <3>1 DEF Locked
    <2>7. ASSUME NEW t \in Threads, AppendRequested(t) PROVE LockDiscipline'
      BY <1>2, <1>5, <2>7, AppendAuditFacts, ZenonT(40)
         DEF AppendRequested, Categories, Steps, Locked
    <2>8. ASSUME NEW t \in Threads, AppendTransition(t) PROVE LockDiscipline'
      <3>1. thr[t].op \in {"approve", "deny", "cancel", "consume"}
        BY <2>8 DEF AppendTransition, FramesAgreeWithLog, FrameAgreesWithLog,
                    CategoryOf
      <3>2. CategoryOf[thr[t].op] \in Categories
        BY <3>1 DEF CategoryOf, Categories
      <3> QED
        BY <1>2, <1>5, <2>8, <3>2, AppendAuditFacts
           DEF AppendTransition, Steps, Locked
    <2>9. ASSUME NEW t \in Threads, AppendExpired(t) PROVE LockDiscipline'
      BY <1>2, <1>5, <2>9, AppendAuditFacts
         DEF AppendExpired, Categories, Steps, Locked
    <2>10. ASSUME NEW t \in Threads,
                  \/ CountActiveForDigest(t) \/ CountPending(t)
                  \/ EnsureTransitionable(t) \/ HasOverdue(t)
           PROVE LockDiscipline'
      BY <1>1, <2>4, <2>5, <2>10
         DEF CountActiveForDigest, CountPending, EnsureTransitionable,
             HasOverdue, Locked, Steps
    <2> QED
      BY <1>1, <1>3, <1>4, <2>1, <2>2, <2>3, <2>6, <2>7, <2>8, <2>9, <2>10
         DEF Next, vars, Begin, Step, Tick, AuditFails, StoreFails,
             UpdateAuditSequence, TransitionToApproved, TransitionToDenied,
             TransitionToCancelled, StoreConsume, ExpireOverdue
  <1> QED
    BY <1>1, <1>3, <1>4, <1>5
       DEF Next, vars, Begin, Step, Tick, AuditFails, StoreFails,
           RequestApproval, CountActiveForDigest, CountPending, InsertPending,
           AppendRequested, UpdateAuditSequence, Decision, Consume, Sweep,
           CallTransition, EnsureTransitionable, AppendTransition,
           TransitionToApproved, TransitionToDenied, TransitionToCancelled,
           StoreConsume, HasOverdue, AppendExpired, ExpireOverdue

----------------------------------------------------------------------------
(* Theorems                                                                *)

(* Every reachable state of every instance of the broker satisfies the     *)
(* inductive invariant.                                                    *)
THEOREM Invariance == Spec => []IndInv
  <1>1. Init => IndInv
    BY InvInit
  <1>2. IndInv /\ [Next]_vars => IndInv'
    BY TypeStep, RowsInvStep, FramesInvStep, CheckedInvStep, LockInvStep
       DEF IndInv
  <1> QED
    BY <1>1, <1>2, PTL DEF Spec

(* Type correctness: rows and frames stay well formed, and no number that  *)
(* a thread or a row carries runs ahead of the audit chain.                *)
THEOREM TypeCorrect == Spec => []TypeOK
  <1>1. IndInv => TypeOK
    BY DEF IndInv
  <1> QED
    BY <1>1, Invariance, PTL

(* Fail closed, for any number of threads and processes and any faults: a  *)
(* decided approval has its event in the audit chain, and a consumed one   *)
(* has its Approved event before its Consumed event.                       *)
THEOREM FailClosed == Spec => []DecisionsAudited
  <1>1. IndInv => DecisionsAudited
    BY DEF IndInv
  <1> QED
    BY <1>1, Invariance, PTL

(* One-shot approvals: no interleaving of consumers, in any number of      *)
(* processes, exchanges an approval twice.                                 *)
THEOREM OneShot == Spec => []AtMostOneGrant
  <1>1. IndInv => AtMostOneGrant
    BY DEF IndInv
  <1> QED
    BY <1>1, Invariance, PTL

(* The number in a row names an event of that approval or an expiry event. *)
THEOREM OwnEvent == Spec => []SequenceNamesOwnEvent
  <1>1. IndInv => SequenceNamesOwnEvent
    BY DEF IndInv
  <1> QED
    BY <1>1, Invariance, PTL

(* A grant is earned: the token that was checked when the row was loaded   *)
(* is still the row's token, and the approval has not expired, at the      *)
(* transaction that consumes it.                                           *)
THEOREM EarnedGrant == Spec => GrantIsEarned
  <1> DEFINE Earned == \A i \in Ids : grants'[i] # grants[i] =>
                /\ now < rows[i].expires_at
                /\ \E t \in Threads : /\ thr[t].pc = "commit"
                                      /\ thr[t].op = "consume"
                                      /\ thr[t].id = i
                                      /\ thr[t].token # None
                                      /\ thr[t].token = rows[i].token_hash
  <1>1. ASSUME IndInv, [Next]_vars, NEW i \in Ids, grants'[i] # grants[i]
        PROVE  /\ now < rows[i].expires_at
               /\ \E t \in Threads : /\ thr[t].pc = "commit"
                                     /\ thr[t].op = "consume"
                                     /\ thr[t].id = i
                                     /\ thr[t].token # None
                                     /\ thr[t].token = rows[i].token_hash
    <2>1. Grants(i)
      BY <1>1, RowStep
         DEF IndInv, Moves, Stays, Opens, Approves, Rejects, Expires
    <2>2. PICK t \in Threads : Committing(t, "consume", i)
      BY <2>1 DEF Grants
    <2>3. Verifies(rows[i], thr[t].token)
      BY <1>1, <2>1, <2>2
         DEF IndInv, CheckedTokenStaysValid, Committing, Grants
    <2> QED
      BY <2>1, <2>2, <2>3 DEF Grants, Committing, Verifies
  <1>2. IndInv /\ [Next]_vars => [Earned]_vars
    BY <1>1
  <1> QED
    BY <1>2, Invariance, PTL DEF Spec, GrantIsEarned

(* The broker implements the approval life cycle.                          *)
THEOREM LifecycleRefinement == Spec => ImplementsLifecycle
  <1> DEFINE L == [i \in Ids |-> rows[i].state]
  <1>1. Init => Life!LifeInit
    BY DEF Init, Life!LifeInit
  <1>2. ASSUME IndInv, [Next]_vars PROVE [Life!LifeNext]_(Life!lifeVars)
    <2> USE <1>2 DEF IndInv
    <2>1. CASE UNCHANGED <<rows, grants>>
      BY <2>1 DEF Life!lifeVars
    <2>2. ASSUME NEW i \in Ids, NEW s \in States,
                 L' = [L EXCEPT ![i] = s], UNCHANGED grants,
                 \/ rows[i].state = "absent" /\ s = "pending"
                 \/ /\ rows[i].state = "pending"
                    /\ s \in {"approved", "denied", "cancelled"}
          PROVE Life!LifeNext
      BY <2>2 DEF Life!LifeNext, Life!Open, Life!Decide
    <2>3. ASSUME NEW S \in SUBSET Ids, \A i \in S : IsActive(i),
                 L' = [i \in Ids |-> IF i \in S THEN "expired" ELSE L[i]],
                 UNCHANGED grants
          PROVE Life!LifeNext
      BY <2>3 DEF Life!LifeNext, Life!Lapse, Life!Active, IsActive
    <2>4. ASSUME NEW t \in Threads, InsertPending(t) PROVE Life!LifeNext
      <3>1. PICK i \in Ids :
              /\ rows[i].state = "absent"
              /\ \A j \in Ids : rows'[j].state =
                    IF j = i THEN "pending" ELSE rows[j].state
        BY <2>4 DEF InsertPending, TypeOK
      <3>2. L' = [L EXCEPT ![i] = "pending"]
        BY <3>1
      <3> QED
        BY <2>2, <2>4, <3>1, <3>2 DEF InsertPending, States
    <2>5. ASSUME NEW t \in Threads, UpdateAuditSequence(t)
          PROVE UNCHANGED Life!lifeVars
      <3>1. \A j \in Ids : rows'[j].state = rows[j].state
        BY <2>5 DEF UpdateAuditSequence, TypeOK, Row
      <3> QED
        BY <2>5, <3>1 DEF UpdateAuditSequence, Life!lifeVars
    <2>6. ASSUME NEW t \in Threads, TransitionToApproved(t)
          PROVE Life!LifeNext \/ UNCHANGED Life!lifeVars
      <3> DEFINE i == thr[t].id
      <3>0. i \in Ids /\ UNCHANGED grants
        BY <2>6
           DEF TransitionToApproved, FramesAgreeWithLog, FrameAgreesWithLog
      <3>1. CASE UNCHANGED rows
        BY <3>0, <3>1 DEF Life!lifeVars
      <3>2. CASE /\ rows[i].state = "pending"
                 /\ rows' = [rows EXCEPT ![i].state = "expired"]
        <4>1. \A j \in Ids : rows'[j].state =
                 IF j \in {i} THEN "expired" ELSE rows[j].state
          BY <3>0, <3>2 DEF TypeOK, Row
        <4>2. L' = [j \in Ids |-> IF j \in {i} THEN "expired" ELSE L[j]]
          BY <4>1
        <4> QED
          BY <2>3, <3>0, <3>2, <4>2 DEF IsActive
      <3>3. CASE /\ rows[i].state = "pending"
                 /\ rows' = [rows EXCEPT ![i] =
                               [@ EXCEPT !.state = "approved",
                                         !.token_hash = thr[t].seq,
                                         !.audit_sequence = thr[t].seq]]
        <4>1. \A j \in Ids : rows'[j].state =
                 IF j = i THEN "approved" ELSE rows[j].state
          BY <3>0, <3>3 DEF TypeOK, Row
        <4>2. L' = [L EXCEPT ![i] = "approved"]
          BY <4>1
        <4> QED
          BY <2>2, <3>0, <3>3, <4>2 DEF States
      <3> QED
        BY <2>6, <3>1, <3>2, <3>3 DEF TransitionToApproved
    <2>7. ASSUME NEW t \in Threads,
                 TransitionToDenied(t) \/ TransitionToCancelled(t)
          PROVE Life!LifeNext \/ UNCHANGED Life!lifeVars
      <3> DEFINE i == thr[t].id
      <3>0. i \in Ids /\ UNCHANGED grants
        BY <2>7
           DEF TransitionToDenied, TransitionToCancelled, FramesAgreeWithLog,
               FrameAgreesWithLog
      <3>1. PICK s \in {"denied", "cancelled"} :
               DecidePending(i, s, thr[t].seq)
        BY <2>7 DEF TransitionToDenied, TransitionToCancelled
      <3>2. CASE UNCHANGED rows
        BY <3>0, <3>2 DEF Life!lifeVars
      <3>3. CASE rows[i].state = "pending"
        <4>1. \A j \in Ids : rows'[j].state =
                 IF j = i THEN s ELSE rows[j].state
          BY <3>0, <3>1, <3>3 DEF DecidePending, TypeOK, Row
        <4>2. L' = [L EXCEPT ![i] = s]
          BY <4>1
        <4> QED
          BY <2>2, <3>0, <3>1, <3>3, <4>2 DEF States
      <3> QED
        BY <3>1, <3>2, <3>3 DEF DecidePending
    <2>8. ASSUME NEW t \in Threads, StoreConsume(t)
          PROVE Life!LifeNext \/ UNCHANGED Life!lifeVars
      <3> DEFINE i == thr[t].id
      <3>0. i \in Ids
        BY <2>8 DEF StoreConsume, FramesAgreeWithLog, FrameAgreesWithLog
      <3>1. CASE /\ rows[i].state = "approved"
                 /\ rows' = [rows EXCEPT ![i].state = "expired"]
                 /\ UNCHANGED grants
        <4>1. \A j \in Ids : rows'[j].state =
                 IF j \in {i} THEN "expired" ELSE rows[j].state
          BY <3>0, <3>1 DEF TypeOK, Row
        <4>2. L' = [j \in Ids |-> IF j \in {i} THEN "expired" ELSE L[j]]
          BY <4>1
        <4> QED
          BY <2>3, <3>0, <3>1, <4>2 DEF IsActive
      <3>2. CASE /\ rows[i].state = "approved"
                 /\ rows' = [rows EXCEPT ![i] =
                               [@ EXCEPT !.state = "consumed",
                                         !.token_hash = None,
                                         !.audit_sequence = thr[t].seq]]
                 /\ grants' = [grants EXCEPT ![i] = @ + 1]
        <4>1. \A j \in Ids : rows'[j].state =
                 IF j = i THEN "consumed" ELSE rows[j].state
          BY <3>0, <3>2 DEF TypeOK, Row
        <4>2. L' = [L EXCEPT ![i] = "consumed"]
          BY <4>1
        <4> QED
          BY <3>0, <3>2, <4>2 DEF Life!LifeNext, Life!Exchange
      <3> QED
        <4>1. CASE UNCHANGED <<rows, grants>>
          BY <4>1 DEF Life!lifeVars
        <4> QED
          BY <2>8, <3>1, <3>2, <4>1 DEF StoreConsume
    <2>9. ASSUME NEW t \in Threads, ExpireOverdue(t) PROVE Life!LifeNext
      <3> DEFINE S == Overdue(thr[t].at)
      <3>1. S \in SUBSET Ids /\ \A i \in S : IsActive(i)
        BY DEF Overdue
      <3>2. \A j \in Ids : rows'[j].state =
               IF j \in S THEN "expired" ELSE rows[j].state
        BY <2>9 DEF ExpireOverdue, TypeOK, Row
      <3>3. L' = [j \in Ids |-> IF j \in S THEN "expired" ELSE L[j]]
        BY <3>2
      <3> QED
        BY <2>3, <2>9, <3>1, <3>3 DEF ExpireOverdue
    <2> QED
      BY <2>1, <2>4, <2>5, <2>6, <2>7, <2>8, <2>9
         DEF Next, vars, Begin, Step, Crash, Tick, AuditFails, StoreFails,
             RequestApproval, CountActiveForDigest, CountPending,
             Decision, Consume, Sweep, CallTransition,
             AcquireTransitionLock, EnsureTransitionable, AppendTransition,
             AppendRequested, AppendExpired, HasOverdue
  <1> QED
    BY <1>1, <1>2, Invariance, PTL DEF Spec, ImplementsLifecycle, Life!LifeSpec

----------------------------------------------------------------------------
(* One process on a store that answers                                     *)

OneProcess == \A t, u \in Threads : ProcessOf[t] = ProcessOf[u]
StoreAnswers == Faults \subseteq {"audit"}

(* What the table may say of an approval the chain has such an event of.   *)
Fits(cat, state) ==
    /\ cat = "Denied" => state = "denied"
    /\ cat = "Cancelled" => state = "cancelled"
    /\ cat = "Approved" => state \in {"approved", "consumed", "expired"}
    /\ cat = "Consumed" => state \in {"consumed", "expired"}

(* What ensure_transitionable saw is still so until the transition.        *)
InHand ==
    \A t \in Threads : thr[t].pc \in {"audit", "commit"} =>
        rows[thr[t].id].state = Expected(thr[t].op)

(* A thread is about to make the transition that event n announces.        *)
UnderWay(n) == \E t \in Threads : thr[t].pc = "commit" /\ thr[t].seq = n

(* Every other event has had its effect.                                   *)
Settled ==
    \A n \in 1 .. Len(log) : log[n].id \in Ids =>
        UnderWay(n) \/ Fits(log[n].cat, rows[log[n].id].state)

UnitInv == InHand /\ Settled

(* The lock makes the thread that is past it the only one.                 *)
LEMMA Alone ==
    ASSUME IndInv, OneProcess, NEW t \in Threads, NEW u \in Threads,
           thr[t].pc \in Locked, thr[u].pc \in Locked
    PROVE  t = u
  BY DEF IndInv, LockDiscipline, OneProcess

(* A step that leaves the states of the rows and the chain alone and takes *)
(* no thread past its check without one.                                   *)
LEMMA QuietUnit ==
    ASSUME IndInv, UnitInv, UNCHANGED log,
           \A i \in Ids : rows'[i].state = rows[i].state,
           \A u \in Threads :
              \/ thr'[u] = thr[u]
              \/ /\ thr[u].pc # "commit"
                 /\ \/ thr'[u].pc \notin {"audit", "commit"}
                    \/ /\ thr'[u].pc = "audit" /\ thr'[u].id = thr[u].id
                       /\ thr'[u].op = thr[u].op /\ thr[u].id \in Ids
                       /\ rows[thr[u].id].state = Expected(thr[u].op)
    PROVE  UnitInv'
  <1>1. InHand'
    <2> SUFFICES ASSUME NEW u \in Threads, thr'[u].pc \in {"audit", "commit"}
                 PROVE  rows'[thr'[u].id].state = Expected(thr'[u].op)
      BY DEF InHand
    <2>1. CASE thr'[u] = thr[u]
      <3>1. thr[u].id \in Ids
        BY <2>1 DEF IndInv, FramesAgreeWithLog, FrameAgreesWithLog
      <3> QED
        BY <2>1, <3>1 DEF UnitInv, InHand
    <2> QED
      BY <2>1
  <1>2. Settled'
    <2>1. \A n : UnderWay(n) => UnderWay(n)'
      BY DEF UnderWay
    <2> QED
      BY <2>1 DEF UnitInv, Settled
  <1> QED
    BY <1>1, <1>2 DEF UnitInv

(* Appending an event keeps the agreement: an announced transition is      *)
(* under way, and the other events say nothing of the state.               *)
LEMMA AppendUnit ==
    ASSUME IndInv, UnitInv, NEW t \in Threads, NEW cat \in Categories,
           NEW next \in Steps, AppendAudit(t, cat, next), UNCHANGED rows,
           \/ thr[t].pc = "audit" /\ next = "commit"
           \/ thr[t].pc # "commit" /\ next \notin {"audit", "commit"}
                 /\ cat \in {"Requested", "Expired"}
    PROVE  UnitInv'
  <1>1. /\ Len(log) \in Nat /\ Len(log') = Len(log) + 1
        /\ \A n \in 1 .. Len(log) : log'[n] = log[n]
        /\ log'[Len(log) + 1] = [cat |-> cat, id |-> thr[t].id]
        /\ \A u \in Threads \ {t} : thr'[u] = thr[u]
        /\ thr'[t].pc = next /\ thr'[t].op = thr[t].op /\ thr'[t].id = thr[t].id
        /\ thr'[t].seq = Len(log) + 1
    BY AppendAuditFacts DEF IndInv
  <1>2. InHand'
    BY <1>1 DEF UnitInv, InHand
  <1>3. \A n : UnderWay(n) => UnderWay(n)'
    BY <1>1 DEF UnderWay
  <1>4. ASSUME NEW n \in 1 .. Len(log'), log'[n].id \in Ids
        PROVE  UnderWay(n)' \/ Fits(log'[n].cat, rows'[log'[n].id].state)
    <2>1. CASE n = Len(log) + 1
      BY <1>1, <2>1 DEF UnderWay, Fits
    <2>2. CASE n # Len(log) + 1
      <3>1. n \in 1 .. Len(log) /\ log'[n] = log[n]
        BY <1>1, <2>2
      <3> QED
        BY <1>3, <1>4, <3>1 DEF UnitInv, Settled
    <2> QED
      BY <2>1, <2>2
  <1> QED
    BY <1>2, <1>4 DEF UnitInv, Settled

(* An identifier without a row has no decision in the chain.               *)
LEMMA InsertUnit ==
    ASSUME IndInv, UnitInv, NEW t \in Threads, InsertPending(t)
    PROVE  UnitInv'
  <1>1. PICK i \in Ids :
           /\ rows[i].state = "absent"
           /\ rows' = [rows EXCEPT ![i] =
                         [state |-> "pending", digest |-> thr[t].digest,
                          expires_at |-> thr[t].at + Ttl,
                          token_hash |-> None, audit_sequence |-> None]]
           /\ thr' = [thr EXCEPT ![t].pc = "audit_requested", ![t].id = i]
    BY DEF InsertPending
  <1>2. /\ thr[t].pc = "insert" /\ UNCHANGED log
        /\ \A u \in Threads \ {t} : thr'[u] = thr[u]
        /\ thr'[t].pc = "audit_requested"
        /\ \A j \in Ids \ {i} : rows'[j] = rows[j]
    BY <1>1 DEF InsertPending, IndInv, TypeOK, Frame
  <1>3. \A u \in Threads : thr[u].pc \in {"audit", "commit"} =>
           thr[u].id \in Ids /\ thr[u].id # i
    BY <1>1 DEF UnitInv, InHand, Expected, IndInv, FramesAgreeWithLog, FrameAgreesWithLog
  <1>4. InHand'
    BY <1>2, <1>3 DEF UnitInv, InHand
  <1>5. \A n : UnderWay(n) => UnderWay(n)'
    BY <1>2 DEF UnderWay
  <1>6. ASSUME NEW n \in 1 .. Len(log), log[n].id \in Ids
        PROVE  UnderWay(n)' \/ Fits(log[n].cat, rows'[log[n].id].state)
    <2>1. UnderWay(n) \/ Fits(log[n].cat, rows[log[n].id].state)
      BY <1>6 DEF UnitInv, Settled
    <2>2. CASE log[n].id = i
      BY <1>1, <1>5, <2>1, <2>2 DEF Fits
    <2>3. CASE log[n].id # i
      BY <1>2, <1>5, <1>6, <2>1, <2>3
    <2> QED
      BY <2>2, <2>3
  <1> QED
    BY <1>2, <1>4, <1>6 DEF UnitInv, Settled

(* The transition makes the announced event come true: nobody else was     *)
(* past the lock since the check.                                          *)
LEMMA CommitUnit ==
    ASSUME IndInv, UnitInv, OneProcess, NEW t \in Threads,
           thr[t].pc = "commit", Return(t), UNCHANGED log,
           \A j \in Ids \ {thr[t].id} : rows'[j].state = rows[j].state,
           Fits(CategoryOf[thr[t].op], rows'[thr[t].id].state),
           thr[t].op = "consume" => rows'[thr[t].id].state \in {"consumed", "expired"}
    PROVE  UnitInv'
  <1> DEFINE i == thr[t].id
             s == thr[t].seq
  <1>1. /\ \A u \in Threads \ {t} : thr'[u] = thr[u]
        /\ thr'[t].pc = "idle"
    BY ReturnFacts DEF IndInv
  <1>2. /\ i \in Ids /\ thr[t].op \in DOMAIN CategoryOf
        /\ log[s] = [cat |-> CategoryOf[thr[t].op], id |-> i]
    BY DEF IndInv, FramesAgreeWithLog, FrameAgreesWithLog
  <1>3. \A u \in Threads \ {t} : thr[u].pc \notin {"audit", "commit"}
    BY Alone DEF Locked
  <1>4. InHand'
    BY <1>1, <1>3 DEF InHand
  <1>5. ASSUME NEW n \in 1 .. Len(log), log[n].id \in Ids
        PROVE  Fits(log[n].cat, rows'[log[n].id].state)
    <2>1. n = s \/ Fits(log[n].cat, rows[log[n].id].state)
      BY <1>3, <1>5 DEF UnitInv, Settled, UnderWay
    <2>2. CASE n = s
      BY <1>2, <2>2
    <2>3. CASE n # s /\ log[n].id # i
      BY <1>5, <2>1, <2>3
    <2>4. CASE n # s /\ log[n].id = i
      <3>1. Fits(log[n].cat, rows[i].state) /\ rows[i].state = Expected(thr[t].op)
        BY <2>1, <2>4 DEF UnitInv, InHand
      <3> QED
        BY <2>4, <3>1 DEF Fits, Expected
    <2> QED
      BY <2>2, <2>3, <2>4
  <1> QED
    BY <1>4, <1>5 DEF UnitInv, Settled

(* Expiry takes the lock too, and an approved row may expire.              *)
LEMMA ExpireUnit ==
    ASSUME IndInv, UnitInv, OneProcess, NEW t \in Threads, ExpireOverdue(t)
    PROVE  UnitInv'
  <1>1. /\ \A u \in Threads \ {t} : thr'[u] = thr[u]
        /\ thr'[t].pc = "idle" /\ UNCHANGED log /\ thr[t].pc = "expire_overdue"
    BY ReturnFacts DEF IndInv, ExpireOverdue
  <1>2. \A i \in Ids : \/ rows'[i].state = rows[i].state
                       \/ /\ rows[i].state \in {"pending", "approved"}
                          /\ rows'[i].state = "expired"
    BY DEF ExpireOverdue, Overdue, IsActive, IndInv, TypeOK, Row
  <1>3. \A u \in Threads : thr[u].pc \notin {"audit", "commit"}
    BY <1>1, Alone DEF Locked
  <1>4. InHand'
    BY <1>1, <1>3 DEF InHand
  <1>5. ASSUME NEW n \in 1 .. Len(log), log[n].id \in Ids
        PROVE  Fits(log[n].cat, rows'[log[n].id].state)
    <2>1. Fits(log[n].cat, rows[log[n].id].state)
      BY <1>3, <1>5 DEF UnitInv, Settled, UnderWay
    <2> QED
      BY <1>2, <1>5, <2>1 DEF Fits
  <1> QED
    BY <1>1, <1>4, <1>5 DEF UnitInv, Settled

(* The four transitions of the store.                                      *)
LEMMA TransitionUnit ==
    ASSUME IndInv, UnitInv, OneProcess, NEW t \in Threads,
           \/ TransitionToApproved(t) \/ TransitionToDenied(t)
           \/ TransitionToCancelled(t) \/ StoreConsume(t)
    PROVE  UnitInv'
  <1> DEFINE i == thr[t].id
  <1>1. /\ thr[t].pc = "commit" /\ Return(t) /\ UNCHANGED log
        /\ i \in Ids /\ rows[i].state = Expected(thr[t].op)
    BY DEF TransitionToApproved, TransitionToDenied, TransitionToCancelled, StoreConsume,
           UnitInv, InHand, IndInv, FramesAgreeWithLog, FrameAgreesWithLog
  <1>2. rows \in [Ids -> Row] /\ rows[i] \in Row
    BY <1>1 DEF IndInv, TypeOK
  <1>3. ASSUME TransitionToApproved(t)
        PROVE  /\ \A j \in Ids \ {i} : rows'[j].state = rows[j].state
               /\ rows'[i].state \in {"approved", "expired"} /\ thr[t].op = "approve"
    BY <1>1, <1>2, <1>3, ZenonT(40) DEF TransitionToApproved, Expected, Row
  <1>4. ASSUME TransitionToDenied(t)
        PROVE  /\ \A j \in Ids \ {i} : rows'[j].state = rows[j].state
               /\ rows'[i].state = "denied" /\ thr[t].op = "deny"
    BY <1>1, <1>2, <1>4 DEF TransitionToDenied, DecidePending, Expected, Row
  <1>5. ASSUME TransitionToCancelled(t)
        PROVE  /\ \A j \in Ids \ {i} : rows'[j].state = rows[j].state
               /\ rows'[i].state = "cancelled" /\ thr[t].op = "cancel"
    BY <1>1, <1>2, <1>5 DEF TransitionToCancelled, DecidePending, Expected, Row
  <1>6. ASSUME StoreConsume(t)
        PROVE  /\ \A j \in Ids \ {i} : rows'[j].state = rows[j].state
               /\ rows'[i].state \in {"consumed", "expired"} /\ thr[t].op = "consume"
    BY <1>1, <1>2, <1>6, ZenonT(40) DEF StoreConsume, Expected, Row
  <1>7. /\ \A j \in Ids \ {i} : rows'[j].state = rows[j].state
        /\ Fits(CategoryOf[thr[t].op], rows'[i].state)
        /\ thr[t].op = "consume" => rows'[i].state \in {"consumed", "expired"}
    BY <1>3, <1>4, <1>5, <1>6 DEF Fits, CategoryOf
  <1> QED
    BY <1>1, <1>7, CommitUnit

(* The steps that change neither a state nor the chain.                    *)
LEMMA OtherUnit ==
    ASSUME IndInv, UnitInv, NEW t \in Threads,
           \/ Begin(t) \/ AcquireTransitionLock(t) \/ AuditFails(t)
           \/ CountActiveForDigest(t) \/ CountPending(t) \/ UpdateAuditSequence(t)
           \/ EnsureTransitionable(t) \/ HasOverdue(t)
    PROVE  UnitInv'
  <1>1. UNCHANGED log
    BY DEF Begin, RequestApproval, Decision, Consume, Sweep, CallTransition,
           AcquireTransitionLock, AuditFails, CountActiveForDigest, CountPending,
           UpdateAuditSequence, EnsureTransitionable, HasOverdue
  <1>2. \A i \in Ids : rows'[i].state = rows[i].state
    <2>1. CASE UpdateAuditSequence(t)
      BY <2>1 DEF UpdateAuditSequence, IndInv, TypeOK, Row
    <2>2. CASE UNCHANGED rows
      BY <2>2
    <2> QED
      BY <2>1, <2>2 DEF Begin, RequestApproval, Decision, Consume, Sweep, CallTransition,
           AcquireTransitionLock, AuditFails, CountActiveForDigest, CountPending,
           EnsureTransitionable, HasOverdue
  <1>3. /\ thr[t].pc # "commit"
        /\ \A u \in Threads \ {t} : thr'[u] = thr[u]
        /\ \/ thr'[t].pc \notin {"audit", "commit"}
           \/ /\ thr'[t].pc = "audit" /\ thr'[t].id = thr[t].id
              /\ thr'[t].op = thr[t].op /\ thr[t].id \in Ids
              /\ rows[thr[t].id].state = Expected(thr[t].op)
    <2>1. CASE Return(t) /\ thr[t].pc # "commit"
      BY <2>1, ReturnFacts DEF IndInv
    <2>2. ASSUME NEW s \in Steps \ {"audit", "commit"}, Goto(t, s), thr[t].pc # "commit"
          PROVE  <1>3!:
      BY <2>2, GotoFacts DEF IndInv
    <2>3. CASE FoundOverdue(t) /\ thr[t].pc # "commit"
      BY <2>3, FoundOverdueFacts DEF IndInv
    <2>4. CASE EnsureTransitionable(t)
      <3>1. thr[t].pc = "ensure" /\ thr[t].id \in Ids
        BY <2>4 DEF EnsureTransitionable, IndInv, FramesAgreeWithLog, FrameAgreesWithLog
      <3>2. CASE Goto(t, "audit") /\ rows[thr[t].id].state = Expected(thr[t].op)
        BY <3>1, <3>2, GotoFacts DEF IndInv, Steps
      <3> QED
        BY <2>1, <2>3, <2>4, <3>1, <3>2 DEF EnsureTransitionable
    <2>5. CASE Begin(t)
      BY <2>5 DEF Begin, RequestApproval, Decision, Consume, Sweep, CallTransition, Start,
                  IndInv, TypeOK
    <2>6. CASE AcquireTransitionLock(t)
      BY <2>2, <2>6 DEF AcquireTransitionLock, Steps
    <2>7. CASE \/ AuditFails(t) \/ CountActiveForDigest(t) \/ CountPending(t)
               \/ UpdateAuditSequence(t) \/ HasOverdue(t)
      BY <2>1, <2>2, <2>3, <2>7
         DEF AuditFails, CountActiveForDigest, CountPending, UpdateAuditSequence,
             HasOverdue, Steps
    <2> QED
      BY <2>4, <2>5, <2>6, <2>7
  <1> QED
    BY <1>1, <1>2, <1>3, QuietUnit

(* The event and its transition stay one unit in every step.               *)
LEMMA UnitStep ==
    ASSUME IndInv, UnitInv, OneProcess, StoreAnswers, [Next]_vars
    PROVE  UnitInv'
  <1>1. CASE UNCHANGED vars \/ Tick
    BY <1>1 DEF vars, Tick, UnitInv, InHand, Settled, UnderWay
  <1>2. ASSUME NEW t \in Threads, Step(t) PROVE UnitInv'
    <2>1. CASE AppendTransition(t)
      <3>1. thr[t].op \in DOMAIN CategoryOf
        BY <2>1 DEF AppendTransition, IndInv, FramesAgreeWithLog, FrameAgreesWithLog
      <3>2. CategoryOf[thr[t].op] \in Categories
        BY <3>1 DEF CategoryOf, Categories
      <3> QED
        BY <2>1, <3>2, AppendUnit DEF AppendTransition, Steps
    <2>2. CASE AppendRequested(t) \/ AppendExpired(t)
      BY <2>2, AppendUnit DEF AppendRequested, AppendExpired, Steps, Categories
    <2> QED
      BY <1>2, <2>1, <2>2, InsertUnit, TransitionUnit, ExpireUnit, OtherUnit DEF Step
  <1>3. ASSUME NEW t \in Threads, Begin(t) \/ AcquireTransitionLock(t) \/ AuditFails(t)
        PROVE  UnitInv'
    BY <1>3, OtherUnit
  <1>4. ~ (\E t \in Threads : StoreFails(t)) /\ ~ (\E p \in Processes : Crash(p))
    BY DEF StoreAnswers, StoreFails, Crash
  <1> QED
    BY <1>1, <1>2, <1>3, <1>4 DEF Next

(* In one process whose store answers, what the audit chain says happened  *)
(* to an approval is what the table says, whenever no thread is between    *)
(* the event and the transition: transition_lock makes them one unit for   *)
(* any number of threads, with audit failures at any step.                 *)
THEOREM OneUnit ==
    ASSUME OneProcess, StoreAnswers
    PROVE  Spec => []ChainAgreesWithTable
  <1>1. Init => UnitInv
    BY IdleFrameFacts DEF Init, UnitInv, InHand, Settled
  <1>2. IndInv /\ UnitInv /\ [Next]_vars => UnitInv'
    BY UnitStep
  <1>3. IndInv /\ UnitInv => ChainAgreesWithTable
    <2> SUFFICES ASSUME IndInv, UnitInv, NEW i \in Ids, NEW cat,
                        \A t \in Threads : ~(thr[t].id = i /\ thr[t].pc = "commit"),
                        NEW n \in 1 .. Len(log), log[n] = [cat |-> cat, id |-> i]
                 PROVE  Fits(cat, rows[i].state)
      BY DEF ChainAgreesWithTable, Recorded, Fits
    <2>1. log[n].cat = cat /\ log[n].id = i
      OBVIOUS
    <2>2. ~ UnderWay(n)
      <3> SUFFICES ASSUME NEW t \in Threads, thr[t].pc = "commit", thr[t].seq = n
                   PROVE  FALSE
        BY DEF UnderWay
      <3>1. log[n] = [cat |-> CategoryOf[thr[t].op], id |-> thr[t].id]
        BY DEF IndInv, FramesAgreeWithLog, FrameAgreesWithLog
      <3> QED
        BY <2>1, <3>1
    <2>3. Fits(log[n].cat, rows[log[n].id].state)
      BY <2>1, <2>2 DEF UnitInv, Settled
    <2> QED
      BY <2>2, <2>3
  <1> QED
    BY <1>1, <1>2, <1>3, Invariance, PTL DEF Spec
=============================================================================
