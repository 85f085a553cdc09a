--------------------------- MODULE ApprovalBroker ---------------------------
(***************************************************************************)
(* The human approval broker (crates/kavach-approval).  Several threads    *)
(* call the operations of the ApprovalBroker trait; each thread belongs to *)
(* a process, and each process has one SqliteApprovalBroker object with    *)
(* its own transition_lock: the gateway is one process, every run of       *)
(* `kavach approval deny` is another.  All of them share one approval      *)
(* database and one audit chain, which are separate SQLite files.          *)
(*                                                                         *)
(* An action is one critical section of the code: one statement or         *)
(* transaction on the approval database, one append to the audit chain, or *)
(* one lock operation.  Between two of them any other thread may run, time *)
(* may pass, and the process may die.                                      *)
(***************************************************************************)
EXTENDS Naturals, Sequences, FiniteSets

CONSTANTS
    Ids,          \* approval identifiers (fresh UUIDs in the code)
    Digests,      \* request digests
    Threads,      \* threads that call the broker
    Processes,    \* processes that opened a broker on the database
    ProcessOf,    \* [Threads -> Processes]
    Calls,        \* [Threads -> SUBSET Ops]: the operations a thread invokes
    Ttl,          \* ttl_seconds of a request, or approval.default_ttl_seconds
    MaxPending,   \* approval.max_pending
    Faults,       \* subset of {"audit", "store", "crash"} that may happen
    MaxTime,      \* bound on the clock
    MaxLog,       \* bound on the length of the audit chain
    NoThread, NoId

Ops == {"request", "approve", "deny", "cancel", "consume", "sweep"}

ASSUME BrokerAssumption ==
    /\ ProcessOf \in [Threads -> Processes]
    /\ Calls \in [Threads -> SUBSET Ops]
    /\ Ttl \in Nat                  \* 0 when a caller of request_approval says so
    /\ MaxPending \in Nat \ {0}     \* validate_config
    /\ MaxTime \in Nat
    /\ MaxLog \in Nat
    /\ NoThread \notin Threads
    /\ NoId \notin Ids
    /\ Digests # {}

VARIABLES
    rows,     \* the approvals table: one row per identifier
    log,      \* the audit chain: events about approvals, by sequence number
    now,      \* the clock, in seconds
    lock,     \* lock[p]: the thread that holds p's transition_lock
    thr,      \* thr[t]: the operation t is in, its step and its locals
    held,     \* held[p]: raw tokens that approve returned inside process p
    grants    \* grants[i]: ConsumedApproval results returned for i (history)

vars == <<rows, log, now, lock, thr, held, grants>>

----------------------------------------------------------------------------
(* State                                                                   *)

States == {"absent", "pending", "approved", "denied", "cancelled",
           "expired", "consumed"}

(* A raw token is named by the sequence number of the ApprovalApproved     *)
(* event its approve call appended: 256 random bits repeat as little as    *)
(* that number does, and the stored SHA-256 hash identifies it.  0 stands  *)
(* for a NULL token_hash, a NULL audit_sequence and a token that no        *)
(* approve call made.                                                      *)
None == 0
Token == Nat

Row == [state : States, digest : Digests, expires_at : Nat,
        token_hash : Token, audit_sequence : Nat]

Categories == {"Requested", "Approved", "Denied", "Cancelled", "Consumed",
               "Expired"}
Event == [cat : Categories, id : Ids \cup {NoId}]

Steps == {"idle",
          "count_active", "count_pending", "insert", "audit_requested",
          "link",
          "lock", "ensure", "audit", "commit",
          "has_overdue", "audit_expired", "expire_overdue"}

(* Steps at which the thread holds its process's transition_lock.          *)
Locked == {"ensure", "audit", "commit", "has_overdue", "audit_expired",
           "expire_overdue"}

Frame == [pc : Steps, op : Ops, id : Ids \cup {NoId}, digest : Digests,
          token : Token, at : Nat, seq : Nat]

(* Outside any operation.                                                  *)
AnyDigest == CHOOSE d \in Digests : TRUE
IdleFrame == [pc |-> "idle", op |-> "request", id |-> NoId,
              digest |-> AnyDigest, token |-> None, at |-> 0, seq |-> None]

(* The state an approval must be in for an operation, and the event the    *)
(* operation appends.  Cancelled stands for the DecisionDeny event whose   *)
(* decision is "cancelled", which is how cancel records itself.            *)
Expected(op) == IF op = "consume" THEN "approved" ELSE "pending"
CategoryOf == [approve |-> "Approved", deny |-> "Denied",
               cancel |-> "Cancelled", consume |-> "Consumed"]

IsActive(i) == rows[i].state \in {"pending", "approved"}
Pending == {i \in Ids : rows[i].state = "pending"}

(* has_overdue and expire_overdue compare with a strict <.                 *)
Overdue(at) == {i \in Ids : IsActive(i) /\ rows[i].expires_at < at}

----------------------------------------------------------------------------
(* Helpers for the steps of a thread                                       *)

Goto(t, step) == thr' = [thr EXCEPT ![t].pc = step]

(* The clock reading that expire_overdue is later called with.             *)
FoundOverdue(t) ==
    thr' = [thr EXCEPT ![t].pc = "audit_expired", ![t].at = now]

(* Return from the operation: the MutexGuard, if any, is dropped.          *)
Return(t) == /\ thr' = [thr EXCEPT ![t] = IdleFrame]
             /\ lock' = IF thr[t].pc \in Locked
                        THEN [lock EXCEPT ![ProcessOf[t]] = NoThread]
                        ELSE lock

(* AuditStore::append gives the event the next sequence number.            *)
AppendAudit(t, cat, next) ==
    /\ log' = Append(log, [cat |-> cat, id |-> thr[t].id])
    /\ thr' = [thr EXCEPT ![t].pc = next, ![t].seq = Len(log) + 1]

(* Bounds of the instance.  Every operation appends at most one event and  *)
(* a request takes one identifier: an operation is started only while      *)
(* MaxLog and Ids leave room for the ones under way and for this one.      *)
MayAppend == {t \in Threads :
                thr[t].pc \notin {"idle", "link", "commit", "expire_overdue"}}
MayInsert == {t \in Threads :
                thr[t].pc \in {"count_active", "count_pending", "insert"}}
RoomInLog == Len(log) + Cardinality(MayAppend) < MaxLog
RoomForId == Cardinality(MayInsert)
                < Cardinality({i \in Ids : rows[i].state = "absent"})

Start(t, op) == /\ thr[t].pc = "idle"
                /\ op \in Calls[t]
                /\ RoomInLog

----------------------------------------------------------------------------
(* request_approval.  The transition_lock is not taken.                    *)

RequestApproval(t, d) ==
    /\ Start(t, "request") /\ RoomForId
    /\ thr' = [thr EXCEPT ![t] =
                 [pc |-> "count_active", op |-> "request", id |-> NoId,
                  digest |-> d, token |-> None, at |-> now, seq |-> None]]
    /\ UNCHANGED <<rows, log, now, lock, held, grants>>

CountActiveForDigest(t) ==
    /\ thr[t].pc = "count_active"
    /\ IF \E i \in Ids : IsActive(i) /\ rows[i].digest = thr[t].digest
       THEN Return(t)                                \* duplicate_active
       ELSE Goto(t, "count_pending") /\ UNCHANGED lock
    /\ UNCHANGED <<rows, log, now, held, grants>>

CountPending(t) ==
    /\ thr[t].pc = "count_pending"
    /\ IF Cardinality(Pending) >= MaxPending
       THEN Return(t)                                \* pending_limit
       ELSE Goto(t, "insert") /\ UNCHANGED lock
    /\ UNCHANGED <<rows, log, now, held, grants>>

InsertPending(t) ==
    /\ thr[t].pc = "insert"
    /\ \E i \in Ids :
          /\ rows[i].state = "absent"
          /\ rows' = [rows EXCEPT ![i] =
                        [state |-> "pending", digest |-> thr[t].digest,
                         expires_at |-> thr[t].at + Ttl,
                         token_hash |-> None, audit_sequence |-> None]]
          /\ thr' = [thr EXCEPT ![t].pc = "audit_requested", ![t].id = i]
    /\ UNCHANGED <<log, now, lock, held, grants>>

AppendRequested(t) ==
    /\ thr[t].pc = "audit_requested"
    /\ AppendAudit(t, "Requested", "link")
    /\ UNCHANGED <<rows, now, lock, held, grants>>

(* Mutant: links the latest event of the chain, not the one it appended.   *)
UpdateAuditSequence_Latest(t) ==
    /\ thr[t].pc = "link"
    /\ rows' = [rows EXCEPT ![thr[t].id].audit_sequence = Len(log)]
    /\ Return(t)
    /\ UNCHANGED <<log, now, held, grants>>

UpdateAuditSequence(t) ==
    /\ thr[t].pc = "link"
    /\ rows' = [rows EXCEPT ![thr[t].id].audit_sequence = thr[t].seq]
    /\ Return(t)
    /\ UNCHANGED <<log, now, held, grants>>

----------------------------------------------------------------------------
(* approve, deny, cancel, consume and expire_overdue all begin by taking   *)
(* the transition_lock of their own process.                               *)

CallTransition(t, op, i, k) ==
    /\ Start(t, op)
    /\ thr' = [thr EXCEPT ![t] =
                 [pc |-> "lock", op |-> op, id |-> i, digest |-> AnyDigest,
                  token |-> k, at |-> 0, seq |-> None]]
    /\ UNCHANGED <<rows, log, now, lock, held, grants>>

Decision(t) == \E op \in {"approve", "deny", "cancel"}, i \in Ids :
                  CallTransition(t, op, i, None)
Consume(t) == \E i \in Ids, k \in held[ProcessOf[t]] \cup {None} :
                 CallTransition(t, "consume", i, k)
Sweep(t) == CallTransition(t, "sweep", NoId, None)

(* Mutant: the transition_lock is taken although another thread holds it.  *)
AcquireTransitionLock_NotExclusive(t) ==
    /\ thr[t].pc = "lock"
    /\ lock' = [lock EXCEPT ![ProcessOf[t]] = t]
    /\ Goto(t, IF thr[t].op = "sweep" THEN "has_overdue" ELSE "ensure")
    /\ UNCHANGED <<rows, log, now, held, grants>>

AcquireTransitionLock(t) ==
    /\ thr[t].pc = "lock"
    /\ lock[ProcessOf[t]] = NoThread
    /\ lock' = [lock EXCEPT ![ProcessOf[t]] = t]
    /\ Goto(t, IF thr[t].op = "sweep" THEN "has_overdue" ELSE "ensure")
    /\ UNCHANGED <<rows, log, now, held, grants>>

(* Mutant: any token opens an approval that has one.                       *)
Verifies_AnyToken(row, k) == row.token_hash # None

(* The stored hash exists and is the presented token's.                    *)
Verifies(row, k) == row.token_hash # None /\ row.token_hash = k

(* ensure_transitionable, and the token check that consume makes on the    *)
(* row it loaded.  Note the >= against the < of Overdue.                   *)
EnsureTransitionable(t) ==
    LET row == rows[thr[t].id] IN
    /\ thr[t].pc = "ensure"
    /\ \/ /\ row.state # Expected(thr[t].op)         \* not_found included
          /\ Return(t)
       \/ /\ row.state = Expected(thr[t].op)
          /\ now >= row.expires_at
          /\ FoundOverdue(t)
          /\ UNCHANGED lock
       \/ /\ row.state = Expected(thr[t].op)
          /\ now < row.expires_at
          /\ IF thr[t].op = "consume" /\ ~ Verifies(row, thr[t].token)
             THEN Return(t)                          \* invalid_token
             ELSE Goto(t, "audit") /\ UNCHANGED lock
    /\ UNCHANGED <<rows, log, now, held, grants>>

(* The event is appended before the transition it announces.               *)
AppendTransition(t) ==
    /\ thr[t].pc = "audit"
    /\ AppendAudit(t, CategoryOf[thr[t].op], "commit")
    /\ UNCHANGED <<rows, now, lock, held, grants>>

(* Mutant: the state is not read again inside the transaction.             *)
DecidePending_Unguarded(i, state, seq) ==
    rows' = [rows EXCEPT ![i].state = state, ![i].audit_sequence = seq]

(* The guarded UPDATE that ends deny and cancel.                           *)
DecidePending(i, state, seq) ==
    rows' = IF rows[i].state = "pending"
            THEN [rows EXCEPT ![i].state = state, ![i].audit_sequence = seq]
            ELSE rows

TransitionToApproved(t) ==
    LET i == thr[t].id IN
    /\ thr[t].pc = "commit" /\ thr[t].op = "approve"
    /\ \/ rows[i].state # "pending" /\ UNCHANGED <<rows, held>>
       \/ /\ rows[i].state = "pending" /\ now >= rows[i].expires_at
          /\ rows' = [rows EXCEPT ![i].state = "expired"]
          /\ UNCHANGED held
       \/ /\ rows[i].state = "pending" /\ now < rows[i].expires_at
          /\ rows' = [rows EXCEPT ![i] =
                        [@ EXCEPT !.state = "approved",
                                  !.token_hash = thr[t].seq,
                                  !.audit_sequence = thr[t].seq]]
          /\ held' = [held EXCEPT ![ProcessOf[t]] = @ \cup {thr[t].seq}]
    /\ Return(t)
    /\ UNCHANGED <<log, now, grants>>

(* Neither deny nor cancel looks at the expiry again.                      *)
TransitionToDenied(t) ==
    /\ thr[t].pc = "commit" /\ thr[t].op = "deny"
    /\ DecidePending(thr[t].id, "denied", thr[t].seq)
    /\ Return(t)
    /\ UNCHANGED <<log, now, held, grants>>

TransitionToCancelled(t) ==
    /\ thr[t].pc = "commit" /\ thr[t].op = "cancel"
    /\ DecidePending(thr[t].id, "cancelled", thr[t].seq)
    /\ Return(t)
    /\ UNCHANGED <<log, now, held, grants>>

(* Mutant: the UPDATE sets consumed_at and leaves the state approved.      *)
StoreConsume_Repeatable(t) ==
    LET i == thr[t].id IN
    /\ thr[t].pc = "commit" /\ thr[t].op = "consume"
    /\ IF rows[i].state = "approved" /\ now < rows[i].expires_at
       THEN grants' = [grants EXCEPT ![i] = @ + 1]
       ELSE UNCHANGED grants
    /\ Return(t)
    /\ UNCHANGED <<rows, log, now, held>>

StoreConsume(t) ==
    LET i == thr[t].id IN
    /\ thr[t].pc = "commit" /\ thr[t].op = "consume"
    /\ \/ rows[i].state # "approved" /\ UNCHANGED <<rows, grants>>
       \/ /\ rows[i].state = "approved" /\ now >= rows[i].expires_at
          /\ rows' = [rows EXCEPT ![i].state = "expired"]
          /\ UNCHANGED grants
       \/ /\ rows[i].state = "approved" /\ now < rows[i].expires_at
          /\ rows' = [rows EXCEPT ![i] =
                        [@ EXCEPT !.state = "consumed",
                                  !.token_hash = None,
                                  !.audit_sequence = thr[t].seq]]
          /\ grants' = [grants EXCEPT ![i] = @ + 1]
    /\ Return(t)
    /\ UNCHANGED <<log, now, held>>

(* expire_overdue of the broker: no event when nothing is overdue.         *)
HasOverdue(t) ==
    /\ thr[t].pc = "has_overdue"
    /\ IF Overdue(now) = {}
       THEN Return(t)
       ELSE FoundOverdue(t) /\ UNCHANGED lock
    /\ UNCHANGED <<rows, log, now, held, grants>>

AppendExpired(t) ==
    /\ thr[t].pc = "audit_expired"
    /\ AppendAudit(t, "Expired", "expire_overdue")
    /\ UNCHANGED <<rows, now, lock, held, grants>>

(* expire_overdue of the store: every overdue row, not only thr[t].id.     *)
ExpireOverdue(t) ==
    /\ thr[t].pc = "expire_overdue"
    /\ rows' = [i \in Ids |->
                  IF i \in Overdue(thr[t].at)
                  THEN [rows[i] EXCEPT !.state = "expired",
                                       !.audit_sequence = thr[t].seq]
                  ELSE rows[i]]
    /\ Return(t)
    /\ UNCHANGED <<log, now, held, grants>>

----------------------------------------------------------------------------
(* Errors, crashes and time                                                *)

(* Mutant: the error path forgets to release the transition_lock.          *)
AuditFails_KeepsLock(t) ==
    /\ "audit" \in Faults
    /\ thr[t].pc \in {"audit_requested", "audit", "audit_expired"}
    /\ thr' = [thr EXCEPT ![t] = IdleFrame]
    /\ UNCHANGED <<rows, log, now, lock, held, grants>>

(* Mutant: the error is logged and the transition goes on.                 *)
AuditFails_Open(t) ==
    /\ "audit" \in Faults
    /\ thr[t].pc = "audit"
    /\ Goto(t, "commit")
    /\ UNCHANGED <<rows, log, now, lock, held, grants>>

(* AuditStore::append returns an error and the operation returns it.       *)
AuditFails(t) ==
    /\ "audit" \in Faults
    /\ thr[t].pc \in {"audit_requested", "audit", "audit_expired"}
    /\ Return(t)
    /\ UNCHANGED <<rows, log, now, held, grants>>

(* A statement on the approval database fails (SQLITE_BUSY after           *)
(* busy_timeout, I/O error), a query or an update; a transaction is rolled *)
(* back, and the operation returns the error.                              *)
StoreFails(t) ==
    /\ "store" \in Faults
    /\ thr[t].pc \in {"count_active", "count_pending", "insert", "link", "ensure",
                     "commit", "has_overdue", "expire_overdue"}
    /\ Return(t)
    /\ UNCHANGED <<rows, log, now, held, grants>>

(* Process p dies and starts again: locals, locks and raw tokens are lost. *)
Crash(p) ==
    /\ "crash" \in Faults
    /\ thr' = [t \in Threads |-> IF ProcessOf[t] = p
                                 THEN IdleFrame
                                 ELSE thr[t]]
    /\ lock' = [lock EXCEPT ![p] = NoThread]
    /\ held' = [held EXCEPT ![p] = {}]
    /\ UNCHANGED <<rows, log, now, grants>>

Tick == /\ now < MaxTime
        /\ now' = now + 1
        /\ UNCHANGED <<rows, log, lock, thr, held, grants>>

----------------------------------------------------------------------------
Init ==
    /\ rows = [i \in Ids |-> [state |-> "absent",
                              digest |-> AnyDigest,
                              expires_at |-> 0, token_hash |-> None,
                              audit_sequence |-> None]]
    /\ log = <<>>
    /\ now = 0
    /\ lock = [p \in Processes |-> NoThread]
    /\ thr = [t \in Threads |-> IdleFrame]
    /\ held = [p \in Processes |-> {}]
    /\ grants = [i \in Ids |-> 0]

(* What a thread does once it is inside an operation.                      *)
Step(t) ==
    \/ CountActiveForDigest(t) \/ CountPending(t) \/ InsertPending(t)
    \/ AppendRequested(t) \/ UpdateAuditSequence(t)
    \/ EnsureTransitionable(t) \/ AppendTransition(t)
    \/ TransitionToApproved(t) \/ TransitionToDenied(t)
    \/ TransitionToCancelled(t) \/ StoreConsume(t)
    \/ HasOverdue(t) \/ AppendExpired(t) \/ ExpireOverdue(t)

Begin(t) == \/ \E d \in Digests : RequestApproval(t, d)
            \/ Decision(t)
            \/ Consume(t)
            \/ Sweep(t)

Next == \/ \E t \in Threads : \/ Begin(t)
                              \/ AcquireTransitionLock(t)
                              \/ Step(t)
                              \/ AuditFails(t)
                              \/ StoreFails(t)
        \/ \E p \in Processes : Crash(p)
        \/ Tick

Spec == Init /\ [][Next]_vars

(* Threads are scheduled: one that can take a step of its operation does   *)
(* so eventually.  std::sync::Mutex does not promise a waiting thread its  *)
(* turn, and nothing is assumed of it here.                                *)
FairSpec == /\ Spec
            /\ \A t \in Threads : /\ WF_vars(Step(t))
                                  /\ WF_vars(AcquireTransitionLock(t))

----------------------------------------------------------------------------
(* Properties                                                              *)

(* Rows and frames stay well formed; sequence numbers and token names that *)
(* travel from the chain through a thread's locals into the table never    *)
(* run ahead of the chain.                                                 *)
TypeOK ==
    /\ rows \in [Ids -> Row]
    /\ log \in Seq(Event)
    /\ now \in Nat
    /\ lock \in [Processes -> Threads \cup {NoThread}]
    /\ thr \in [Threads -> Frame]
    /\ held \in [Processes -> SUBSET Token]
    /\ grants \in [Ids -> Nat]
    /\ \A i \in Ids : /\ rows[i].token_hash <= Len(log)
                      /\ rows[i].audit_sequence <= Len(log)
    /\ \A t \in Threads : thr[t].seq <= Len(log)

(* The transition_lock is held by exactly the thread that is between its   *)
(* acquisition and its return, on every path of every operation, errors,   *)
(* expiry branches and restarts included.                                  *)
LockDiscipline ==
    \A t \in Threads : lock[ProcessOf[t]] = t <=> thr[t].pc \in Locked

Recorded(i, cat) == \E n \in 1 .. Len(log) : log[n] = [cat |-> cat, id |-> i]

(* Fail closed: no approval is approved, denied, cancelled or consumed     *)
(* unless its event is in the audit chain, and a consumed one was recorded *)
(* as approved before it was recorded as consumed, although the chain and  *)
(* the table are separate databases and any step between the two may fail. *)
DecisionsAudited ==
    \A i \in Ids :
        /\ rows[i].state = "approved" => Recorded(i, "Approved")
        /\ rows[i].state = "denied" => Recorded(i, "Denied")
        /\ rows[i].state = "cancelled" => Recorded(i, "Cancelled")
        /\ rows[i].state = "consumed" =>
              \E m, n \in 1 .. Len(log) :
                 /\ m < n
                 /\ log[m] = [cat |-> "Approved", id |-> i]
                 /\ log[n] = [cat |-> "Consumed", id |-> i]

(* One-shot approvals: however many consumers race, in whatever processes, *)
(* an approval is exchanged at most once, and the table says consumed      *)
(* exactly when it was.                                                    *)
AtMostOneGrant ==
    \A i \in Ids : grants[i] = IF rows[i].state = "consumed" THEN 1 ELSE 0

(* A grant is given only to a caller that presented the very token the     *)
(* approval was approved with, before the approval expired: the check      *)
(* consume makes on the row it loaded still holds when the row is updated. *)
GrantIsEarned ==
    [][\A i \in Ids : grants'[i] # grants[i] =>
          /\ now < rows[i].expires_at
          /\ \E t \in Threads : /\ thr[t].pc = "commit"
                                /\ thr[t].op = "consume"
                                /\ thr[t].id = i
                                /\ thr[t].token # None
                                /\ thr[t].token = rows[i].token_hash]_vars

(* The audit_sequence of a row names an event about that approval, or the  *)
(* expiry event of a batch: the numbers handed from the chain to the table *)
(* are never those of another approval's event.                            *)
SequenceNamesOwnEvent ==
    \A i \in Ids : LET n == rows[i].audit_sequence IN
        n # None => /\ n <= Len(log)
                    /\ log[n].id = i \/ log[n].cat = "Expired"

(* The broker implements the approval life cycle: a final state is final,  *)
(* only a pending approval is decided, only an approved one is exchanged.  *)
Life == INSTANCE ApprovalLifecycle
            WITH life <- [i \in Ids |-> rows[i].state], grants <- grants
ImplementsLifecycle == Life!LifeSpec

(* Inside one process the mutex makes the event and its transition one     *)
(* unit: when no thread is about to commit for i, what the chain says      *)
(* happened to i is what the table says, up to a later expiry.             *)
ChainAgreesWithTable ==
    \A i \in Ids :
        (\A t \in Threads : ~(thr[t].id = i /\ thr[t].pc = "commit")) =>
            /\ Recorded(i, "Denied") => rows[i].state = "denied"
            /\ Recorded(i, "Cancelled") => rows[i].state = "cancelled"
            /\ Recorded(i, "Approved") =>
                  rows[i].state \in {"approved", "consumed", "expired"}
            /\ Recorded(i, "Consumed") =>
                  rows[i].state \in {"consumed", "expired"}

(* Every operation returns, unless new calls keep overtaking it: no path,  *)
(* error or crash keeps the transition_lock, so once no more calls begin   *)
(* no thread waits for it for ever.                                        *)
OperationsReturn ==
    <>[][\A t \in Threads : ~ Begin(t)]_vars
        => \A t \in Threads : thr[t].pc # "idle" ~> thr[t].pc = "idle"

(* What a thread has established when it reaches a step, and what no other *)
(* thread or process can take away from it before it gets to the next one. *)
FrameAgreesWithLog(f) ==
    /\ f.pc \in {"audit_requested", "link"} => f.id \in Ids
    /\ f.pc = "lock" =>
          f.op = "sweep" \/ (f.op \in DOMAIN CategoryOf /\ f.id \in Ids)
    /\ f.pc \in {"ensure", "audit", "commit"} =>
          f.op \in DOMAIN CategoryOf /\ f.id \in Ids
    /\ f.pc \in {"link", "commit", "expire_overdue"} => f.seq # None
    /\ f.pc = "link" => log[f.seq] = [cat |-> "Requested", id |-> f.id]
    /\ f.pc = "commit" => log[f.seq] = [cat |-> CategoryOf[f.op], id |-> f.id]
    /\ f.pc = "expire_overdue" => log[f.seq].cat = "Expired"

FramesAgreeWithLog == \A t \in Threads : FrameAgreesWithLog(thr[t])

(* An approved row carries the name of its own Approved event.             *)
ApprovedCarriesToken ==
    \A i \in Ids : rows[i].state = "approved" =>
        /\ rows[i].token_hash # None
        /\ log[rows[i].token_hash] = [cat |-> "Approved", id |-> i]

(* A token that verified keeps verifying while its approval is approved.   *)
CheckedTokenStaysValid ==
    \A t \in Threads : LET f == thr[t] IN
        f.pc \in {"audit", "commit"} /\ f.op = "consume" =>
            /\ rows[f.id].state \notin {"absent", "pending"}
            /\ rows[f.id].state = "approved" => Verifies(rows[f.id], f.token)
            /\ f.token <= Len(log)
            /\ f.pc = "commit" => f.token < f.seq

(* The inductive invariant behind the theorems of ApprovalBroker_proof.    *)
IndInv == /\ TypeOK
          /\ LockDiscipline
          /\ FramesAgreeWithLog
          /\ ApprovedCarriesToken
          /\ CheckedTokenStaysValid
          /\ DecisionsAudited
          /\ AtMostOneGrant
          /\ SequenceNamesOwnEvent

----------------------------------------------------------------------------
(* What comments, tests and documents say and the code does not keep.      *)

(* The test duplicate_approval_creation_race_produces_one_active names it: *)
(* requests for one digest that race leave one active approval.            *)
OneActivePerDigest ==
    \A i, j \in Ids : IsActive(i) /\ IsActive(j)
                         /\ rows[i].digest = rows[j].digest => i = j
=============================================================================
