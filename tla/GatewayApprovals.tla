-------------------------- MODULE GatewayApprovals --------------------------
(***************************************************************************)
(* Approvals as the gateway serves them (crates/kavach-gateway,            *)
(* routes/approvals.rs): the handlers approve_approval, consume_approval   *)
(* and deny_approval, the in-memory ApprovalTokenRegistry they share, and  *)
(* KavachRuntime::consume_approval, which turns an approval into a permit. *)
(*                                                                         *)
(* The broker is the abstract one of ApprovalLifecycle, which              *)
(* ApprovalBroker implements; its calls take effect at once or fail, and   *)
(* `kavach approval deny` calls it from another process.  The token of an  *)
(* approval is named by the approval, since approve succeeds only once.    *)
(***************************************************************************)
EXTENDS ApprovalLifecycle, FiniteSets

CONSTANTS
    Handlers,     \* requests being served at the same time
    Digests,      \* request digests
    Ttl,          \* approval.default_ttl_seconds
    MaxTokens,    \* MAX_ISSUED_PERMITS, the capacity of the token registry
    Faults,       \* subset of {"broker", "full", "crash"} that may happen
    MaxTime       \* bound on the clock

ASSUME GatewayApprovalsAssumption ==
    /\ Ttl \in Nat
    /\ MaxTokens \in Nat
    /\ MaxTime \in Nat
    /\ Ids # {} /\ Digests # {}

VARIABLES
    record,       \* record[i]: what the row of i says besides its state
    now,          \* the clock
    registry,     \* approval ids with an entry in ApprovalTokenRegistry
    token,        \* token[i]: the entry of i holds its token
    hnd,          \* hnd[h]: the call h is in, its step and its locals
    issued,       \* issued[i][d]: permits issued for i, bound to d (history)
    here          \* approvals that were approved since the last restart

gwVars == <<record, now, registry, token, hnd, issued, here>>
vars == <<life, grants, gwVars>>

----------------------------------------------------------------------------
(* State                                                                   *)

Record == [digest : Digests, expires_at : Nat]
Steps == {"idle",
          "reserve", "approve", "unreserve", "fulfill",       \* approve
          "compare", "consume", "register", "remove"}         \* consume
Frame == [pc : Steps, id : Ids, digest : Digests]

AnyId == CHOOSE i \in Ids : TRUE
AnyDigest == CHOOSE d \in Digests : TRUE
IdleFrame == [pc |-> "idle", id |-> AnyId, digest |-> AnyDigest]

Exists(i) == life[i] # "absent"
Expired(i) == now >= record[i].expires_at

(* retain(|_, entry| entry.expires_at > now)                               *)
Retained == {i \in registry : ~Expired(i)}

Goto(h, step) == hnd' = [hnd EXCEPT ![h].pc = step]
Return(h) == hnd' = [hnd EXCEPT ![h] = IdleFrame]
Call(h, step, i, d) ==
    /\ hnd[h].pc = "idle"
    /\ hnd' = [hnd EXCEPT ![h] = [pc |-> step, id |-> i, digest |-> d]]

(* ApprovalTokenRegistry::remove                                           *)
Remove(i) == /\ registry' = registry \ {i}
             /\ token' = [token EXCEPT ![i] = FALSE]

----------------------------------------------------------------------------
(* evaluate with a require_approval decision, and the passing of time      *)

RequestApproval(i) ==
    /\ Open(i)
    /\ \E d \in Digests :
          record' = [record EXCEPT ![i] = [digest |-> d,
                                           expires_at |-> now + Ttl]]
    /\ UNCHANGED <<now, registry, token, hnd, issued, here>>

(* The broker finds an approval overdue, in whatever call.                 *)
Overdue(i) == /\ Expired(i)
              /\ Lapse({i})
              /\ UNCHANGED gwVars

Tick == /\ now < MaxTime
        /\ now' = now + 1
        /\ UNCHANGED <<life, grants, record, registry, token, hnd, issued,
                       here>>

----------------------------------------------------------------------------
(* approve_approval                                                        *)

(* get_approval fails for an unknown identifier.                           *)
ApproveApproval(h) ==
    /\ \E i \in Ids : Exists(i) /\ Call(h, "reserve", i, AnyDigest)
    /\ UNCHANGED <<life, grants, record, now, registry, token, issued, here>>

(* Mutant: a conflict cleans up as if the reservation were its own.        *)
Reserve_ConflictRemoves(h) ==
    LET i == hnd[h].id IN
    /\ hnd[h].pc = "reserve"
    /\ IF i \in Retained \/ Cardinality(Retained) >= MaxTokens
       THEN Goto(h, "unreserve") /\ registry' = Retained
       ELSE Goto(h, "approve") /\ registry' = Retained \cup {i}
    /\ token' = [j \in Ids |-> j \in Retained /\ token[j]]
    /\ UNCHANGED <<life, grants, record, now, issued, here>>

(* ApprovalTokenRegistry::reserve, "before making the irreversible         *)
(* approval transition"; the new entry has no token yet.                   *)
Reserve(h) ==
    LET i == hnd[h].id IN
    /\ hnd[h].pc = "reserve"
    /\ IF i \in Retained \/ Cardinality(Retained) >= MaxTokens
       THEN Return(h) /\ registry' = Retained
       ELSE Goto(h, "approve") /\ registry' = Retained \cup {i}
    /\ token' = [j \in Ids |-> j \in Retained /\ token[j]]
    /\ UNCHANGED <<life, grants, record, now, issued, here>>

(* The broker approves a pending approval that has not expired.            *)
BrokerApprove(h) ==
    LET i == hnd[h].id IN
    /\ hnd[h].pc = "approve"
    /\ ~Expired(i)
    /\ Decide(i, "approved")
    /\ here' = here \cup {i}
    /\ Goto(h, "fulfill")
    /\ UNCHANGED <<record, now, registry, token, issued>>

(* Mutant: the error is returned at once.                                  *)
ApproveFails_KeepsReservation(h) ==
    LET i == hnd[h].id IN
    /\ hnd[h].pc = "approve"
    /\ life[i] # "pending" \/ Expired(i) \/ "broker" \in Faults
    /\ Return(h)
    /\ UNCHANGED <<life, grants, record, now, registry, token, issued, here>>

ApproveFails(h) ==
    LET i == hnd[h].id IN
    /\ hnd[h].pc = "approve"
    /\ life[i] # "pending" \/ Expired(i) \/ "broker" \in Faults
    /\ Goto(h, "unreserve")
    /\ UNCHANGED <<life, grants, record, now, registry, token, issued, here>>

Unreserve(h) ==
    /\ hnd[h].pc = "unreserve"
    /\ Remove(hnd[h].id)
    /\ Return(h)
    /\ UNCHANGED <<life, grants, record, now, issued, here>>

(* ApprovalTokenRegistry::fulfill: an entry that is gone is an error.      *)
Fulfill(h) ==
    LET i == hnd[h].id IN
    /\ hnd[h].pc = "fulfill"
    /\ token' = [token EXCEPT ![i] = i \in registry]
    /\ Return(h)
    /\ UNCHANGED <<life, grants, record, now, registry, issued, here>>

(* deny_approval, and `kavach approval deny` in its own process.  A deny   *)
(* that the broker began before the expiry may end after it.               *)
DenyApproval(i) ==
    /\ Decide(i, "denied")
    /\ UNCHANGED gwVars

----------------------------------------------------------------------------
(* consume_approval                                                        *)

(* ApprovalTokenRegistry::get: without a token the handler ends here, with *)
(* a conflict.  The client presents a request with digest d.               *)
ConsumeApproval(h) ==
    /\ \E i \in Ids, d \in Digests :
          \/ /\ i \in Retained /\ token[i]
             /\ Call(h, "compare", i, d)
          \/ /\ ~(i \in Retained /\ token[i])
             /\ hnd[h].pc = "idle"
             /\ UNCHANGED hnd
    /\ registry' = Retained
    /\ token' = [j \in Ids |-> j \in Retained /\ token[j]]
    /\ UNCHANGED <<life, grants, record, now, issued, here>>

(* Mutant: the binding is only looked at after the broker's consume.       *)
CompareDigest_Later(h) ==
    /\ hnd[h].pc = "compare"
    /\ Goto(h, "consume")
    /\ UNCHANGED <<life, grants, record, now, registry, token, issued, here>>

(* "Verify request binding before consuming the one-time token."           *)
CompareDigest(h) ==
    /\ hnd[h].pc = "compare"
    /\ IF hnd[h].digest = record[hnd[h].id].digest
       THEN Goto(h, "consume")
       ELSE Return(h)
    /\ UNCHANGED <<life, grants, record, now, registry, token, issued, here>>

(* The broker consumes an approved approval that has not expired.          *)
BrokerConsume(h) ==
    LET i == hnd[h].id IN
    /\ hnd[h].pc = "consume"
    /\ ~Expired(i)
    /\ Exchange(i)
    /\ Goto(h, "register")
    /\ UNCHANGED <<record, now, registry, token, issued, here>>

(* Mutant: the error of the broker is not looked at.                       *)
ConsumeFails_Ignored(h) ==
    LET i == hnd[h].id IN
    /\ hnd[h].pc = "consume"
    /\ life[i] # "approved" \/ Expired(i) \/ "broker" \in Faults
    /\ Goto(h, "register")
    /\ UNCHANGED <<life, grants, record, now, registry, token, issued, here>>

ConsumeFails(h) ==
    LET i == hnd[h].id IN
    /\ hnd[h].pc = "consume"
    /\ life[i] # "approved" \/ Expired(i) \/ "broker" \in Faults
    /\ Return(h)
    /\ UNCHANGED <<life, grants, record, now, registry, token, issued, here>>

(* A permit bound to the presented digest, if it is that of the approval,  *)
(* enters the permit registry.                                             *)
RegisterPermit(h) ==
    LET i == hnd[h].id
        d == hnd[h].digest IN
    /\ hnd[h].pc = "register"
    /\ d = record[i].digest
    /\ issued' = [issued EXCEPT ![i][d] = @ + 1]
    /\ Goto(h, "remove")
    /\ UNCHANGED <<life, grants, record, now, registry, token, here>>

(* The digest does not match after all, there is no randomness for the     *)
(* secret, or the permit registry is full: the approval is consumed, its   *)
(* permit is lost and its token stays until it expires.                    *)
RegisterFails(h) ==
    /\ hnd[h].pc = "register"
    /\ \/ hnd[h].digest # record[hnd[h].id].digest
       \/ "full" \in Faults
    /\ Return(h)
    /\ UNCHANGED <<life, grants, record, now, registry, token, issued, here>>

RemoveToken(h) ==
    /\ hnd[h].pc = "remove"
    /\ Remove(hnd[h].id)
    /\ Return(h)
    /\ UNCHANGED <<life, grants, record, now, issued, here>>

----------------------------------------------------------------------------
(* The specification                                                       *)

(* The gateway dies and is started again: the registry is in memory.       *)
Restart ==
    /\ "crash" \in Faults
    /\ registry' = {}
    /\ token' = [i \in Ids |-> FALSE]
    /\ hnd' = [h \in Handlers |-> IdleFrame]
    /\ here' = {}
    /\ UNCHANGED <<life, grants, record, now, issued>>

Init ==
    /\ LifeInit
    /\ record = [i \in Ids |-> [digest |-> AnyDigest, expires_at |-> 0]]
    /\ now = 0
    /\ registry = {}
    /\ token = [i \in Ids |-> FALSE]
    /\ hnd = [h \in Handlers |-> IdleFrame]
    /\ issued = [i \in Ids |-> [d \in Digests |-> 0]]
    /\ here = {}

Step(h) == \/ ApproveApproval(h) \/ Reserve(h) \/ BrokerApprove(h)
           \/ ApproveFails(h) \/ Unreserve(h) \/ Fulfill(h)
           \/ ConsumeApproval(h) \/ CompareDigest(h) \/ BrokerConsume(h)
           \/ ConsumeFails(h) \/ RegisterPermit(h) \/ RegisterFails(h)
           \/ RemoveToken(h)

Next == \/ \E h \in Handlers : Step(h)
        \/ \E i \in Ids : RequestApproval(i) \/ DenyApproval(i) \/ Overdue(i)
        \/ Restart
        \/ Tick

Spec == Init /\ [][Next]_vars

----------------------------------------------------------------------------
(* Properties                                                              *)

(* Every variable has its type, and only an existing approval is dealt     *)
(* with.                                                                   *)
TypeOK ==
    /\ life \in [Ids -> LifeStates]
    /\ grants \in [Ids -> Nat]
    /\ record \in [Ids -> Record]
    /\ now \in Nat
    /\ registry \subseteq Ids
    /\ token \in [Ids -> BOOLEAN]
    /\ hnd \in [Handlers -> Frame]
    /\ issued \in [Ids -> [Digests -> Nat]]
    /\ here \subseteq Ids
    /\ \A h \in Handlers : hnd[h].pc # "idle" => Exists(hnd[h].id)
    /\ \A i \in registry : Exists(i)
    /\ \A i \in Ids : token[i] => i \in registry

Reserving(h, i) == hnd[h].pc \in {"approve", "unreserve", "fulfill"}
                      /\ hnd[h].id = i
Presenting(h, i) == hnd[h].pc \in {"compare", "consume"} /\ hnd[h].id = i
Granted(h, i) == hnd[h].pc \in {"register", "remove"} /\ hnd[h].id = i

(* An approval that this gateway process approved can be exchanged until   *)
(* it expires: its token is in the registry as soon as approve_approval is *)
(* done, whatever other handlers reserve, fail and remove at the same time *)
(* ("Reserve capacity before making the irreversible approval transition", *)
(* state.rs).                                                              *)
ApprovedHasToken ==
    \A i \in here :
        life[i] = "approved" /\ ~Expired(i) =>
            \/ token[i]
            \/ \E h \in Handlers : hnd[h].pc = "fulfill" /\ hnd[h].id = i

(* A reservation without a token belongs to a handler that is going to     *)
(* fulfill or remove it: no failed approve leaves an entry behind that     *)
(* would refuse the next approve of the same approval.                     *)
NoOrphanReservation ==
    \A i \in registry :
        ~token[i] /\ ~Expired(i) => \E h \in Handlers : Reserving(h, i)

(* The registry never holds more than MAX_ISSUED_PERMITS tokens, although  *)
(* approvals are reserved at the same time.                                *)
TokensBounded == Cardinality(registry) <= MaxTokens

(* An approval gives at most one permit, however many clients hold a clone *)
(* of its token, and the permit is bound to the request that was approved. *)
PermitPerGrant ==
    \A i \in Ids, d \in Digests :
        issued[i][d] > 0 =>
            /\ d = record[i].digest
            /\ issued[i][d] <= grants[i]
            /\ grants[i] <= 1

(* "A mismatched request must not be able to destroy a valid approval"     *)
(* (runtime.rs): what consumes an approval is a handler whose client       *)
(* presented the approved request.                                         *)
MismatchKeepsApproval ==
    [][\A i \in Ids :
          life[i] # "consumed" /\ life'[i] = "consumed" =>
              \E h \in Handlers : /\ hnd[h].pc = "consume"
                                  /\ hnd[h].id = i
                                  /\ hnd[h].digest = record[i].digest]_vars

(* While approval i has not expired: one handler at a time reserves it,    *)
(* and finds its entry there and empty; a token in the registry is that of *)
(* an approval that was approved; and the handlers that cloned it, or were *)
(* granted the approval for it, have not lost it.                          *)
LiveEntry(i) ==
    ~Expired(i) =>
        /\ life[i] # "expired"
        /\ token[i] => life[i] \in {"approved", "consumed"}
        /\ \A h \in Handlers :
              /\ Reserving(h, i) =>
                    /\ i \in registry /\ ~token[i]
                    /\ \A g \in Handlers \ {h} : ~Reserving(g, i)
              /\ Presenting(h, i) /\ life[i] = "approved" => token[i]
              /\ Granted(h, i) => token[i]

(* What handler h knows of its approval, whatever the others do.           *)
HandlerKnows(h) ==
    LET i == hnd[h].id IN
    /\ hnd[h].pc \in {"fulfill", "compare", "consume"} =>
          life[i] \in {"approved", "consumed", "expired"}
    /\ hnd[h].pc \in {"consume", "register", "remove"} =>
          hnd[h].digest = record[i].digest
    /\ hnd[h].pc \in {"register", "remove"} =>
          /\ life[i] = "consumed"
          /\ \A g \in Handlers \ {h} : ~Granted(g, i)
    /\ hnd[h].pc = "register" => \A d \in Digests : issued[i][d] = 0

(* The permits of approval i are accounted for.                            *)
Accounted(i) ==
    /\ grants[i] = IF life[i] = "consumed" THEN 1 ELSE 0
    /\ \A d \in Digests : issued[i][d] <= grants[i]

(* The inductive invariant behind ApprovedHasToken, NoOrphanReservation    *)
(* and PermitPerGrant.                                                     *)
ApprovalsInv == /\ TypeOK
                /\ \A i \in Ids : LiveEntry(i) /\ Accounted(i)
                /\ \A h \in Handlers : HandlerKnows(h)
                /\ ApprovedHasToken
                /\ NoOrphanReservation
                /\ PermitPerGrant
=============================================================================
