---------------------- MODULE GatewayApprovals_proof ----------------------
(***************************************************************************)
(* Machine-checked proofs about GatewayApprovals, for any number of        *)
(* handlers, approvals and digests, any capacity and any faults.           *)
(***************************************************************************)
EXTENDS GatewayApprovals, FiniteSetTheorems, TLAPS

(* The frame of a handler that serves no request.                          *)
LEMMA IdleFrameFacts ==
    IdleFrame \in Frame /\ IdleFrame.pc = "idle" /\ AnyDigest \in Digests
  <1>1. AnyId \in Ids
    BY GatewayApprovalsAssumption DEF AnyId
  <1>2. AnyDigest \in Digests
    BY GatewayApprovalsAssumption DEF AnyDigest
  <1> QED
    BY <1>1, <1>2 DEF IdleFrame, Frame, Steps

(* Only h's frame changes, and it stays well formed.                       *)
Moves(h) == /\ hnd' \in [Handlers -> Frame]
            /\ \A g \in Handlers \ {h} : hnd'[g] = hnd[g]

LEMMA GotoFacts ==
    ASSUME TypeOK, NEW h \in Handlers, NEW s \in Steps, Goto(h, s)
    PROVE  /\ Moves(h)
           /\ hnd'[h].pc = s
           /\ hnd'[h].id = hnd[h].id
           /\ hnd'[h].digest = hnd[h].digest
  BY DEF TypeOK, Goto, Frame, Moves

LEMMA ReturnFacts ==
    ASSUME TypeOK, NEW h \in Handlers, Return(h)
    PROVE  Moves(h) /\ hnd'[h].pc = "idle"
  BY IdleFrameFacts DEF TypeOK, Return, Moves

LEMMA CallFacts ==
    ASSUME TypeOK, NEW h \in Handlers, NEW s \in Steps, NEW i \in Ids,
           NEW d \in Digests, Call(h, s, i, d)
    PROVE  /\ Moves(h)
           /\ hnd[h].pc = "idle"
           /\ hnd'[h] = [pc |-> s, id |-> i, digest |-> d]
  BY DEF TypeOK, Call, Frame, Moves

(***************************************************************************)
(* What the steps of one handler have in common: the other handlers keep   *)
(* their frames, and of the registry only expired entries and the entry of *)
(* h's own approval change.                                                *)
(***************************************************************************)
Untouched(j) == ~Expired(j) => /\ j \in registry' <=> j \in registry
                               /\ token'[j] <=> token[j]

(* Purging the expired entries touches no other.                           *)
LEMMA PurgeFacts ==
    ASSUME TypeOK,
           registry' = Retained,
           token' = [j \in Ids |-> j \in Retained /\ token[j]]
    PROVE  /\ registry' \subseteq registry
           /\ token' \in [Ids -> BOOLEAN]
           /\ \A j \in Ids : token'[j] => j \in registry'
           /\ \A j \in Ids : Untouched(j)
  BY DEF TypeOK, Retained, Untouched

(* The other handlers keep what they know when approvals and permits stay  *)
(* as they are and h gets no grant.                                        *)
LEMMA OthersKnow ==
    ASSUME ApprovalsInv, NEW h \in Handlers, Moves(h),
           UNCHANGED <<life, record, issued>>,
           \A j \in Ids : Granted(h, j)' => Granted(h, j),
           HandlerKnows(h)'
    PROVE  \A g \in Handlers : HandlerKnows(g)'
  <1> SUFFICES ASSUME NEW g \in Handlers \ {h} PROVE HandlerKnows(g)'
    OBVIOUS
  <1>1. hnd'[g] = hnd[g] /\ hnd[g].id \in Ids /\ HandlerKnows(g)
    BY DEF ApprovalsInv, TypeOK, Frame, Moves
  <1>2. \A j \in Ids, f \in Handlers : Granted(f, j)' => Granted(f, j)
    BY DEF Moves, Granted
  <1> QED
    BY <1>1, <1>2 DEF HandlerKnows

(* A step that leaves approvals, permits and live entries alone and in     *)
(* which h neither begins nor ends a reservation.                          *)
LEMMA QuietStep ==
    ASSUME ApprovalsInv, TypeOK', NEW h \in Handlers, Moves(h),
           UNCHANGED <<life, grants, record, now, issued, here>>,
           \A j \in Ids : Untouched(j),
           hnd'[h].pc = "fulfill" <=> hnd[h].pc = "fulfill",
           hnd'[h].pc = "fulfill" => hnd'[h].id = hnd[h].id,
           \A j \in Ids :
              /\ Reserving(h, j)' <=> Reserving(h, j)
              /\ Presenting(h, j)' => Presenting(h, j) \/ token[j]
              /\ Granted(h, j)' => Granted(h, j),
           HandlerKnows(h)'
    PROVE  ApprovalsInv'
  <1>1. \A g \in Handlers : HandlerKnows(g)'
    BY OthersKnow
  <1>2. \A i \in Ids : Expired(i)' <=> Expired(i)
    BY DEF Expired
  <1>3. \A g \in Handlers, i \in Ids :
           /\ Reserving(g, i)' <=> Reserving(g, i)
           /\ Presenting(g, i)' => Presenting(g, i) \/ token[i]
           /\ Granted(g, i)' => Granted(g, i)
    BY DEF Moves, Reserving, Presenting, Granted
  <1>4. ASSUME NEW i \in Ids PROVE LiveEntry(i)'
    <2>1. LiveEntry(i) /\ Untouched(i)
      BY DEF ApprovalsInv
    <2> QED
      BY <1>2, <1>3, <2>1 DEF LiveEntry, Untouched
  <1>5. \A i \in Ids : Accounted(i)'
    BY DEF ApprovalsInv, Accounted
  <1>6. ApprovedHasToken'
    <2> SUFFICES ASSUME NEW i \in here, life[i] = "approved", ~Expired(i)
                 PROVE  \/ token'[i]
                        \/ \E g \in Handlers : /\ hnd'[g].pc = "fulfill"
                                               /\ hnd'[g].id = i
      BY <1>2 DEF ApprovedHasToken, ApprovalsInv, TypeOK
    <2>1. i \in Ids /\ Untouched(i)
      BY DEF ApprovalsInv, TypeOK
    <2>2. CASE token[i]
      BY <2>1, <2>2 DEF Untouched
    <2>3. CASE ~token[i]
      <3>1. PICK g \in Handlers : hnd[g].pc = "fulfill" /\ hnd[g].id = i
        BY <2>3 DEF ApprovalsInv, ApprovedHasToken
      <3> QED
        BY <3>1 DEF Moves
    <2> QED
      BY <2>2, <2>3
  <1>7. NoOrphanReservation'
    <2> SUFFICES ASSUME NEW i \in registry', ~token'[i], ~Expired(i)
                 PROVE  \E g \in Handlers : Reserving(g, i)'
      BY <1>2 DEF NoOrphanReservation, TypeOK
    <2>1. i \in Ids /\ Untouched(i)
      BY DEF TypeOK
    <2> QED
      BY <1>3, <2>1 DEF ApprovalsInv, NoOrphanReservation, Untouched
  <1>8. PermitPerGrant'
    BY DEF ApprovalsInv, PermitPerGrant
  <1> QED
    BY <1>1, <1>4, <1>5, <1>6, <1>7, <1>8 DEF ApprovalsInv

(***************************************************************************)
(* The steps, one lemma each or one for a group of like steps              *)
(***************************************************************************)
LEMMA QuietSteps ==
    ASSUME ApprovalsInv, NEW h \in Handlers,
           \/ ApproveApproval(h) \/ ApproveFails(h) \/ CompareDigest(h)
           \/ ConsumeFails(h) \/ RegisterFails(h)
    PROVE  ApprovalsInv'
  <1>1. TypeOK /\ HandlerKnows(h) /\ hnd[h] \in Frame /\ hnd[h].id \in Ids
    BY DEF ApprovalsInv, TypeOK, Frame
  <1>2. UNCHANGED <<life, grants, record, now, registry, token, issued, here>>
    BY DEF ApproveApproval, ApproveFails, CompareDigest, ConsumeFails,
           RegisterFails
  <1>3. \A j \in Ids : Untouched(j)
    BY <1>2 DEF Untouched
  <1>4. CASE ApproveApproval(h)
    <2>1. PICK i \in Ids : Exists(i) /\ Call(h, "reserve", i, AnyDigest)
      BY <1>4 DEF ApproveApproval
    <2>2. /\ Moves(h) /\ hnd[h].pc = "idle"
          /\ hnd'[h] = [pc |-> "reserve", id |-> i, digest |-> AnyDigest]
      BY <1>1, <2>1, CallFacts, IdleFrameFacts DEF Steps
    <2>3. TypeOK'
      BY <1>1, <1>2, <2>1, <2>2 DEF TypeOK, Moves, Exists
    <2> QED
      BY <1>1, <1>2, <1>3, <2>2, <2>3, QuietStep
         DEF HandlerKnows, Reserving, Presenting, Granted
  <1>5. CASE ApproveFails(h)
    <2>1. /\ hnd[h].pc = "approve" /\ Moves(h) /\ hnd'[h].pc = "unreserve"
          /\ hnd'[h].id = hnd[h].id
      BY <1>1, <1>5, GotoFacts DEF ApproveFails, Steps
    <2>2. TypeOK'
      BY <1>1, <1>2, <2>1 DEF TypeOK, Moves, Exists
    <2> QED
      BY <1>1, <1>2, <1>3, <2>1, <2>2, QuietStep
         DEF HandlerKnows, Reserving, Presenting, Granted
  <1>6. CASE CompareDigest(h) /\ Goto(h, "consume")
    <2>1. /\ hnd[h].pc = "compare" /\ Moves(h) /\ hnd'[h].pc = "consume"
          /\ hnd'[h].id = hnd[h].id /\ hnd'[h].digest = hnd[h].digest
      BY <1>1, <1>6, GotoFacts DEF CompareDigest, Steps
    <2>2. hnd[h].digest = record[hnd[h].id].digest
      <3>1. CASE ~(hnd[h].digest = record[hnd[h].id].digest)
        BY <1>1, <1>6, <2>1, <3>1, ReturnFacts DEF CompareDigest
      <3> QED
        BY <3>1
    <2>3. TypeOK'
      BY <1>1, <1>2, <2>1 DEF TypeOK, Moves, Exists
    <2>4. HandlerKnows(h)'
      BY <1>1, <1>2, <2>1, <2>2 DEF HandlerKnows
    <2> QED
      BY <1>1, <1>2, <1>3, <2>1, <2>3, <2>4, QuietStep
         DEF Reserving, Presenting, Granted
  <1>7. CASE Return(h) /\ hnd[h].pc \in {"compare", "consume", "register"}
    <2>1. Moves(h) /\ hnd'[h].pc = "idle"
      BY <1>1, <1>7, ReturnFacts
    <2>2. TypeOK'
      BY <1>1, <1>2, <2>1 DEF TypeOK, Moves, Exists
    <2> QED
      BY <1>2, <1>3, <1>7, <2>1, <2>2, QuietStep
         DEF HandlerKnows, Reserving, Presenting, Granted
  <1> QED
    BY <1>4, <1>5, <1>6, <1>7 DEF CompareDigest, ConsumeFails, RegisterFails

LEMMA ConsumeCall ==
    ASSUME ApprovalsInv, NEW h \in Handlers, ConsumeApproval(h)
    PROVE  ApprovalsInv'
  <1>1. TypeOK /\ HandlerKnows(h) /\ hnd[h] \in Frame /\ hnd[h].id \in Ids
    BY DEF ApprovalsInv, TypeOK, Frame
  <1>2. /\ registry' \subseteq registry
        /\ token' \in [Ids -> BOOLEAN]
        /\ \A j \in Ids : token'[j] => j \in registry'
        /\ \A j \in Ids : Untouched(j)
    BY <1>1, PurgeFacts DEF ConsumeApproval
  <1>3. UNCHANGED <<life, grants, record, now, issued, here>>
    BY DEF ConsumeApproval
  <1>4. PICK i \in Ids, d \in Digests :
           \/ i \in Retained /\ token[i] /\ Call(h, "compare", i, d)
           \/ hnd[h].pc = "idle" /\ UNCHANGED hnd
    BY DEF ConsumeApproval
  <1>5. CASE i \in Retained /\ token[i] /\ Call(h, "compare", i, d)
    <2>1. /\ Moves(h) /\ hnd[h].pc = "idle"
          /\ hnd'[h] = [pc |-> "compare", id |-> i, digest |-> d]
      BY <1>1, <1>5, CallFacts DEF Steps
    <2>2. i \in registry /\ ~Expired(i) /\ LiveEntry(i)
      BY <1>5 DEF Retained, ApprovalsInv
    <2>3. TypeOK'
      BY <1>1, <1>2, <1>3, <2>1, <2>2 DEF TypeOK, Moves, Exists
    <2>4. HandlerKnows(h)'
      BY <1>3, <1>5, <2>1, <2>2 DEF HandlerKnows, LiveEntry
    <2> QED
      BY <1>2, <1>3, <1>5, <2>1, <2>3, <2>4, QuietStep
         DEF Reserving, Presenting, Granted
  <1>6. CASE hnd[h].pc = "idle" /\ UNCHANGED hnd
    <2>1. Moves(h) /\ hnd'[h] = hnd[h]
      BY <1>1, <1>6 DEF TypeOK, Moves
    <2>2. TypeOK'
      BY <1>1, <1>2, <1>3, <1>6 DEF TypeOK, Exists
    <2> QED
      BY <1>2, <1>3, <1>6, <2>1, <2>2, QuietStep
         DEF HandlerKnows, Reserving, Presenting, Granted
  <1> QED
    BY <1>4, <1>5, <1>6

(* A step on the entry of h's own approval: what is left to show is about  *)
(* that approval.                                                          *)
LEMMA EntryStep ==
    ASSUME ApprovalsInv, TypeOK', NEW h \in Handlers, Moves(h),
           UNCHANGED <<life, grants, record, now, issued, here>>,
           NEW i \in Ids, i = hnd[h].id,
           \A j \in Ids \ {i} : Untouched(j),
           \/ hnd'[h].pc = "idle"
           \/ hnd'[h].pc = "approve" /\ hnd'[h].id = i,
           LiveEntry(i)',
           i \in here /\ life[i] = "approved" /\ ~Expired(i) =>
              \/ token'[i]
              \/ \E g \in Handlers \ {h} : hnd[g].pc = "fulfill" /\ hnd[g].id = i,
           i \in registry' /\ ~token'[i] /\ ~Expired(i) =>
              \E g \in Handlers : Reserving(g, i)'
    PROVE  ApprovalsInv'
  <1>1. \A g \in Handlers : HandlerKnows(g)'
    BY OthersKnow DEF HandlerKnows, Granted
  <1>2. \A j \in Ids : Expired(j)' <=> Expired(j)
    BY DEF Expired
  <1>3. \A g \in Handlers, j \in Ids \ {i} :
           /\ Reserving(g, j)' <=> Reserving(g, j)
           /\ Presenting(g, j)' => Presenting(g, j)
           /\ Granted(g, j)' => Granted(g, j)
    BY DEF Moves, Reserving, Presenting, Granted
  <1>4. ASSUME NEW j \in Ids PROVE LiveEntry(j)'
    <2>1. CASE j # i
      <3>1. LiveEntry(j) /\ Untouched(j)
        BY <2>1 DEF ApprovalsInv
      <3> QED
        BY <1>2, <1>3, <2>1, <3>1 DEF LiveEntry, Untouched
    <2> QED
      BY <2>1
  <1>5. \A j \in Ids : Accounted(j)'
    BY DEF ApprovalsInv, Accounted
  <1>6. ApprovedHasToken'
    <2> SUFFICES ASSUME NEW j \in here, life[j] = "approved", ~Expired(j)
                 PROVE  \/ token'[j]
                        \/ \E g \in Handlers : /\ hnd'[g].pc = "fulfill"
                                               /\ hnd'[g].id = j
      BY <1>2 DEF ApprovedHasToken, ApprovalsInv, TypeOK
    <2>1. CASE j = i
      BY <2>1 DEF Moves
    <2>2. CASE j # i
      <3>1. j \in Ids /\ Untouched(j)
        BY <2>2 DEF ApprovalsInv, TypeOK
      <3>2. CASE token[j]
        BY <3>1, <3>2 DEF Untouched
      <3>3. CASE ~token[j]
        <4>1. PICK g \in Handlers : hnd[g].pc = "fulfill" /\ hnd[g].id = j
          BY <3>3 DEF ApprovalsInv, ApprovedHasToken
        <4> QED
          BY <2>2, <4>1 DEF Moves
      <3> QED
        BY <3>2, <3>3
    <2> QED
      BY <2>1, <2>2
  <1>7. NoOrphanReservation'
    <2> SUFFICES ASSUME NEW j \in registry', ~token'[j], ~Expired(j)
                 PROVE  \E g \in Handlers : Reserving(g, j)'
      BY <1>2 DEF NoOrphanReservation, TypeOK
    <2>1. CASE j # i
      <3>1. j \in Ids /\ Untouched(j)
        BY <2>1 DEF TypeOK
      <3> QED
        BY <1>3, <2>1, <3>1 DEF ApprovalsInv, NoOrphanReservation, Untouched
    <2> QED
      BY <2>1
  <1>8. PermitPerGrant'
    BY DEF ApprovalsInv, PermitPerGrant
  <1> QED
    BY <1>1, <1>4, <1>5, <1>6, <1>7, <1>8 DEF ApprovalsInv

LEMMA ReserveStep ==
    ASSUME ApprovalsInv, NEW h \in Handlers, Reserve(h)
    PROVE  ApprovalsInv'
  <1>0. PICK i \in Ids : i = hnd[h].id
    BY DEF ApprovalsInv, TypeOK, Frame
  <1>1. TypeOK /\ hnd[h] \in Frame /\ i \in Ids /\ hnd[h].pc = "reserve"
    BY <1>0 DEF ApprovalsInv, TypeOK, Frame, Reserve
  <1>2. /\ UNCHANGED <<life, grants, record, now, issued, here>>
        /\ token' = [j \in Ids |-> j \in Retained /\ token[j]]
    BY DEF Reserve
  <1>3. CASE Return(h) /\ registry' = Retained
    <2>1. Moves(h) /\ hnd'[h].pc = "idle"
      BY <1>0, <1>1, <1>3, ReturnFacts
    <2>2. /\ registry' \subseteq registry
          /\ token' \in [Ids -> BOOLEAN]
          /\ \A j \in Ids : token'[j] => j \in registry'
          /\ \A j \in Ids : Untouched(j)
      BY <1>0, <1>1, <1>2, <1>3, PurgeFacts
    <2>3. TypeOK'
      BY <1>0, <1>1, <1>2, <2>1, <2>2 DEF TypeOK, Moves, Exists
    <2> QED
      BY <1>0, <1>1, <1>2, <2>1, <2>2, <2>3, QuietStep
         DEF HandlerKnows, Reserving, Presenting, Granted
  <1>4. CASE /\ i \notin Retained
             /\ Goto(h, "approve") /\ registry' = Retained \cup {i}
    <2>1. Moves(h) /\ hnd'[h].pc = "approve" /\ hnd'[h].id = i
      BY <1>0, <1>1, <1>4, GotoFacts DEF Steps
    <2>2. \A j \in Ids \ {i} : Untouched(j)
      BY <1>0, <1>1, <1>2, <1>4 DEF TypeOK, Retained, Untouched
    <2>3. TypeOK'
      BY <1>0, <1>1, <1>2, <1>4, <2>1 DEF TypeOK, Moves, Exists, Retained
    <2>4. i \in registry' /\ ~token'[i] /\ Reserving(h, i)'
      BY <1>0, <1>1, <1>2, <1>4, <2>1 DEF Reserving
    <2>5. ~Expired(i) => i \notin registry /\ ~token[i]
      BY <1>0, <1>1, <1>4 DEF TypeOK, Retained
    <2>6. LiveEntry(i)'
      <3>1. LiveEntry(i)
        BY <1>0, <1>1 DEF ApprovalsInv
      <3>2. Expired(i)' <=> Expired(i)
        BY <1>2 DEF Expired
      <3>3. \A g \in Handlers \ {h} :
               /\ Reserving(g, i)' <=> Reserving(g, i)
               /\ Presenting(g, i)' <=> Presenting(g, i)
               /\ Granted(g, i)' <=> Granted(g, i)
        BY <2>1 DEF Moves, Reserving, Presenting, Granted
      <3>4. ~Presenting(h, i)' /\ ~Granted(h, i)'
        BY <2>1 DEF Presenting, Granted
      <3> QED
        BY <1>2, <2>4, <2>5, <3>1, <3>2, <3>3, <3>4 DEF LiveEntry
    <2>7. i \in here /\ life[i] = "approved" /\ ~Expired(i) =>
             \E g \in Handlers \ {h} : hnd[g].pc = "fulfill" /\ hnd[g].id = i
      BY <1>0, <1>1, <2>5 DEF ApprovalsInv, ApprovedHasToken
    <2> QED
      BY <1>0, <1>1, <1>2, <2>1, <2>2, <2>3, <2>4, <2>6, <2>7, EntryStep
  <1> QED
    BY <1>0, <1>3, <1>4 DEF Reserve

(* Ending a reservation, in either way, and removing a used token.         *)
LEMMA EndOfEntry ==
    ASSUME ApprovalsInv, NEW h \in Handlers,
           Unreserve(h) \/ Fulfill(h) \/ RemoveToken(h)
    PROVE  ApprovalsInv'
  <1>0. PICK i \in Ids : i = hnd[h].id
    BY DEF ApprovalsInv, TypeOK, Frame
  <1>1. /\ TypeOK /\ HandlerKnows(h) /\ i \in Ids
        /\ LiveEntry(i)
    BY <1>0 DEF ApprovalsInv, TypeOK, Frame
  <1>2. UNCHANGED <<life, grants, record, now, issued, here>>
    BY DEF Unreserve, Fulfill, RemoveToken
  <1>3. Moves(h) /\ hnd'[h].pc = "idle"
    BY <1>0, <1>1, ReturnFacts DEF Unreserve, Fulfill, RemoveToken
  <1>4. \A j \in Ids \ {i} : Untouched(j)
    BY <1>0, <1>1 DEF TypeOK, Unreserve, Fulfill, RemoveToken, Remove, Untouched
  <1>5. TypeOK'
    <2>1. /\ registry' \subseteq registry
          /\ token' \in [Ids -> BOOLEAN]
          /\ \A j \in Ids : token'[j] => j \in registry'
      <3>1. CASE Unreserve(h) \/ RemoveToken(h)
        BY <1>1, <3>1 DEF TypeOK, Unreserve, RemoveToken, Remove
      <3>2. CASE Fulfill(h)
        <4>1. /\ registry' = registry
              /\ token' = [token EXCEPT ![i] = i \in registry]
          BY <1>0, <3>2 DEF Fulfill
        <4>2. token' \in [Ids -> BOOLEAN]
          BY <1>1, <4>1 DEF TypeOK
        <4>3. ASSUME NEW j \in Ids, token'[j] PROVE j \in registry
          <5>1. CASE j = i
            BY <1>1, <4>1, <4>3, <5>1 DEF TypeOK
          <5>2. CASE j # i
            BY <1>1, <4>1, <4>3, <5>2 DEF TypeOK
          <5> QED
            BY <5>1, <5>2
        <4> QED
          BY <4>1, <4>2, <4>3
      <3> QED
        BY <3>1, <3>2
    <2> QED
      BY <1>1, <1>2, <1>3, <2>1 DEF TypeOK, Moves, Exists
  <1>6. Expired(i)' <=> Expired(i)
    BY <1>2 DEF Expired
  <1>7. /\ \A g \in Handlers \ {h} :
              /\ Reserving(g, i)' <=> Reserving(g, i)
              /\ Presenting(g, i)' <=> Presenting(g, i)
              /\ Granted(g, i)' <=> Granted(g, i)
        /\ ~Reserving(h, i)' /\ ~Presenting(h, i)' /\ ~Granted(h, i)'
    BY <1>3 DEF Moves, Reserving, Presenting, Granted
  <1>8. CASE Unreserve(h)
    <2>1. /\ hnd[h].pc = "unreserve" /\ Reserving(h, i)
          /\ i \notin registry' /\ ~token'[i]
      BY <1>0, <1>1, <1>8 DEF Unreserve, Remove, Reserving, TypeOK
    <2>2. ~Expired(i) => /\ ~token[i]
                         /\ \A g \in Handlers \ {h} : ~Reserving(g, i)
      BY <1>0, <1>1, <2>1 DEF LiveEntry
    <2>3. LiveEntry(i)'
      BY <1>0, <1>1, <1>2, <1>6, <1>7, <2>1, <2>2 DEF LiveEntry
    <2>4. ~(i \in here /\ life[i] = "approved" /\ ~Expired(i))
      BY <1>0, <2>1, <2>2 DEF ApprovalsInv, ApprovedHasToken, Reserving
    <2> QED
      BY <1>0, <1>1, <1>2, <1>3, <1>4, <1>5, <2>1, <2>3, <2>4, EntryStep
  <1>9. CASE Fulfill(h)
    <2>1. hnd[h].pc = "fulfill" /\ Reserving(h, i) /\ UNCHANGED registry
      BY <1>0, <1>9 DEF Fulfill, Reserving
    <2>2. ~Expired(i) => /\ token'[i]
                         /\ life[i] \in {"approved", "consumed"}
                         /\ \A g \in Handlers \ {h} : ~Reserving(g, i)
      BY <1>0, <1>1, <1>9, <2>1 DEF LiveEntry, HandlerKnows, Fulfill, TypeOK
    <2>3. LiveEntry(i)'
      BY <1>0, <1>1, <1>2, <1>6, <1>7, <2>1, <2>2 DEF LiveEntry
    <2> QED
      BY <1>0, <1>1, <1>2, <1>3, <1>4, <1>5, <2>2, <2>3, EntryStep
  <1>10. CASE RemoveToken(h)
    <2>1. /\ hnd[h].pc = "remove" /\ Granted(h, i) /\ life[i] = "consumed"
          /\ \A g \in Handlers \ {h} : ~Granted(g, i)
          /\ i \notin registry' /\ ~token'[i]
      BY <1>0, <1>1, <1>10 DEF RemoveToken, Remove, Granted, HandlerKnows, TypeOK
    <2>2. ~Expired(i) => \A g \in Handlers : ~Reserving(g, i)
      BY <1>0, <1>1, <2>1 DEF LiveEntry
    <2>3. LiveEntry(i)'
      BY <1>0, <1>1, <1>2, <1>6, <1>7, <2>1, <2>2 DEF LiveEntry
    <2> QED
      BY <1>0, <1>1, <1>2, <1>3, <1>4, <1>5, <2>1, <2>3, EntryStep
  <1> QED
    BY <1>8, <1>9, <1>10

(* The broker approves: the handler goes on to fulfill its reservation.    *)
LEMMA ApproveStep ==
    ASSUME ApprovalsInv, NEW h \in Handlers, BrokerApprove(h)
    PROVE  ApprovalsInv'
  <1>0. PICK i \in Ids : i = hnd[h].id
    BY DEF ApprovalsInv, TypeOK, Frame
  <1>1. /\ TypeOK /\ LiveEntry(i) /\ hnd[h].pc = "approve" /\ ~Expired(i)
        /\ Reserving(h, i) /\ life[i] = "pending"
    BY <1>0 DEF ApprovalsInv, BrokerApprove, Reserving, Decide
  <1>2. /\ UNCHANGED <<grants, record, now, registry, token, issued>>
        /\ life' = [life EXCEPT ![i] = "approved"]
        /\ here' = here \cup {i}
    BY <1>0 DEF BrokerApprove, Decide
  <1>3. Moves(h) /\ hnd'[h].pc = "fulfill" /\ hnd'[h].id = i
    BY <1>0, <1>1, GotoFacts DEF BrokerApprove, Steps
  <1>4. life' \in [Ids -> LifeStates] /\ life'[i] = "approved"
    BY <1>1, <1>2 DEF TypeOK, LifeStates, Active, Final
  <1>5. TypeOK'
    BY <1>1, <1>2, <1>3, <1>4 DEF TypeOK, Moves, Exists
  <1>6. \A j \in Ids : Expired(j)' <=> Expired(j)
    BY <1>2 DEF Expired
  <1>7. \A g \in Handlers, j \in Ids :
           /\ Reserving(g, j)' <=> Reserving(g, j)
           /\ Presenting(g, j)' <=> Presenting(g, j)
           /\ Granted(g, j)' <=> Granted(g, j)
    BY <1>0, <1>1, <1>3 DEF Moves, Reserving, Presenting, Granted
  <1>8. \A g \in Handlers : ~Presenting(g, i) /\ ~Granted(g, i)
    BY <1>1 DEF ApprovalsInv, HandlerKnows, Presenting, Granted
  <1>9. ASSUME NEW j \in Ids PROVE LiveEntry(j)'
    <2>1. LiveEntry(j)
      BY DEF ApprovalsInv
    <2>2. CASE j = i
      BY <1>1, <1>2, <1>4, <1>6, <1>7, <1>8, <2>2 DEF LiveEntry
    <2>3. CASE j # i
      BY <1>1, <1>2, <1>6, <1>7, <2>1, <2>3 DEF LiveEntry, TypeOK
    <2> QED
      BY <2>2, <2>3
  <1>10. \A j \in Ids : Accounted(j)'
    BY <1>1, <1>2 DEF ApprovalsInv, Accounted, TypeOK
  <1>11. ASSUME NEW g \in Handlers PROVE HandlerKnows(g)'
    <2>1. CASE g = h
      BY <1>3, <1>4, <2>1 DEF HandlerKnows
    <2>2. CASE g # h
      <3>1. hnd'[g] = hnd[g] /\ HandlerKnows(g) /\ hnd[g].id \in Ids
        BY <1>3, <2>2 DEF ApprovalsInv, TypeOK, Frame, Moves
      <3>2. CASE hnd[g].id = i
        BY <1>1, <1>2, <1>4, <1>7, <3>1, <3>2 DEF HandlerKnows
      <3>3. CASE hnd[g].id # i
        BY <1>1, <1>2, <1>7, <3>1, <3>3 DEF HandlerKnows, TypeOK
      <3> QED
        BY <3>2, <3>3
    <2> QED
      BY <2>1, <2>2
  <1>12. ApprovedHasToken'
    <2> SUFFICES ASSUME NEW j \in Ids, j \in here', life'[j] = "approved",
                        ~Expired(j)
                 PROVE  \/ token[j]
                        \/ \E g \in Handlers : /\ hnd'[g].pc = "fulfill"
                                               /\ hnd'[g].id = j
      BY <1>2, <1>5, <1>6 DEF ApprovedHasToken, TypeOK
    <2>1. CASE j = i
      BY <1>3, <2>1
    <2>2. CASE j # i
      <3>1. \/ token[j]
            \/ \E g \in Handlers : hnd[g].pc = "fulfill" /\ hnd[g].id = j
        BY <1>1, <1>2, <2>2 DEF ApprovalsInv, ApprovedHasToken, TypeOK
      <3> QED
        BY <1>0, <1>3, <2>2, <3>1 DEF Moves
    <2> QED
      BY <2>1, <2>2
  <1>13. NoOrphanReservation'
    BY <1>1, <1>2, <1>6, <1>7 DEF ApprovalsInv, NoOrphanReservation, TypeOK
  <1>14. PermitPerGrant'
    BY <1>2 DEF ApprovalsInv, PermitPerGrant
  <1> QED
    BY <1>5, <1>9, <1>10, <1>11, <1>12, <1>13, <1>14 DEF ApprovalsInv

(* The broker consumes: of the handlers that present the token, h is the   *)
(* one that gets the grant.                                                *)
LEMMA ConsumeStep ==
    ASSUME ApprovalsInv, NEW h \in Handlers, BrokerConsume(h)
    PROVE  ApprovalsInv'
  <1>0. PICK i \in Ids : i = hnd[h].id
    BY DEF ApprovalsInv, TypeOK, Frame
  <1>1. /\ TypeOK /\ LiveEntry(i) /\ Accounted(i) /\ HandlerKnows(h)
        /\ hnd[h].pc = "consume" /\ ~Expired(i)
        /\ Presenting(h, i) /\ life[i] = "approved"
    BY <1>0 DEF ApprovalsInv, BrokerConsume, Presenting, Exchange
  <1>2. /\ UNCHANGED <<record, now, registry, token, issued, here>>
        /\ life' = [life EXCEPT ![i] = "consumed"]
        /\ grants' = [grants EXCEPT ![i] = @ + 1]
    BY <1>0 DEF BrokerConsume, Exchange
  <1>3. /\ Moves(h) /\ hnd'[h].pc = "register" /\ hnd'[h].id = i
        /\ hnd'[h].digest = hnd[h].digest
    BY <1>0, <1>1, GotoFacts DEF BrokerConsume, Steps
  <1>4. /\ life' \in [Ids -> LifeStates] /\ life'[i] = "consumed"
        /\ grants' \in [Ids -> Nat] /\ grants[i] = 0 /\ grants'[i] = 1
    BY <1>1, <1>2 DEF TypeOK, Accounted, LifeStates, Active, Final
  <1>5. TypeOK'
    BY <1>1, <1>2, <1>3, <1>4 DEF TypeOK, Moves, Exists
  <1>6. \A j \in Ids : Expired(j)' <=> Expired(j)
    BY <1>2 DEF Expired
  <1>7. /\ \A g \in Handlers, j \in Ids :
              /\ Reserving(g, j)' <=> Reserving(g, j)
              /\ Presenting(g, j)' => Presenting(g, j)
        /\ \A g \in Handlers \ {h}, j \in Ids : Granted(g, j)' <=> Granted(g, j)
        /\ \A j \in Ids : Granted(h, j)' => j = i
    BY <1>0, <1>1, <1>3 DEF Moves, Reserving, Presenting, Granted
  <1>8. \A g \in Handlers : ~Granted(g, i)
    BY <1>1 DEF ApprovalsInv, HandlerKnows, Granted
  <1>9. token[i]
    BY <1>1 DEF LiveEntry
  <1>10. ASSUME NEW j \in Ids PROVE LiveEntry(j)'
    <2>1. LiveEntry(j)
      BY DEF ApprovalsInv
    <2>2. CASE j = i
      BY <1>1, <1>2, <1>4, <1>6, <1>7, <1>9, <2>2 DEF LiveEntry
    <2>3. CASE j # i
      BY <1>1, <1>2, <1>6, <1>7, <2>1, <2>3 DEF LiveEntry, TypeOK
    <2> QED
      BY <2>2, <2>3
  <1>11. \A d \in Digests : issued[i][d] = 0
    BY <1>1, <1>4 DEF Accounted, TypeOK
  <1>12. ASSUME NEW j \in Ids PROVE Accounted(j)'
    <2>1. CASE j = i
      BY <1>2, <1>4, <1>11, <2>1 DEF Accounted
    <2>2. CASE j # i
      BY <1>1, <1>2, <2>2 DEF ApprovalsInv, Accounted, TypeOK
    <2> QED
      BY <2>1, <2>2
  <1>13. ASSUME NEW g \in Handlers PROVE HandlerKnows(g)'
    <2>1. CASE g = h
      BY <1>0, <1>1, <1>2, <1>3, <1>4, <1>7, <1>8, <1>11, <2>1 DEF HandlerKnows
    <2>2. CASE g # h
      <3>1. hnd'[g] = hnd[g] /\ HandlerKnows(g) /\ hnd[g].id \in Ids
        BY <1>3, <2>2 DEF ApprovalsInv, TypeOK, Frame, Moves
      <3>2. CASE hnd[g].id = i
        <4>1. hnd[g].pc \notin {"register", "remove"}
          BY <1>8, <3>2 DEF Granted
        <4> QED
          BY <1>2, <1>4, <3>1, <3>2, <4>1 DEF HandlerKnows
      <3>3. CASE hnd[g].id # i
        BY <1>1, <1>2, <1>7, <3>1, <3>3 DEF HandlerKnows, TypeOK
      <3> QED
        BY <3>2, <3>3
    <2> QED
      BY <2>1, <2>2
  <1>14. ApprovedHasToken'
    <2> SUFFICES ASSUME NEW j \in here, life'[j] = "approved", ~Expired(j)
                 PROVE  \/ token[j]
                        \/ \E g \in Handlers : /\ hnd'[g].pc = "fulfill"
                                               /\ hnd'[g].id = j
      BY <1>2, <1>5, <1>6 DEF ApprovedHasToken, TypeOK
    <2>1. life[j] = "approved"
      BY <1>1, <1>2, <1>4 DEF TypeOK
    <2>2. \/ token[j]
          \/ \E g \in Handlers : hnd[g].pc = "fulfill" /\ hnd[g].id = j
      BY <2>1 DEF ApprovalsInv, ApprovedHasToken
    <2> QED
      BY <1>1, <1>3, <2>2 DEF Moves
  <1>15. NoOrphanReservation'
    BY <1>1, <1>2, <1>6, <1>7 DEF ApprovalsInv, NoOrphanReservation, TypeOK
  <1>16. PermitPerGrant'
    <2> SUFFICES ASSUME NEW j \in Ids, NEW d \in Digests, issued[j][d] > 0
                 PROVE  /\ d = record[j].digest
                        /\ issued[j][d] <= grants'[j]
                        /\ grants'[j] <= 1
      BY <1>2 DEF PermitPerGrant
    <2>1. j # i
      BY <1>11
    <2> QED
      BY <1>1, <1>2, <2>1 DEF ApprovalsInv, PermitPerGrant, TypeOK
  <1> QED
    BY <1>5, <1>10, <1>12, <1>13, <1>14, <1>15, <1>16 DEF ApprovalsInv

(* The permit enters its registry: the approval is the handler's alone and *)
(* has no permit yet.                                                      *)
LEMMA RegisterStep ==
    ASSUME ApprovalsInv, NEW h \in Handlers, RegisterPermit(h)
    PROVE  ApprovalsInv'
  <1>0. PICK i \in Ids, d \in Digests : i = hnd[h].id /\ d = hnd[h].digest
    BY DEF ApprovalsInv, TypeOK, Frame
  <1>1. /\ TypeOK /\ LiveEntry(i) /\ Accounted(i) /\ HandlerKnows(h)
        /\ hnd[h].pc = "register" /\ Granted(h, i) /\ d = record[i].digest
        /\ life[i] = "consumed" /\ grants[i] = 1 /\ issued[i][d] = 0
        /\ \A g \in Handlers \ {h} : ~Granted(g, i)
    BY <1>0 DEF ApprovalsInv, RegisterPermit, HandlerKnows, Accounted, Granted
  <1>2. /\ UNCHANGED <<life, grants, record, now, registry, token, here>>
        /\ issued' = [issued EXCEPT ![i][d] = @ + 1]
    BY <1>0 DEF RegisterPermit
  <1>3. /\ Moves(h) /\ hnd'[h].pc = "remove" /\ hnd'[h].id = i
        /\ hnd'[h].digest = d
    BY <1>0, <1>1, GotoFacts DEF RegisterPermit, Steps
  <1>4. /\ issued' \in [Ids -> [Digests -> Nat]]
        /\ issued'[i][d] = 1
        /\ \A j \in Ids, e \in Digests :
              j # i \/ e # d => issued'[j][e] = issued[j][e]
    BY <1>1, <1>2 DEF TypeOK
  <1>5. TypeOK'
    <2>1. \A g \in Handlers : hnd'[g].pc # "idle" => Exists(hnd'[g].id)
      BY <1>1, <1>3 DEF TypeOK, Moves, Exists
    <2>2. \A g \in Handlers : hnd'[g].pc # "idle" => Exists(hnd[g].id)'
      BY <1>2, <2>1 DEF Exists
    <2> QED
      BY <1>1, <1>2, <1>3, <1>4, <2>2 DEF TypeOK, Moves, Exists
  <1>6. \A j \in Ids : Expired(j)' <=> Expired(j)
    BY <1>2 DEF Expired
  <1>7. \A g \in Handlers, j \in Ids :
           /\ Reserving(g, j)' <=> Reserving(g, j)
           /\ Presenting(g, j)' <=> Presenting(g, j)
           /\ Granted(g, j)' <=> Granted(g, j)
    BY <1>0, <1>1, <1>3 DEF Moves, Reserving, Presenting, Granted
  <1>8. ASSUME NEW j \in Ids PROVE LiveEntry(j)'
    BY <1>2, <1>6, <1>7 DEF ApprovalsInv, LiveEntry
  <1>9. ASSUME NEW j \in Ids PROVE Accounted(j)'
    <2>1. Accounted(j)
      BY DEF ApprovalsInv
    <2>2. ASSUME NEW e \in Digests PROVE issued'[j][e] <= grants[j]
      <3>1. CASE j = i /\ e = d
        BY <1>1, <1>4, <3>1
      <3>2. CASE j # i \/ e # d
        BY <1>4, <2>1, <3>2 DEF Accounted
      <3> QED
        BY <3>1, <3>2
    <2> QED
      BY <1>2, <2>1, <2>2 DEF Accounted
  <1>10. ASSUME NEW g \in Handlers PROVE HandlerKnows(g)'
    <2>1. CASE g = h
      BY <1>1, <1>2, <1>3, <1>7, <2>1 DEF HandlerKnows
    <2>2. CASE g # h
      <3>1. hnd'[g] = hnd[g] /\ HandlerKnows(g) /\ hnd[g].id \in Ids
        BY <1>3, <2>2 DEF ApprovalsInv, TypeOK, Frame, Moves
      <3>2. hnd[g].pc \in {"register", "remove"} => hnd[g].id # i
        BY <1>1, <2>2 DEF Granted
      <3> QED
        BY <1>2, <1>4, <1>7, <3>1, <3>2 DEF HandlerKnows
    <2> QED
      BY <2>1, <2>2
  <1>11. ApprovedHasToken'
    <2> SUFFICES ASSUME NEW j \in here, life[j] = "approved", ~Expired(j)
                 PROVE  \/ token[j]
                        \/ \E g \in Handlers : hnd'[g].pc = "fulfill"
                                               /\ hnd'[g].id = j
      BY <1>2, <1>5, <1>6 DEF ApprovedHasToken, TypeOK
    <2>1. \/ token[j]
          \/ \E g \in Handlers : hnd[g].pc = "fulfill" /\ hnd[g].id = j
      BY DEF ApprovalsInv, ApprovedHasToken
    <2> QED
      BY <1>1, <1>3, <2>1 DEF Moves
  <1>12. NoOrphanReservation'
    BY <1>1, <1>2, <1>6, <1>7 DEF ApprovalsInv, NoOrphanReservation, TypeOK
  <1>13. PermitPerGrant'
    <2> SUFFICES ASSUME NEW j \in Ids, NEW e \in Digests, issued'[j][e] > 0
                 PROVE  /\ e = record[j].digest
                        /\ issued'[j][e] <= grants[j]
                        /\ grants[j] <= 1
      BY <1>2 DEF PermitPerGrant
    <2>1. CASE j = i /\ e = d
      BY <1>1, <1>4, <2>1
    <2>2. CASE j # i \/ e # d
      BY <1>4, <2>2 DEF ApprovalsInv, PermitPerGrant
    <2> QED
      BY <2>1, <2>2
  <1> QED
    BY <1>5, <1>8, <1>9, <1>10, <1>11, <1>12, <1>13 DEF ApprovalsInv

(***************************************************************************)
(* Steps that are not a handler's                                          *)
(***************************************************************************)

(* A new approval: nobody deals with it yet.                               *)
LEMMA RequestStep ==
    ASSUME ApprovalsInv, NEW i \in Ids, RequestApproval(i)
    PROVE  ApprovalsInv'
  <1>1. /\ TypeOK /\ life[i] = "absent" /\ Accounted(i)
        /\ \A h \in Handlers : hnd[h].id = i => hnd[h].pc = "idle"
        /\ i \notin registry /\ ~token[i]
    BY DEF ApprovalsInv, TypeOK, RequestApproval, Open, Exists
  <1>2. /\ UNCHANGED <<grants, now, registry, token, hnd, issued, here>>
        /\ life' = [life EXCEPT ![i] = "pending"]
    BY DEF RequestApproval, Open
  <1>3. PICK d \in Digests :
           record' = [record EXCEPT ![i] = [digest |-> d,
                                            expires_at |-> now + Ttl]]
    BY DEF RequestApproval
  <1>4. /\ life' \in [Ids -> LifeStates] /\ life'[i] = "pending"
        /\ record' \in [Ids -> Record]
        /\ \A j \in Ids \ {i} : life'[j] = life[j] /\ record'[j] = record[j]
    BY <1>1, <1>2, <1>3, GatewayApprovalsAssumption
       DEF TypeOK, Record, LifeStates, Active, Final
  <1>5. TypeOK'
    BY <1>1, <1>2, <1>4 DEF TypeOK, Exists
  <1>6. \A j \in Ids \ {i} : Expired(j)' <=> Expired(j)
    BY <1>2, <1>4 DEF Expired
  <1>7. \A h \in Handlers, j \in Ids :
           /\ Reserving(h, j)' <=> Reserving(h, j)
           /\ Presenting(h, j)' <=> Presenting(h, j)
           /\ Granted(h, j)' <=> Granted(h, j)
    BY <1>2 DEF Reserving, Presenting, Granted
  <1>8. \A h \in Handlers :
           ~Reserving(h, i) /\ ~Presenting(h, i) /\ ~Granted(h, i)
    BY <1>1 DEF Reserving, Presenting, Granted
  <1>9. ASSUME NEW j \in Ids PROVE LiveEntry(j)' /\ Accounted(j)'
    <2>1. LiveEntry(j) /\ Accounted(j)
      BY DEF ApprovalsInv
    <2>2. CASE j = i
      BY <1>1, <1>2, <1>4, <1>7, <1>8, <2>2 DEF LiveEntry, Accounted
    <2>3. CASE j # i
      BY <1>2, <1>4, <1>6, <1>7, <2>1, <2>3 DEF LiveEntry, Accounted
    <2> QED
      BY <2>2, <2>3
  <1>10. ASSUME NEW h \in Handlers PROVE HandlerKnows(h)'
    <2>1. HandlerKnows(h) /\ hnd[h].id \in Ids
      BY DEF ApprovalsInv, TypeOK, Frame
    <2>2. CASE hnd[h].id = i
      BY <1>1, <1>2, <2>2 DEF HandlerKnows
    <2>3. CASE hnd[h].id # i
      BY <1>2, <1>4, <1>7, <2>1, <2>3 DEF HandlerKnows
    <2> QED
      BY <2>2, <2>3
  <1>11. ApprovedHasToken'
    BY <1>1, <1>2, <1>4, <1>6 DEF ApprovalsInv, ApprovedHasToken, TypeOK
  <1>12. NoOrphanReservation'
    BY <1>1, <1>2, <1>6, <1>7 DEF ApprovalsInv, NoOrphanReservation, TypeOK
  <1>13. PermitPerGrant'
    <2> SUFFICES ASSUME NEW j \in Ids, NEW e \in Digests, issued[j][e] > 0
                 PROVE  /\ e = record'[j].digest
                        /\ issued[j][e] <= grants[j]
                        /\ grants[j] <= 1
      BY <1>2 DEF PermitPerGrant
    <2>1. j # i
      BY <1>1 DEF Accounted, TypeOK
    <2> QED
      BY <1>4, <2>1 DEF ApprovalsInv, PermitPerGrant
  <1> QED
    BY <1>5, <1>9, <1>10, <1>11, <1>12, <1>13 DEF ApprovalsInv

(* A pending approval is denied, or an active one found overdue.           *)
LEMMA LifeStep ==
    ASSUME ApprovalsInv, NEW i \in Ids, DenyApproval(i) \/ Overdue(i)
    PROVE  ApprovalsInv'
  <1>1. /\ TypeOK
        /\ life[i] \in {"pending", "approved"}
        /\ life[i] = "approved" => Expired(i)
    BY DEF ApprovalsInv, DenyApproval, Overdue, Decide, Lapse, Active
  <1>2. UNCHANGED <<grants, record, now, registry, token, hnd, issued, here>>
    BY DEF DenyApproval, Overdue, Decide, Lapse, gwVars
  <1>3. /\ life' \in [Ids -> LifeStates]
        /\ life'[i] \in {"denied", "expired"}
        /\ \A j \in Ids \ {i} : life'[j] = life[j]
        /\ life'[i] = "expired" \/ life[i] = "pending"
        /\ life'[i] = "expired" => Expired(i)
    BY <1>1 DEF TypeOK, DenyApproval, Overdue, Decide, Lapse, LifeStates,
                Active, Final
  <1>4. TypeOK'
    <2>1. \A j \in Ids : Exists(j)' <=> Exists(j)
      BY <1>1, <1>3 DEF Exists
    <2>2. \A h \in Handlers : hnd[h].id \in Ids
      BY <1>1 DEF TypeOK, Frame
    <2>3. \A h \in Handlers : hnd'[h].pc # "idle" => Exists(hnd[h].id)'
      BY <1>1, <1>2, <2>1, <2>2 DEF TypeOK, Exists
    <2>4. \A j \in registry' : Exists(j)'
      BY <1>1, <1>2, <2>1 DEF TypeOK
    <2> QED
      BY <1>1, <1>2, <1>3, <2>3, <2>4 DEF TypeOK
  <1>5. \A j \in Ids : Expired(j)' <=> Expired(j)
    BY <1>2 DEF Expired
  <1>6. \A h \in Handlers, j \in Ids :
           /\ Reserving(h, j)' <=> Reserving(h, j)
           /\ Presenting(h, j)' <=> Presenting(h, j)
           /\ Granted(h, j)' <=> Granted(h, j)
    BY <1>2 DEF Reserving, Presenting, Granted
  <1>7. ASSUME NEW j \in Ids PROVE LiveEntry(j)' /\ Accounted(j)'
    <2>1. LiveEntry(j) /\ Accounted(j)
      BY DEF ApprovalsInv
    <2>2. CASE j = i
      <3>1. Accounted(j)'
        BY <1>1, <1>2, <1>3, <2>1, <2>2 DEF Accounted
      <3>2. LiveEntry(j)'
        BY <1>1, <1>2, <1>3, <1>5, <1>6, <2>1, <2>2 DEF LiveEntry
      <3> QED
        BY <3>1, <3>2
    <2>3. CASE j # i
      BY <1>2, <1>3, <1>5, <1>6, <2>1, <2>3 DEF LiveEntry, Accounted
    <2> QED
      BY <2>2, <2>3
  <1>8. ASSUME NEW h \in Handlers PROVE HandlerKnows(h)'
    <2>1. HandlerKnows(h) /\ hnd[h].id \in Ids
      BY DEF ApprovalsInv, TypeOK, Frame
    <2>2. CASE hnd[h].id = i
      BY <1>1, <1>2, <1>3, <1>6, <2>1, <2>2 DEF HandlerKnows
    <2>3. CASE hnd[h].id # i
      BY <1>2, <1>3, <1>6, <2>1, <2>3 DEF HandlerKnows
    <2> QED
      BY <2>2, <2>3
  <1>9. ApprovedHasToken'
    BY <1>1, <1>2, <1>3, <1>5 DEF ApprovalsInv, ApprovedHasToken, TypeOK
  <1>10. NoOrphanReservation'
    BY <1>1, <1>2, <1>5, <1>6 DEF ApprovalsInv, NoOrphanReservation, TypeOK
  <1>11. PermitPerGrant'
    BY <1>2 DEF ApprovalsInv, PermitPerGrant
  <1> QED
    BY <1>4, <1>7, <1>8, <1>9, <1>10, <1>11 DEF ApprovalsInv

(* Time passes: what has expired stays so.                                 *)
LEMMA TickStep ==
    ASSUME ApprovalsInv, Tick
    PROVE  ApprovalsInv'
  <1>1. /\ TypeOK
        /\ now' = now + 1
        /\ UNCHANGED <<life, grants, record, registry, token, hnd, issued,
                       here>>
    BY DEF ApprovalsInv, Tick
  <1>2. TypeOK'
    BY <1>1 DEF TypeOK, Exists
  <1>3. \A i \in Ids : Expired(i) => Expired(i)'
    BY <1>1 DEF TypeOK, Record, Expired
  <1>4. \A h \in Handlers, i \in Ids :
           /\ Reserving(h, i)' <=> Reserving(h, i)
           /\ Presenting(h, i)' <=> Presenting(h, i)
           /\ Granted(h, i)' <=> Granted(h, i)
    BY <1>1 DEF Reserving, Presenting, Granted
  <1>5. \A i \in Ids : LiveEntry(i)' /\ Accounted(i)'
    BY <1>1, <1>3, <1>4 DEF ApprovalsInv, LiveEntry, Accounted
  <1>6. ASSUME NEW h \in Handlers PROVE HandlerKnows(h)'
    <2>1. HandlerKnows(h) /\ hnd[h].id \in Ids
      BY DEF ApprovalsInv, TypeOK, Frame
    <2> QED
      BY <1>1, <1>4, <2>1 DEF HandlerKnows
  <1>7. ApprovedHasToken'
    BY <1>1, <1>3 DEF ApprovalsInv, ApprovedHasToken, TypeOK
  <1>8. NoOrphanReservation'
    BY <1>1, <1>3, <1>4 DEF ApprovalsInv, NoOrphanReservation, TypeOK
  <1>9. PermitPerGrant'
    BY <1>1 DEF ApprovalsInv, PermitPerGrant
  <1> QED
    BY <1>2, <1>5, <1>6, <1>7, <1>8, <1>9 DEF ApprovalsInv

(* A restart forgets tokens and handlers together.                         *)
LEMMA RestartStep ==
    ASSUME ApprovalsInv, Restart
    PROVE  ApprovalsInv'
  <1>1. /\ TypeOK
        /\ registry' = {} /\ here' = {}
        /\ token' = [i \in Ids |-> FALSE]
        /\ hnd' = [h \in Handlers |-> IdleFrame]
        /\ UNCHANGED <<life, grants, record, now, issued>>
    BY DEF ApprovalsInv, Restart
  <1>2. \A h \in Handlers : hnd'[h] \in Frame /\ hnd'[h].pc = "idle"
    BY <1>1, IdleFrameFacts
  <1>3. TypeOK'
    BY <1>1, <1>2 DEF TypeOK, Exists
  <1>4. \A h \in Handlers, i \in Ids :
           ~Reserving(h, i)' /\ ~Presenting(h, i)' /\ ~Granted(h, i)'
    BY <1>2 DEF Reserving, Presenting, Granted
  <1>5. ASSUME NEW i \in Ids PROVE LiveEntry(i)' /\ Accounted(i)'
    <2>1. LiveEntry(i) /\ Accounted(i)
      BY DEF ApprovalsInv
    <2>2. Expired(i)' <=> Expired(i)
      BY <1>1 DEF Expired
    <2> QED
      BY <1>1, <1>4, <2>1, <2>2 DEF LiveEntry, Accounted
  <1>6. \A h \in Handlers : HandlerKnows(h)'
    BY <1>2 DEF HandlerKnows
  <1>7. ApprovedHasToken' /\ NoOrphanReservation'
    BY <1>1 DEF ApprovedHasToken, NoOrphanReservation
  <1>8. PermitPerGrant'
    BY <1>1 DEF ApprovalsInv, PermitPerGrant
  <1> QED
    BY <1>3, <1>5, <1>6, <1>7, <1>8 DEF ApprovalsInv

LEMMA StutterStep ==
    ASSUME ApprovalsInv, UNCHANGED vars
    PROVE  ApprovalsInv'
  BY DEF ApprovalsInv, vars, gwVars, TypeOK, LiveEntry, Accounted, HandlerKnows,
         ApprovedHasToken, NoOrphanReservation, PermitPerGrant, Expired, Exists,
         Reserving, Presenting, Granted

LEMMA InitInv == Init => ApprovalsInv
  <1> SUFFICES ASSUME Init PROVE ApprovalsInv
    OBVIOUS
  <1>1. \A h \in Handlers : hnd[h] \in Frame /\ hnd[h].pc = "idle"
    BY IdleFrameFacts DEF Init
  <1>2. TypeOK
    BY <1>1, IdleFrameFacts
       DEF Init, LifeInit, TypeOK, LifeStates, Record, Exists
  <1>3. \A i \in Ids : LiveEntry(i)
    BY DEF Init, LiveEntry, Expired
  <1>4. \A i \in Ids : Accounted(i)
    <2> SUFFICES ASSUME NEW i \in Ids PROVE Accounted(i)
      OBVIOUS
    <2>1. life[i] = "absent" /\ grants[i] = 0
      BY DEF Init, LifeInit
    <2>2. \A d \in Digests : issued[i][d] = 0
      BY DEF Init
    <2> QED
      BY <2>1, <2>2 DEF Accounted
  <1>5. \A h \in Handlers : HandlerKnows(h)
    BY <1>1 DEF HandlerKnows
  <1>6. ApprovedHasToken /\ NoOrphanReservation /\ PermitPerGrant
    BY DEF Init, ApprovedHasToken, NoOrphanReservation, PermitPerGrant
  <1> QED
    BY <1>2, <1>3, <1>4, <1>5, <1>6 DEF ApprovalsInv

(* Whatever the handlers, the command line and the clock do, the entries   *)
(* of the token registry have owners, handlers know what they rely on and  *)
(* permits are accounted for (ApprovalsInv).                               *)
THEOREM ApprovalsInvariance == Spec => []ApprovalsInv
  <1>1. ApprovalsInv /\ [Next]_vars => ApprovalsInv'
    <2> SUFFICES ASSUME ApprovalsInv, [Next]_vars PROVE ApprovalsInv'
      OBVIOUS
    <2>1. ASSUME NEW h \in Handlers, Step(h) PROVE ApprovalsInv'
      BY <2>1, QuietSteps, ConsumeCall, ReserveStep, EndOfEntry, ApproveStep,
         ConsumeStep, RegisterStep DEF Step
    <2>2. ASSUME NEW i \in Ids,
                 RequestApproval(i) \/ DenyApproval(i) \/ Overdue(i)
          PROVE  ApprovalsInv'
      BY <2>2, RequestStep, LifeStep
    <2>3. CASE Restart \/ Tick
      BY <2>3, RestartStep, TickStep
    <2>4. CASE UNCHANGED vars
      BY <2>4, StutterStep
    <2> QED
      BY <2>1, <2>2, <2>3, <2>4 DEF Next
  <1> QED
    BY InitInv, <1>1, PTL DEF Spec

(* An approval granted by this gateway process keeps its token until it is *)
(* consumed or expires (approve_approval, ApprovalTokenRegistry).          *)
THEOREM GrantedKeepsToken == Spec => []ApprovedHasToken
  <1>1. ApprovalsInv => ApprovedHasToken
    BY DEF ApprovalsInv
  <1> QED
    BY <1>1, ApprovalsInvariance, PTL

(* No failed approve leaves a reservation that refuses the next one.       *)
THEOREM ReservationsHaveOwners == Spec => []NoOrphanReservation
  <1>1. ApprovalsInv => NoOrphanReservation
    BY DEF ApprovalsInv
  <1> QED
    BY <1>1, ApprovalsInvariance, PTL

(* An approval gives at most one permit, for the request that was approved *)
(* (consume_approval of the gateway and of the runtime).                   *)
THEOREM OnePermitPerApproval == Spec => []PermitPerGrant
  <1>1. ApprovalsInv => PermitPerGrant
    BY DEF ApprovalsInv
  <1> QED
    BY <1>1, ApprovalsInvariance, PTL

(* Only a handler whose client presented the approved request consumes an  *)
(* approval (the digest check before the broker's consume).                *)
THEOREM MismatchIsHarmless == Spec => MismatchKeepsApproval
  <1> DEFINE Harmless ==
        \A i \in Ids :
           life[i] # "consumed" /\ life'[i] = "consumed" =>
              \E h \in Handlers : /\ hnd[h].pc = "consume"
                                  /\ hnd[h].id = i
                                  /\ hnd[h].digest = record[i].digest
  <1>1. ApprovalsInv /\ [Next]_vars => [Harmless]_vars
    <2> SUFFICES ASSUME ApprovalsInv, Next, NEW i \in Ids,
                        life[i] # "consumed", life'[i] = "consumed"
                 PROVE  \E h \in Handlers : /\ hnd[h].pc = "consume"
                                            /\ hnd[h].id = i
                                            /\ hnd[h].digest = record[i].digest
      BY DEF vars
    <2>1. life \in [Ids -> LifeStates] /\ TypeOK
      BY DEF ApprovalsInv, TypeOK
    <2>2. PICK h \in Handlers : BrokerConsume(h)
      <3>1. ASSUME NEW h \in Handlers, Step(h) PROVE BrokerConsume(h)
        <4>1. CASE BrokerApprove(h)
          BY <2>1, <4>1 DEF BrokerApprove, Decide, TypeOK, Frame
        <4> QED
          BY <3>1, <4>1 DEF Step, ApproveApproval, Reserve, ApproveFails,
             Unreserve, Fulfill, ConsumeApproval, CompareDigest, ConsumeFails,
             RegisterPermit, RegisterFails, RemoveToken
      <3>2. ASSUME NEW j \in Ids,
                   RequestApproval(j) \/ DenyApproval(j) \/ Overdue(j)
            PROVE  FALSE
        BY <2>1, <3>2 DEF RequestApproval, DenyApproval, Overdue, Open, Decide,
                          Lapse
      <3>3. ~Restart /\ ~Tick
        BY DEF Restart, Tick
      <3> QED
        BY <3>1, <3>2, <3>3 DEF Next
    <2>3. hnd[h].pc = "consume" /\ hnd[h].id = i
      BY <2>1, <2>2 DEF BrokerConsume, Exchange, TypeOK, Frame
    <2>4. HandlerKnows(h)
      BY DEF ApprovalsInv
    <2> QED
      BY <2>3, <2>4 DEF HandlerKnows
  <1> QED
    BY <1>1, ApprovalsInvariance, PTL DEF Spec, MismatchKeepsApproval

(* The token registry never holds more entries than MAX_ISSUED_PERMITS:    *)
(* only reserve adds one, and it counts what it kept.                      *)
THEOREM TokenRegistryBounded == Spec => []TokensBounded
  <1> DEFINE Bounded == IsFiniteSet(registry) /\ TokensBounded
  <1>1. Init => Bounded
    BY FS_EmptySet, GatewayApprovalsAssumption DEF Init, TokensBounded
  <1>2. Bounded /\ [Next]_vars => Bounded'
    <2> SUFFICES ASSUME Bounded, [Next]_vars PROVE Bounded'
      OBVIOUS
    <2>1. ASSUME NEW R, R \subseteq registry
          PROVE  /\ IsFiniteSet(R) /\ Cardinality(R) \in Nat
                 /\ Cardinality(R) <= MaxTokens
      <3>1. /\ IsFiniteSet(R) /\ Cardinality(R) <= Cardinality(registry)
            /\ Cardinality(R) \in Nat /\ Cardinality(registry) \in Nat
        BY <2>1, FS_Subset, FS_CardinalityType
      <3> QED
        BY <3>1, GatewayApprovalsAssumption DEF TokensBounded
    <2>2. CASE registry' \subseteq registry
      BY <2>1, <2>2 DEF TokensBounded
    <2>3. ASSUME NEW h \in Handlers, Reserve(h) PROVE Bounded'
      <3>1. CASE registry' = Retained
        BY <2>2, <3>1 DEF Retained
      <3>2. CASE /\ registry' = Retained \cup {hnd[h].id}
                 /\ hnd[h].id \notin Retained
                 /\ ~(Cardinality(Retained) >= MaxTokens)
        <4>1. IsFiniteSet(Retained) /\ Cardinality(Retained) \in Nat
          BY <2>1 DEF Retained
        <4>2. /\ IsFiniteSet(registry')
              /\ Cardinality(registry') = Cardinality(Retained) + 1
          BY <3>2, <4>1, FS_AddElement
        <4> QED
          BY <3>2, <4>1, <4>2, GatewayApprovalsAssumption DEF TokensBounded
      <3> QED
        BY <2>3, <3>1, <3>2 DEF Reserve
    <2>4. ASSUME NEW h \in Handlers, Step(h) PROVE Bounded'
      <3>1. CASE ~Reserve(h)
        <4>1. registry' \subseteq registry
          BY <2>4, <3>1 DEF Step, ApproveApproval, BrokerApprove, ApproveFails,
             Unreserve, Fulfill, ConsumeApproval, CompareDigest, BrokerConsume,
             ConsumeFails, RegisterPermit, RegisterFails, RemoveToken, Remove,
             Retained
        <4> QED
          BY <2>2, <4>1
      <3> QED
        BY <2>3, <3>1
    <2>5. ASSUME ~(\E h \in Handlers : Step(h)) PROVE Bounded'
      <3>1. registry' \subseteq registry
        BY <2>5 DEF Next, RequestApproval, DenyApproval, Overdue, Restart,
                    Tick, vars, gwVars
      <3> QED
        BY <2>2, <3>1
    <2> QED
      BY <2>4, <2>5
  <1>3. Bounded => TokensBounded
    OBVIOUS
  <1> QED
    BY <1>1, <1>2, <1>3, PTL DEF Spec
===========================================================================
