-------------------------- MODULE AuditChain_proof --------------------------
(***************************************************************************)
(* Proofs about the audit store, for any number of writers, any bounds and *)
(* faults, and any damage.                                                 *)
(***************************************************************************)
EXTENDS AuditChain, FiniteSetTheorems, WellFoundedInduction, TLAPS

----------------------------------------------------------------------------
(* Sequences and sets of places                                            *)

(* A set of numbers below a bound that is not empty has a largest element. *)
LEMMA LargestExists ==
    ASSUME NEW N \in Nat, NEW S, S \subseteq 0 .. N, S # {}
    PROVE  \E n \in S : \A m \in S : m <= n
<1> DEFINE T == {N - m : m \in S}
<1>1. T \subseteq Nat /\ T # {}
  <2>1. \A m \in S : N - m \in Nat
    OBVIOUS
  <2>2. PICK m \in S : TRUE
    OBVIOUS
  <2>3. N - m \in T
    BY <2>2
  <2> QED
    BY <2>1, <2>3
<1>2. \E x \in T : \A y \in T : ~ (<<y, x>> \in OpToRel(<, Nat))
  BY <1>1, NatLessThanWellFounded, WFMin
<1>3. PICK x \in T : \A y \in T : ~ (<<y, x>> \in OpToRel(<, Nat))
  BY <1>2
<1>4. \A y \in T : ~ (y < x)
  BY <1>1, <1>3 DEF OpToRel
<1>5. PICK n \in S : x = N - n
  BY <1>3
<1>6. \A m \in S : ~ (N - m < N - n)
  BY <1>4, <1>5
<1> QED
  BY <1>6

(* Last is that element.                                                   *)
LEMMA LastIsLargest ==
    ASSUME NEW N \in Nat, NEW S, S \subseteq 0 .. N, S # {}
    PROVE  Last(S) \in S /\ \A m \in S : m <= Last(S)
<1>1. \E n \in S : \A m \in S : m <= n
  BY LargestExists
<1> QED
  BY <1>1 DEF Last

(* The last of the places 1 to k is k.                                     *)
LEMMA LastOfInterval ==
    ASSUME NEW k \in Nat \ {0}
    PROVE  Last(1 .. k) = k
<1>1. 1 .. k \subseteq 0 .. k /\ 1 .. k # {} /\ k \in 1 .. k
  OBVIOUS
<1>2. Last(1 .. k) \in 1 .. k /\ \A m \in 1 .. k : m <= Last(1 .. k)
  BY <1>1, LastIsLargest
<1> QED
  BY <1>1, <1>2

(* A hash tells what went into it last.                                    *)
LEMMA HashesDiffer ==
    ASSUME NEW s \in Digest, NEW t \in Digest, NEW x \in Nat \X Bytes,
           NEW y \in Nat \X Bytes, Append(s, x) = Append(t, y)
    PROVE  x = y
<1>1. Len(Append(s, x)) = Len(s) + 1 /\ Len(Append(t, y)) = Len(t) + 1
  BY DEF Digest
<1>2. Len(s) = Len(t)
  BY <1>1 DEF Digest
<1>3. Append(s, x)[Len(s) + 1] = x /\ Append(t, y)[Len(t) + 1] = y
  BY DEF Digest
<1> QED
  BY <1>2, <1>3

(* A hash that something went into is not the genesis hash.                *)
LEMMA NotGenesis ==
    ASSUME NEW s \in Digest, NEW x \in Nat \X Bytes
    PROVE  Append(s, x) \in Digest /\ Append(s, x) # Genesis
  BY DEF Digest, Genesis

(* The kinds of hashes.                                                    *)
LEMMA HashTypes ==
    /\ Genesis \in Digest /\ Digest \subseteq Hash
    /\ Malformed \in Hash /\ Malformed \notin Digest
    /\ Junk \subseteq Digest
  BY AuditAssumption DEF Digest, Hash, Genesis

----------------------------------------------------------------------------
(* Types                                                                   *)

(* The canonical bytes of an event in place n.                             *)
LEMMA EncodingTypes ==
    ASSUME NEW n \in Nat, NEW b \in Bodies
    PROVE  <<n, Encoding[b]>> \in Nat \X Bytes
<1>1. Encoding[b] \in Bytes
  BY AuditAssumption
<1> QED
  BY <1>1

(* What append stores is a row that continues the hash it was given.       *)
LEMMA RowTypes ==
    ASSUME NEW n \in Nat, NEW b \in Bodies, NEW h \in Digest
    PROVE  /\ NewRow(n, b, h) \in Row
           /\ NewRow(n, b, h).body = b
           /\ NewRow(n, b, h).previous_hash = h
           /\ NewRow(n, b, h).current_hash = Append(h, <<n, Encoding[b]>>)
<1>1. Append(h, <<n, Encoding[b]>>) \in Digest
  BY NotGenesis, EncodingTypes
<1> QED
  BY <1>1, HashTypes DEF NewRow, Row, Compute, encode_canonical

(* The frame of a writer that is in no call.                               *)
LEMMA IdleTypes == IdleFrame \in Frame /\ IdleFrame.pc = "idle"
  BY HashTypes DEF IdleFrame, Frame, Steps

(* The table has finitely many rows.                                       *)
LEMMA StoredFinite ==
    ASSUME TypeOK
    PROVE  IsFiniteSet(Stored) /\ Cardinality(Stored) \in Nat
<1>1. IsFiniteSet(1 .. MaxI64)
  BY FS_Interval, AuditAssumption
<1> QED
  BY <1>1, FS_Subset, FS_CardinalityType DEF TypeOK

(* The largest place that is in use.                                       *)
LEMMA LastStored ==
    ASSUME TypeOK, Stored # {}
    PROVE  /\ Last(Stored) \in Stored /\ Last(Stored) \in 1 .. MaxI64
           /\ \A m \in Stored : m <= Last(Stored)
<1>1. Stored \subseteq 0 .. MaxI64 /\ MaxI64 \in Nat
  BY AuditAssumption DEF TypeOK
<1> QED
  BY <1>1, LastIsLargest DEF TypeOK

(* The steps that leave table, answers, checkpoint and damage alone.       *)
LEMMA CallKeepsTypes ==
    ASSUME TypeOK, wr' \in [Writers -> Frame], dbLock' \in Writers \cup {NoWriter},
           UNCHANGED <<table, answers, checkpoint, damage>>
    PROVE  TypeOK'
  BY DEF TypeOK, Stored

(* Going to another step, or returning, gives a frame.                     *)
LEMMA FrameSteps ==
    ASSUME TypeOK, NEW w \in Writers
    PROVE  /\ wr[w] \in Frame
           /\ \A step \in Steps : [wr EXCEPT ![w].pc = step] \in [Writers -> Frame]
           /\ [wr EXCEPT ![w] = IdleFrame] \in [Writers -> Frame]
<1>1. wr \in [Writers -> Frame] /\ wr[w] \in Frame
  BY DEF TypeOK
<1>2. \A step \in Steps : [wr[w] EXCEPT !.pc = step] \in Frame
  BY <1>1 DEF Frame
<1>3. \A step \in Steps : [wr EXCEPT ![w].pc = step] \in [Writers -> Frame]
  BY <1>1, <1>2
<1> QED
  BY <1>1, <1>3, IdleTypes

(* A step that returns or moves its writer to another place in its call.   *)
LEMMA MoveKeepsTypes ==
    ASSUME TypeOK, NEW w \in Writers,
           Return(w) \/ \E step \in Steps : Goto(w, step),
           dbLock' \in Writers \cup {NoWriter},
           UNCHANGED <<table, answers, checkpoint, damage>>
    PROVE  TypeOK'
<1>1. wr' \in [Writers -> Frame]
  BY FrameSteps DEF Return, Goto
<1> QED
  BY <1>1, CallKeepsTypes

(* Reading the latest event keeps the types.                               *)
LEMMA ReadLatestKeepsTypes ==
    ASSUME TypeOK, NEW w \in Writers, ReadLatest(w)
    PROVE  TypeOK'
<1>1. CASE Rollback(w)
  BY <1>1, MoveKeepsTypes DEF ReadLatest, Rollback
<1>2. CASE \E n \in Nat, h \in Hash :
              wr' = [wr EXCEPT ![w].pc = "insert", ![w].sequence = n, ![w].hash = h]
           /\ UNCHANGED dbLock
  <2>1. PICK n \in Nat, h \in Hash :
              wr' = [wr EXCEPT ![w].pc = "insert", ![w].sequence = n, ![w].hash = h]
    BY <1>2
  <2>2. wr[w] \in Frame /\ wr \in [Writers -> Frame]
    BY DEF TypeOK
  <2>3. [wr[w] EXCEPT !.pc = "insert", !.sequence = n, !.hash = h] \in Frame
    BY <2>2 DEF Frame, Steps
  <2>4. wr' = [wr EXCEPT ![w] = [wr[w] EXCEPT !.pc = "insert", !.sequence = n, !.hash = h]]
    BY <2>1, <2>2
  <2>5. wr' \in [Writers -> Frame]
    BY <2>2, <2>3, <2>4
  <2> QED
    BY <1>2, <2>5, CallKeepsTypes DEF ReadLatest, TypeOK
<1>3. Stored # {} => /\ Last(Stored) + 1 \in Nat
                     /\ table[Last(Stored)].current_hash \in Hash
  <2>1. SUFFICES ASSUME Stored # {} PROVE /\ Last(Stored) + 1 \in Nat
                                          /\ table[Last(Stored)].current_hash \in Hash
    OBVIOUS
  <2>2. Last(Stored) \in Stored /\ Last(Stored) \in 1 .. MaxI64
    BY <2>1, LastStored
  <2>3. table[Last(Stored)] \in Row
    BY <2>2 DEF TypeOK
  <2> QED
    BY <2>2, <2>3, AuditAssumption DEF Row
<1>4. Genesis \in Hash
  BY HashTypes
<1>5. \/ Rollback(w)
      \/ /\ wr' = [wr EXCEPT ![w].pc = "insert", ![w].sequence = 1, ![w].hash = Genesis]
         /\ UNCHANGED dbLock
      \/ /\ Stored # {}
         /\ wr' = [wr EXCEPT ![w].pc = "insert", ![w].sequence = Last(Stored) + 1,
                             ![w].hash = table[Last(Stored)].current_hash]
         /\ UNCHANGED dbLock
  BY DEF ReadLatest
<1> QED
  BY <1>1, <1>2, <1>3, <1>4, <1>5

(* What is known of a writer that is about to insert.                      *)
LEMMA InsertKnows ==
    ASSUME TypeOK, LatestStaysLatest, NEW w \in Writers, wr[w].pc = "insert"
    PROVE  /\ wr[w].body \in Bodies /\ wr[w].hash \in Digest
           /\ wr[w].sequence \in Nat \ {0}
           /\ \A n \in Stored : n < wr[w].sequence
<1>1. wr[w] \in Frame
  BY DEF TypeOK
<1>2. wr[w].hash \in Digest
  BY <1>1, HashTypes DEF LatestStaysLatest, Frame, Hash
<1>3. wr[w].sequence \in Nat \ {0}
  <2>1. CASE Stored = {}
    BY <2>1 DEF LatestStaysLatest
  <2>2. CASE Stored # {}
    BY <2>2, LastStored DEF LatestStaysLatest
  <2> QED
    BY <2>1, <2>2
<1> QED
  BY <1>2, <1>3 DEF LatestStaysLatest

(* The table after an insert.                                              *)
LEMMA InsertTable ==
    ASSUME TypeOK, LatestStaysLatest, NEW w \in Writers, InsertCommit(w)
    PROVE  \E n \in 1 .. MaxI64, b \in Bodies, h \in Digest :
              /\ n = wr[w].sequence /\ b = wr[w].body /\ h = wr[w].hash
              /\ \A m \in Stored : m < n
              /\ DOMAIN table' = Stored \cup {n}
              /\ table' \in [Stored \cup {n} -> Row]
              /\ \A m \in Stored : table'[m] = table[m]
              /\ table'[n] = NewRow(n, b, h)
<1>1. wr[w].pc = "insert" /\ wr[w].sequence <= MaxI64
  BY DEF InsertCommit
<1>2. PICK n, b, h : n = wr[w].sequence /\ b = wr[w].body /\ h = wr[w].hash
  OBVIOUS
<1>3. /\ n \in 1 .. MaxI64 /\ b \in Bodies /\ h \in Digest
      /\ \A m \in Stored : m < n
  BY <1>1, <1>2, InsertKnows, AuditAssumption
<1>4. table' = [m \in Stored \cup {n} |-> IF m = n THEN NewRow(n, b, h) ELSE table[m]]
  BY <1>2 DEF InsertCommit, Insert
<1>5. NewRow(n, b, h) \in Row
  BY <1>3, RowTypes
<1>6. \A m \in Stored : m # n /\ table[m] \in Row
  BY <1>3 DEF TypeOK
<1> QED
  BY <1>2, <1>3, <1>4, <1>5, <1>6

(* Insert and commit keep the types.                                       *)
LEMMA InsertKeepsTypes ==
    ASSUME TypeOK, LatestStaysLatest, NEW w \in Writers, InsertCommit(w)
    PROVE  TypeOK'
<1>1. wr' \in [Writers -> Frame]
  BY FrameSteps DEF InsertCommit, Goto, Steps
<1>2. PICK n \in 1 .. MaxI64 : /\ DOMAIN table' = Stored \cup {n}
                               /\ table' \in [Stored \cup {n} -> Row]
  BY InsertTable
<1> QED
  BY <1>1, <1>2 DEF TypeOK, Stored, InsertCommit

(* The end of a call keeps the types.                                      *)
LEMMA ReturnKeepsTypes ==
    ASSUME TypeOK, LatestStaysLatest, NEW w \in Writers, ReturnSummary(w)
    PROVE  TypeOK'
<1>1. wr' \in [Writers -> Frame]
  BY FrameSteps DEF ReturnSummary, Return
<1>2. wr[w].sequence \in Nat /\ wr[w].body \in Bodies
  BY DEF TypeOK, Frame, LatestStaysLatest, ReturnSummary
<1>3. answers' \subseteq Nat \X Bodies
  BY <1>2 DEF TypeOK, ReturnSummary
<1> QED
  BY <1>1, <1>3 DEF TypeOK, Stored, ReturnSummary

(* A new append keeps the types.                                           *)
LEMMA CallAppendKeepsTypes ==
    ASSUME TypeOK, NEW w \in Writers, CallAppend(w)
    PROVE  TypeOK'
<1>1. PICK b \in Bodies :
         wr' = [wr EXCEPT ![w] = [IdleFrame EXCEPT !.pc = "begin", !.body = b]]
  BY DEF CallAppend
<1>2. [IdleFrame EXCEPT !.pc = "begin", !.body = b] \in Frame
  BY IdleTypes DEF Frame, Steps
<1>3. wr' \in [Writers -> Frame]
  BY <1>1, <1>2 DEF TypeOK
<1> QED
  BY <1>3, CallKeepsTypes DEF CallAppend, TypeOK

(* The first statement of create_checkpoint keeps the types.               *)
LEMMA CheckpointLatestKeepsTypes ==
    ASSUME TypeOK, NEW w \in Writers, CheckpointLatest(w)
    PROVE  TypeOK'
<1>1. PICK n, h :
         /\ n = IF Stored = {} THEN 0 ELSE Last(Stored)
         /\ h = IF Stored = {} THEN Genesis ELSE table[Last(Stored)].current_hash
  OBVIOUS
<1>2. n \in Nat /\ h \in Hash
  <2>1. CASE Stored = {}
    BY <1>1, <2>1, HashTypes
  <2>2. CASE Stored # {}
    <3>1. Last(Stored) \in Stored /\ Last(Stored) \in Nat
      BY <2>2, LastStored, AuditAssumption
    <3>2. table[Last(Stored)] \in Row
      BY <3>1 DEF TypeOK
    <3> QED
      BY <1>1, <2>2, <3>1, <3>2 DEF Row
  <2> QED
    BY <2>1, <2>2
<1>3. wr' = [wr EXCEPT ![w] = [IdleFrame EXCEPT !.pc = "count", !.sequence = n, !.hash = h]]
  BY <1>1 DEF CheckpointLatest
<1>4. [IdleFrame EXCEPT !.pc = "count", !.sequence = n, !.hash = h] \in Frame
  BY <1>2, IdleTypes DEF Frame, Steps
<1>5. wr' \in [Writers -> Frame]
  BY <1>3, <1>4 DEF TypeOK
<1> QED
  BY <1>5, CallKeepsTypes DEF CheckpointLatest, TypeOK

(* The second statement of create_checkpoint keeps the types.              *)
LEMMA CheckpointCountKeepsTypes ==
    ASSUME TypeOK, NEW w \in Writers, CheckpointCount(w)
    PROVE  TypeOK'
<1>1. wr' \in [Writers -> Frame]
  BY FrameSteps DEF CheckpointCount, Return
<1>2. wr[w].sequence \in Nat /\ wr[w].hash \in Hash
  BY DEF TypeOK, Frame
<1>3. checkpoint' \in Checkpoints
  BY <1>2, StoredFinite DEF CheckpointCount, Checkpoints
<1> QED
  BY <1>1, <1>3 DEF TypeOK, Stored, CheckpointCount

(* Damage leaves rows of some kind.                                        *)
LEMMA DamageKeepsTypes ==
    ASSUME TypeOK, NEW kind \in Kinds, NEW n \in Nat, Damage(kind, n),
           DOMAIN table' \subseteq 1 .. MaxI64, table' \in [DOMAIN table' -> Row]
    PROVE  TypeOK'
  BY DEF TypeOK, Stored, Damage

(* Damage from outside keeps the types.                                    *)
LEMMA TamperKeepsTypes ==
    ASSUME TypeOK, Tamper
    PROVE  TypeOK'
<1>1. \A n \in Stored : n \in 1 .. MaxI64 /\ n \in Nat /\ table[n] \in Row
  BY AuditAssumption DEF TypeOK
<1>2. ASSUME NEW n \in Stored, DamageColumn(n) PROVE TypeOK'
  <2>1. \/ \E b \in Bodies \cup {Unreadable} : table' = [table EXCEPT ![n].body = b]
        \/ \E h \in Hash : table' = [table EXCEPT ![n].previous_hash = h]
        \/ \E h \in Hash : table' = [table EXCEPT ![n].current_hash = h]
    BY <1>2, HashTypes DEF DamageColumn, OtherBytes
  <2>2. /\ \A b \in Bodies \cup {Unreadable} : [table[n] EXCEPT !.body = b] \in Row
        /\ \A h \in Hash : [table[n] EXCEPT !.previous_hash = h] \in Row
        /\ \A h \in Hash : [table[n] EXCEPT !.current_hash = h] \in Row
    BY <1>1, <1>2 DEF Row
  <2>3. \E row \in Row : table' = [table EXCEPT ![n] = row]
    BY <2>1, <2>2 DEF TypeOK
  <2>4. DOMAIN table' \subseteq 1 .. MaxI64 /\ table' \in [DOMAIN table' -> Row]
    BY <2>3 DEF TypeOK, Stored
  <2> QED
    BY <1>1, <1>2, <2>4, DamageKeepsTypes DEF DamageColumn, Kinds
<1>6. ASSUME NEW n \in Stored, DamageAlias(n) PROVE TypeOK'
  <2>1. PICK b \in Bodies : table' = [table EXCEPT ![n].body = b]
    BY <1>6 DEF DamageAlias
  <2>2. [table[n] EXCEPT !.body = b] \in Row
    BY <1>1, <1>6 DEF Row
  <2>3. DOMAIN table' \subseteq 1 .. MaxI64 /\ table' \in [DOMAIN table' -> Row]
    BY <2>1, <2>2 DEF TypeOK, Stored
  <2> QED
    BY <1>1, <1>6, <2>3, DamageKeepsTypes DEF DamageAlias, Kinds
<1>3. ASSUME NEW n \in Stored, DamageSequence(n) PROVE TypeOK'
  <2>1. PICK m \in (1 .. MaxI64) \ Stored :
           table' = [k \in (Stored \ {n}) \cup {m} |-> IF k = m THEN table[n] ELSE table[k]]
    BY <1>3 DEF DamageSequence
  <2>2. DOMAIN table' \subseteq 1 .. MaxI64 /\ table' \in [DOMAIN table' -> Row]
    BY <1>1, <2>1
  <2> QED
    BY <1>1, <1>3, <2>2, DamageKeepsTypes DEF DamageSequence, Kinds
<1>4. ASSUME NEW n \in Stored, DeleteRow(n) PROVE TypeOK'
  <2>1. DOMAIN table' \subseteq 1 .. MaxI64 /\ table' \in [DOMAIN table' -> Row]
    BY <1>1, <1>4 DEF DeleteRow, Without
  <2> QED
    BY <1>1, <1>4, <2>1, DamageKeepsTypes DEF DeleteRow, Kinds
<1>5. ASSUME Truncate PROVE TypeOK'
  <2>1. DOMAIN table' \subseteq 1 .. MaxI64 /\ table' \in [DOMAIN table' -> Row]
    BY <1>1, <1>5 DEF Truncate, Without
  <2>2. Last(Stored) \in Nat
    BY <1>5, LastStored, AuditAssumption DEF Truncate
  <2> QED
    BY <1>5, <2>1, <2>2, DamageKeepsTypes DEF Truncate, Kinds
<1> QED
  BY <1>2, <1>3, <1>4, <1>5, <1>6 DEF Tamper

----------------------------------------------------------------------------
(* One transaction at a time                                               *)

(* What LatestStaysLatest says of one writer with frame f.                 *)
FrameKnows(f) ==
    /\ f.pc \in {"begin", "read", "insert", "return"} => f.body \in Bodies
    /\ f.pc = "insert" =>
          /\ \A n \in Stored : n < f.sequence
          /\ f.sequence = IF Stored = {} THEN 1 ELSE Last(Stored) + 1
          /\ f.hash = IF Stored = {} THEN Genesis ELSE table[Last(Stored)].current_hash
          /\ f.hash # Malformed

(* LatestStaysLatest says the same of each frame, with the lock.           *)
LEMMA LatestByFrame ==
    LatestStaysLatest <=> \A w \in Writers : /\ dbLock = w <=> wr[w].pc \in InTransaction
                                             /\ FrameKnows(wr[w])
  BY DEF LatestStaysLatest, FrameKnows

(* A step of one writer that keeps, takes or gives back the lock as its    *)
(* place in the transaction says.                                          *)
LEMMA WriterStep ==
    ASSUME TypeOK, LatestStaysLatest, NEW w \in Writers, NEW f,
           wr' = [wr EXCEPT ![w] = f], table' = table, FrameKnows(f),
           \/ dbLock' = dbLock /\ (f.pc \in InTransaction <=> wr[w].pc \in InTransaction)
           \/ dbLock = NoWriter /\ dbLock' = w /\ f.pc \in InTransaction
           \/ dbLock = w /\ dbLock' = NoWriter /\ f.pc \notin InTransaction
    PROVE  LatestStaysLatest'
<1>1. \A v \in Writers : wr'[v] = IF v = w THEN f ELSE wr[v]
  BY DEF TypeOK
<1>2. \A v \in Writers : v # NoWriter
  BY AuditAssumption
<1>3. \A v \in Writers : dbLock' = v <=> wr'[v].pc \in InTransaction
  BY <1>1, <1>2 DEF LatestStaysLatest
<1>4. \A v \in Writers : FrameKnows(wr'[v])
  BY <1>1, LatestByFrame
<1>5. \A v \in Writers : FrameKnows(wr[v])'
  BY <1>4 DEF FrameKnows, Stored
<1> QED
  BY <1>3, <1>5 DEF LatestStaysLatest, FrameKnows

(* The end of a call keeps LatestStaysLatest.                              *)
LEMMA ReturnStep ==
    ASSUME TypeOK, LatestStaysLatest, NEW w \in Writers, Return(w), table' = table,
           \/ dbLock' = dbLock /\ wr[w].pc \notin InTransaction
           \/ dbLock = w /\ dbLock' = NoWriter
    PROVE  LatestStaysLatest'
<1>1. wr' = [wr EXCEPT ![w] = IdleFrame] /\ IdleFrame.pc = "idle"
  BY IdleTypes DEF Return
<1>2. FrameKnows(IdleFrame) /\ IdleFrame.pc \notin InTransaction
  BY <1>1 DEF FrameKnows, InTransaction
<1> QED
  BY <1>1, <1>2, WriterStep

(* A rollback keeps LatestStaysLatest.                                     *)
LEMMA RollbackStep ==
    ASSUME TypeOK, LatestStaysLatest, NEW w \in Writers, Rollback(w), table' = table,
           wr[w].pc \in InTransaction
    PROVE  LatestStaysLatest'
<1>1. dbLock = w
  BY DEF LatestStaysLatest
<1> QED
  BY <1>1, ReturnStep DEF Rollback

(* Reading the latest event keeps LatestStaysLatest.                       *)
LEMMA ReadLatestStep ==
    ASSUME TypeOK, LatestStaysLatest, NEW w \in Writers, ReadLatest(w)
    PROVE  LatestStaysLatest'
<1>1. wr[w].pc = "read" /\ table' = table /\ wr[w].pc \in InTransaction
  BY DEF ReadLatest, InTransaction
<1>2. CASE Rollback(w)
  BY <1>1, <1>2, RollbackStep
<1>3. CASE ~ Rollback(w)
  <2>1. PICK n, h :
           /\ n = IF Stored = {} THEN 1 ELSE Last(Stored) + 1
           /\ h = IF Stored = {} THEN Genesis ELSE table[Last(Stored)].current_hash
    OBVIOUS
  <2>2. /\ wr' = [wr EXCEPT ![w].pc = "insert", ![w].sequence = n, ![w].hash = h]
        /\ h # Malformed /\ dbLock' = dbLock
    BY <1>3, <2>1, HashTypes DEF ReadLatest
  <2>3. wr \in [Writers -> Frame] /\ wr[w] \in Frame
    BY DEF TypeOK
  <2>4. PICK f : f = [wr[w] EXCEPT !.pc = "insert", !.sequence = n, !.hash = h]
    OBVIOUS
  <2>5. f.pc = "insert" /\ f.sequence = n /\ f.hash = h /\ f.body = wr[w].body
    BY <2>3, <2>4 DEF Frame
  <2>6. wr' = [wr EXCEPT ![w] = f]
    BY <2>2, <2>3, <2>4
  <2>7. wr[w].body \in Bodies
    BY <1>1 DEF LatestStaysLatest
  <2>8. \A m \in Stored : m < n
    <3>1. SUFFICES ASSUME NEW m \in Stored PROVE m < n
      OBVIOUS
    <3>2. m <= Last(Stored) /\ Last(Stored) \in Nat /\ m \in Nat
      BY <3>1, LastStored, AuditAssumption DEF TypeOK
    <3> QED
      BY <2>1, <3>1, <3>2
  <2>9. FrameKnows(f)
    BY <2>1, <2>2, <2>5, <2>7, <2>8 DEF FrameKnows
  <2> QED
    BY <1>1, <2>2, <2>5, <2>6, <2>9, WriterStep DEF InTransaction
<1> QED
  BY <1>2, <1>3

(* Insert and commit keep LatestStaysLatest.                               *)
LEMMA InsertStep ==
    ASSUME TypeOK, LatestStaysLatest, NEW w \in Writers, InsertCommit(w)
    PROVE  LatestStaysLatest'
<1>1. wr[w].pc = "insert" /\ dbLock = w /\ dbLock' = NoWriter
  BY DEF InsertCommit, LatestStaysLatest, InTransaction
<1>2. wr' = [wr EXCEPT ![w].pc = "return"] /\ wr \in [Writers -> Frame]
  BY DEF InsertCommit, Goto, TypeOK
<1>3. \A v \in Writers : /\ wr'[v].pc = IF v = w THEN "return" ELSE wr[v].pc
                         /\ wr'[v].body = wr[v].body
  BY <1>2 DEF Frame
<1>4. \A v \in Writers : v # w => wr[v].pc \notin InTransaction
  BY <1>1 DEF LatestStaysLatest
<1>5. \A v \in Writers : wr'[v].pc \notin InTransaction
  BY <1>3, <1>4 DEF InTransaction
<1>6. \A v \in Writers : dbLock' # v
  BY <1>1, AuditAssumption
<1>7. \A v \in Writers : wr'[v].pc \in {"begin", "read", "insert", "return"} =>
                            wr'[v].body \in Bodies
  BY <1>1, <1>3 DEF LatestStaysLatest
<1>8. \A v \in Writers : wr'[v].pc # "insert"
  BY <1>5 DEF InTransaction
<1> QED
  BY <1>5, <1>6, <1>7, <1>8 DEF LatestStaysLatest

(* Damage from outside keeps LatestStaysLatest.                            *)
LEMMA DamageStep ==
    ASSUME TypeOK, LatestStaysLatest, NEW kind, NEW n, Damage(kind, n)
    PROVE  LatestStaysLatest'
<1>1. wr' = wr /\ dbLock = NoWriter /\ dbLock' = dbLock
  BY DEF Damage
<1>2. \A v \in Writers : wr[v].pc \notin InTransaction
  BY <1>1, AuditAssumption DEF LatestStaysLatest
<1>3. \A v \in Writers : wr[v].pc # "insert"
  BY <1>2 DEF InTransaction
<1> QED
  BY <1>1, <1>2, <1>3 DEF LatestStaysLatest

(* A call begins, or a checkpoint's first statement.                       *)
LEMMA StartStep ==
    ASSUME TypeOK, LatestStaysLatest, NEW w \in Writers,
           CallAppend(w) \/ CheckpointLatest(w)
    PROVE  LatestStaysLatest'
<1>1. wr[w].pc = "idle" /\ table' = table /\ dbLock' = dbLock
  BY DEF CallAppend, CheckpointLatest
<1>2. \E f : /\ wr' = [wr EXCEPT ![w] = f]
             /\ f.pc \in {"begin", "count"}
             /\ f.pc = "begin" => f.body \in Bodies
  <2>1. CASE CallAppend(w)
    <3>1. PICK b \in Bodies :
             wr' = [wr EXCEPT ![w] = [IdleFrame EXCEPT !.pc = "begin", !.body = b]]
      BY <2>1 DEF CallAppend
    <3>2. /\ [IdleFrame EXCEPT !.pc = "begin", !.body = b].pc = "begin"
          /\ [IdleFrame EXCEPT !.pc = "begin", !.body = b].body = b
      BY IdleTypes DEF Frame
    <3> QED
      BY <3>1, <3>2
  <2>2. CASE CheckpointLatest(w)
    <3>1. PICK n, h :
             wr' = [wr EXCEPT ![w] =
                      [IdleFrame EXCEPT !.pc = "count", !.sequence = n, !.hash = h]]
      BY <2>2 DEF CheckpointLatest
    <3>2. [IdleFrame EXCEPT !.pc = "count", !.sequence = n, !.hash = h].pc = "count"
      BY IdleTypes DEF Frame
    <3> QED
      BY <3>1, <3>2
  <2> QED
    BY <2>1, <2>2
<1>3. PICK f : /\ wr' = [wr EXCEPT ![w] = f]
               /\ f.pc \in {"begin", "count"}
               /\ f.pc = "begin" => f.body \in Bodies
  BY <1>2
<1>4. FrameKnows(f) /\ f.pc \notin InTransaction
  BY <1>3 DEF FrameKnows, InTransaction
<1> QED
  BY <1>1, <1>3, <1>4, WriterStep DEF InTransaction

(* Taking the write lock keeps LatestStaysLatest.                          *)
LEMMA BeginStep ==
    ASSUME TypeOK, LatestStaysLatest, NEW w \in Writers, BeginImmediate(w)
    PROVE  LatestStaysLatest'
<1>1. /\ wr[w].pc = "begin" /\ dbLock = NoWriter /\ dbLock' = w /\ table' = table
      /\ wr' = [wr EXCEPT ![w].pc = "read"]
  BY DEF BeginImmediate, Goto
<1>2. PICK f : f = [wr[w] EXCEPT !.pc = "read"]
  OBVIOUS
<1>3. wr' = [wr EXCEPT ![w] = f] /\ f.pc = "read" /\ f.body = wr[w].body
  BY <1>1, <1>2 DEF TypeOK, Frame
<1>4. FrameKnows(f) /\ f.pc \in InTransaction
  BY <1>1, <1>3 DEF FrameKnows, LatestStaysLatest, InTransaction
<1> QED
  BY <1>1, <1>3, <1>4, WriterStep

(* A crash keeps LatestStaysLatest.                                        *)
LEMMA CrashStep ==
    ASSUME TypeOK, LatestStaysLatest, NEW w \in Writers, Crash(w)
    PROVE  LatestStaysLatest'
<1>1. CASE dbLock = w
  BY <1>1, ReturnStep DEF Crash
<1>2. CASE dbLock # w
  <2>1. wr[w].pc \notin InTransaction
    BY <1>2 DEF LatestStaysLatest
  <2> QED
    BY <1>2, <2>1, ReturnStep DEF Crash
<1> QED
  BY <1>1, <1>2

----------------------------------------------------------------------------
(* The chain                                                               *)

(* The row in place n continues the one before it.                         *)
Linked(n) ==
    /\ table[n].body \in Bodies
    /\ table[n].previous_hash \in Digest
    /\ table[n].previous_hash = IF n = 1 THEN Genesis ELSE table[n - 1].current_hash
    /\ table[n].current_hash = Append(table[n].previous_hash, <<n, Encoding[table[n].body]>>)

(* Until rows are altered, the places are 1 to some k and all are linked.  *)
Chained == ~Altered => \E k \in Nat : /\ Stored = 1 .. k
                                      /\ \A n \in 1 .. k : Linked(n)

(* A row that verification will trip over: it cannot be read, there is a   *)
(* gap before it, or it does not continue what is before it.               *)
Faulty(n) ==
    \/ ~Readable(n)
    \/ n - 1 \notin Stored /\ \E m \in Stored : m < n
    \/ /\ n - 1 \in Stored
       /\ \/ table[n].previous_hash # table[n - 1].current_hash
          \/ table[n].current_hash #
                Append(table[n - 1].current_hash, <<n, Encoding[table[n].body]>>)
    \/ /\ \A m \in Stored : n <= m
       /\ \/ table[n].previous_hash # Genesis
          \/ table[n].current_hash # Append(Genesis, <<n, Encoding[table[n].body]>>)

(* Once rows are altered, there is such a row for ever.                    *)
Broken == Altered => \E n \in Stored : Faulty(n)

(* Every row of a linked chain can be read.                                *)
LEMMA ChainReadable ==
    ASSUME NEW k \in Nat, Stored = 1 .. k, \A n \in 1 .. k : Linked(n)
    PROVE  \A n \in Stored : Readable(n)
<1>1. SUFFICES ASSUME NEW n \in 1 .. k PROVE Readable(n)
  OBVIOUS
<1>2. Linked(n)
  OBVIOUS
<1>3. <<n, Encoding[table[n].body]>> \in Nat \X Bytes
  BY <1>2, EncodingTypes DEF Linked
<1>4. Append(table[n].previous_hash, <<n, Encoding[table[n].body]>>) \in Digest
  BY <1>2, <1>3, NotGenesis DEF Linked
<1> QED
  BY <1>2, <1>4, HashTypes, AuditAssumption DEF Linked, Readable

(* A linked chain verifies.                                                *)
LEMMA ChainVerifies ==
    ASSUME NEW k \in Nat, Stored = 1 .. k, \A n \in 1 .. k : Linked(n)
    PROVE  verify_full = "valid"
<1>1. \A n \in Stored : Readable(n)
  BY ChainReadable
<1>2. \A n \in Stored : EventVerifies(Stored, Genesis, n)
  <2>1. SUFFICES ASSUME NEW n \in 1 .. k PROVE EventVerifies(Stored, Genesis, n)
    OBVIOUS
  <2>2. Before(Stored, n) = 1 .. (n - 1)
    BY DEF Before
  <2>3. CASE n = 1
    <3>1. Before(Stored, n) = {}
      BY <2>2, <2>3
    <3>2. Expected(Stored, Genesis, n) = Genesis
      BY <3>1 DEF Expected
    <3> QED
      BY <2>3, <3>1, <3>2 DEF EventVerifies, Linked, Compute, encode_canonical
  <2>4. CASE n # 1
    <3>1. n - 1 \in Nat \ {0}
      BY <2>4
    <3>2. Last(Before(Stored, n)) = n - 1
      BY <2>2, <3>1, LastOfInterval
    <3>3. 1 \in Before(Stored, n)
      BY <2>2, <3>1
    <3>4. Expected(Stored, Genesis, n) = table[n - 1].current_hash
      BY <3>2, <3>3 DEF Expected
    <3>5. n = (n - 1) + 1
      OBVIOUS
    <3> QED
      BY <2>4, <3>2, <3>4, <3>5 DEF EventVerifies, Linked, Compute, encode_canonical
  <2> QED
    BY <2>3, <2>4
<1> QED
  BY <1>1, <1>2 DEF verify_full, verify_events

(* A faulty row is seen.                                                   *)
LEMMA FaultSeen ==
    ASSUME TypeOK, NEW n \in Stored, Faulty(n)
    PROVE  verify_full # "valid"
<1>1. n \in 1 .. MaxI64 /\ n \in Nat /\ \A m \in Stored : m \in Nat
  BY AuditAssumption DEF TypeOK
<1>2. SUFFICES ASSUME Readable(n) PROVE ~EventVerifies(Stored, Genesis, n)
  BY DEF verify_full, verify_events
<1>3. CASE Before(Stored, n) = {}
  <2>1. \A m \in Stored : n <= m
    BY <1>1, <1>3 DEF Before
  <2>2. n - 1 \notin Stored /\ ~ \E m \in Stored : m < n
    BY <1>1, <2>1
  <2>3. Expected(Stored, Genesis, n) = Genesis
    BY <1>3 DEF Expected
  <2> QED
    BY <1>2, <2>2, <2>3 DEF Faulty, EventVerifies, Compute, encode_canonical
<1>4. CASE Before(Stored, n) # {}
  <2>1. Before(Stored, n) \subseteq 0 .. MaxI64 /\ MaxI64 \in Nat
    <3>1. Before(Stored, n) \subseteq Stored
      BY DEF Before
    <3>2. 1 .. MaxI64 \subseteq 0 .. MaxI64 /\ MaxI64 \in Nat
      BY AuditAssumption
    <3> QED
      BY <3>1, <3>2 DEF TypeOK
  <2>2. /\ Last(Before(Stored, n)) \in Before(Stored, n)
        /\ \A m \in Before(Stored, n) : m <= Last(Before(Stored, n))
    BY <1>4, <2>1, LastIsLargest
  <2>3. CASE n - 1 \in Stored
    <3>1. n - 1 \in Before(Stored, n)
      BY <1>1, <2>3 DEF Before
    <3>2. Last(Before(Stored, n)) = n - 1
      <4>1. \A m \in Before(Stored, n) : m \in Nat /\ m < n
        BY <1>1 DEF Before
      <4>2. PICK l : l = Last(Before(Stored, n))
        OBVIOUS
      <4>3. l \in Nat /\ l < n /\ n - 1 <= l
        BY <2>2, <3>1, <4>1, <4>2
      <4> QED
        BY <1>1, <4>2, <4>3
    <3>3. Expected(Stored, Genesis, n) = table[n - 1].current_hash
      BY <1>4, <3>2 DEF Expected
    <3>4. ~ \A m \in Stored : n <= m
      BY <1>1, <2>3
    <3> QED
      BY <1>2, <2>3, <3>3, <3>4 DEF Faulty, EventVerifies, Compute, encode_canonical
  <2>4. CASE n - 1 \notin Stored
    <3>1. Last(Before(Stored, n)) \in Stored /\ Last(Before(Stored, n)) \in Nat
      BY <1>1, <2>2 DEF Before
    <3>2. n # Last(Before(Stored, n)) + 1
      BY <1>1, <2>4, <3>1
    <3> QED
      BY <1>4, <3>2 DEF EventVerifies
  <2> QED
    BY <2>3, <2>4
<1> QED
  BY <1>3, <1>4

(* An insert continues a chain and mends nothing.                          *)
LEMMA InsertKeepsChain ==
    ASSUME TypeOK, LatestStaysLatest, Chained, Broken, NEW w \in Writers, InsertCommit(w)
    PROVE  Chained' /\ Broken'
<1>1. PICK n \in 1 .. MaxI64, b \in Bodies, h \in Digest :
         /\ n = wr[w].sequence /\ b = wr[w].body /\ h = wr[w].hash
         /\ \A m \in Stored : m < n
         /\ DOMAIN table' = Stored \cup {n}
         /\ table' \in [Stored \cup {n} -> Row]
         /\ \A m \in Stored : table'[m] = table[m]
         /\ table'[n] = NewRow(n, b, h)
  BY InsertTable
<1>2. damage' = damage /\ wr[w].pc = "insert"
  BY DEF InsertCommit
<1>3. n \in Nat /\ \A m \in Stored : m \in Nat
  BY AuditAssumption, <1>1 DEF TypeOK
<1>4. Stored' = Stored \cup {n}
  BY <1>1 DEF Stored
<1>5. Chained'
  <2>1. SUFFICES ASSUME ~Altered
                 PROVE  \E j \in Nat : /\ Stored' = 1 .. j
                                       /\ \A m \in 1 .. j : Linked(m)'
    BY <1>2 DEF Chained, Altered
  <2>2. PICK k \in Nat : Stored = 1 .. k /\ \A m \in 1 .. k : Linked(m)
    BY <2>1 DEF Chained
  <2>3. n = k + 1 /\ h = IF n = 1 THEN Genesis ELSE table[n - 1].current_hash
    <3>1. CASE k = 0
      <4>1. Stored = {}
        BY <2>2, <3>1
      <4> QED
        BY <1>1, <1>2, <3>1, <4>1 DEF LatestStaysLatest
    <3>2. CASE k # 0
      <4>1. Stored # {} /\ Last(Stored) = k
        BY <2>2, <3>2, LastOfInterval
      <4>2. n = k + 1 /\ h = table[k].current_hash
        BY <1>1, <1>2, <4>1 DEF LatestStaysLatest
      <4> QED
        BY <3>2, <4>2
    <3> QED
      BY <3>1, <3>2
  <2>4. Stored' = 1 .. n
    BY <1>4, <2>2, <2>3
  <2>5. Linked(n)'
    <3>1. /\ table'[n].body = b /\ table'[n].previous_hash = h
          /\ table'[n].current_hash = Append(h, <<n, Encoding[b]>>)
      BY <1>1, <1>3, RowTypes, SMTT(30)
    <3>2. n # 1 => table'[n - 1] = table[n - 1]
      BY <1>1, <2>2, <2>3
    <3> QED
      BY <2>3, <3>1, <3>2 DEF Linked
  <2>6. \A m \in 1 .. k : Linked(m)'
    <3>1. SUFFICES ASSUME NEW m \in 1 .. k PROVE Linked(m)'
      OBVIOUS
    <3>2. table'[m] = table[m] /\ (m # 1 => table'[m - 1] = table[m - 1])
      BY <1>1, <2>2
    <3> QED
      BY <2>2, <3>2 DEF Linked
  <2>7. \A m \in 1 .. n : Linked(m)'
    BY <2>3, <2>5, <2>6
  <2> QED
    BY <1>3, <2>4, <2>7
<1>6. Broken'
  <2>1. SUFFICES ASSUME NEW m \in Stored, Faulty(m) PROVE Faulty(m)'
    BY <1>2, <1>4 DEF Broken, Altered
  <2>2. table'[m] = table[m] /\ m < n /\ m \in Nat /\ m - 1 # n
    BY <1>1, <1>3, <2>1
  <2>3. (Readable(m))' <=> Readable(m)
    BY <2>2 DEF Readable
  <2>4. m - 1 \in Stored' <=> m - 1 \in Stored
    BY <1>4, <2>2
  <2>5. m - 1 \in Stored => table'[m - 1] = table[m - 1]
    BY <1>1
  <2>6. (\A j \in Stored' : m <= j) <=> (\A j \in Stored : m <= j)
    BY <1>3, <1>4, <2>2
  <2>7. (\E j \in Stored : j < m) => (\E j \in Stored' : j < m)
    BY <1>4
  <2> QED
    BY <2>1, <2>2, <2>3, <2>4, <2>5, <2>6, <2>7 DEF Faulty
<1> QED
  BY <1>5, <1>6

(* The steps that change neither the table nor the damage.                 *)
LEMMA QuietKeepsChain ==
    ASSUME Chained, Broken, UNCHANGED <<table, damage>>
    PROVE  Chained' /\ Broken'
<1>1. Stored' = Stored /\ (Altered' <=> Altered)
  BY DEF Stored, Altered
<1>2. \A n : Linked(n)' <=> Linked(n)
  BY DEF Linked
<1>3. \A n : Faulty(n)' <=> Faulty(n)
  BY <1>1 DEF Faulty, Readable
<1>4. Chained'
  BY <1>1, <1>2 DEF Chained
<1>5. Broken'
  BY <1>1, <1>3 DEF Broken
<1> QED
  BY <1>4, <1>5

(* Damage needs a chain that is whole, and leaves it altered or cut.       *)
LEMMA DamagedOnce ==
    ASSUME Chained, NEW kind, NEW n, Damage(kind, n)
    PROVE  /\ damage'.kind = kind
           /\ \E k \in Nat : Stored = 1 .. k /\ \A m \in 1 .. k : Linked(m)
<1>1. damage.kind = "none" /\ damage' = [kind |-> kind, at |-> n]
  BY DEF Damage
<1> QED
  BY <1>1 DEF Chained, Altered

(* After an alteration a faulty row is all the invariant asks for.         *)
LEMMA AlteredIsEnough ==
    ASSUME damage'.kind \in {"column", "move", "delete"},
           \E n \in Stored' : Faulty(n)'
    PROVE  Chained' /\ Broken'
  BY DEF Chained, Broken, Altered

(* The links of a whole chain, spelled out for one place.                  *)
LEMMA LinkedRow ==
    ASSUME NEW k \in Nat, Stored = 1 .. k, \A m \in 1 .. k : Linked(m), NEW n \in 1 .. k
    PROVE  /\ n \in Nat /\ <<n, Encoding[table[n].body]>> \in Nat \X Bytes
           /\ table[n].body \in Bodies /\ table[n].previous_hash \in Digest
           /\ table[n].current_hash = Append(table[n].previous_hash, <<n, Encoding[table[n].body]>>)
           /\ table[n].current_hash \in Digest
           /\ n = 1 => table[n].previous_hash = Genesis
           /\ n # 1 => /\ n - 1 \in 1 .. k
                       /\ table[n].previous_hash = table[n - 1].current_hash
<1>1. Linked(n) /\ n \in Nat
  OBVIOUS
<1>2. <<n, Encoding[table[n].body]>> \in Nat \X Bytes
  BY <1>1, EncodingTypes DEF Linked
<1>3. table[n].current_hash \in Digest
  BY <1>1, <1>2, NotGenesis DEF Linked
<1> QED
  BY <1>1, <1>2, <1>3 DEF Linked

(* One column of a linked row gets another value: the row cannot be read   *)
(* or does not continue the chain any more.                                *)
LEMMA ColumnSpoils ==
    ASSUME TypeOK, NEW k \in Nat, Stored = 1 .. k, \A m \in 1 .. k : Linked(m),
           NEW n \in 1 .. k, DamageColumn(n)
    PROVE  \E row : /\ table' = [table EXCEPT ![n] = row]
                    /\ \/ row.body = Unreadable
                       \/ row.previous_hash # table[n].previous_hash
                       \/ row.current_hash #
                             Append(table[n].previous_hash, <<n, Encoding[row.body]>>)
<1>3. /\ n \in Nat /\ <<n, Encoding[table[n].body]>> \in Nat \X Bytes
      /\ table[n].body \in Bodies /\ table[n].previous_hash \in Digest
      /\ table[n].current_hash = Append(table[n].previous_hash, <<n, Encoding[table[n].body]>>)
  BY LinkedRow
<1>4. table \in [Stored -> Row] /\ table[n] \in Row
  BY DEF TypeOK
<1>5. PICK row :
         /\ table' = [table EXCEPT ![n] = row]
         /\ \/ /\ row.body \in {Unreadable} \cup OtherBytes(table[n].body)
               /\ row.previous_hash = table[n].previous_hash
               /\ row.current_hash = table[n].current_hash
            \/ /\ row.body = table[n].body
               /\ row.previous_hash # table[n].previous_hash
               /\ row.current_hash = table[n].current_hash
            \/ /\ row.body = table[n].body
               /\ row.previous_hash = table[n].previous_hash
               /\ row.current_hash # table[n].current_hash
  <2>1. CASE \E b \in {Unreadable} \cup OtherBytes(table[n].body) :
                table' = [table EXCEPT ![n].body = b]
    <3>1. PICK b \in {Unreadable} \cup OtherBytes(table[n].body) :
             table' = [table EXCEPT ![n].body = b]
      BY <2>1
    <3>2. PICK row : row = [table[n] EXCEPT !.body = b]
      OBVIOUS
    <3>3. /\ row.body = b /\ row.previous_hash = table[n].previous_hash
          /\ row.current_hash = table[n].current_hash
      BY <1>4, <3>2 DEF Row
    <3>4. table' = [table EXCEPT ![n] = row]
      BY <1>4, <3>1, <3>2
    <3> QED
      BY <3>1, <3>3, <3>4
  <2>2. CASE \E h : h # table[n].previous_hash /\ table' = [table EXCEPT ![n].previous_hash = h]
    <3>1. PICK h : /\ h # table[n].previous_hash
                   /\ table' = [table EXCEPT ![n].previous_hash = h]
      BY <2>2
    <3>2. PICK row : row = [table[n] EXCEPT !.previous_hash = h]
      OBVIOUS
    <3>3. /\ row.previous_hash = h /\ row.body = table[n].body
          /\ row.current_hash = table[n].current_hash
      BY <1>4, <3>2 DEF Row
    <3>4. table' = [table EXCEPT ![n] = row]
      BY <1>4, <3>1, <3>2
    <3> QED
      BY <3>1, <3>3, <3>4
  <2>3. CASE \E h : h # table[n].current_hash /\ table' = [table EXCEPT ![n].current_hash = h]
    <3>1. PICK h : /\ h # table[n].current_hash
                   /\ table' = [table EXCEPT ![n].current_hash = h]
      BY <2>3
    <3>2. PICK row : row = [table[n] EXCEPT !.current_hash = h]
      OBVIOUS
    <3>3. /\ row.current_hash = h /\ row.body = table[n].body
          /\ row.previous_hash = table[n].previous_hash
      BY <1>4, <3>2 DEF Row
    <3>4. table' = [table EXCEPT ![n] = row]
      BY <1>4, <3>1, <3>2
    <3> QED
      BY <3>1, <3>3, <3>4
  <2> QED
    BY <2>1, <2>2, <2>3 DEF DamageColumn
<1>7. row.body \in OtherBytes(table[n].body) =>
         Append(table[n].previous_hash, <<n, Encoding[row.body]>>) # table[n].current_hash
  <2>1. SUFFICES ASSUME row.body \in OtherBytes(table[n].body),
                        Append(table[n].previous_hash, <<n, Encoding[row.body]>>) =
                           Append(table[n].previous_hash, <<n, Encoding[table[n].body]>>)
                 PROVE  FALSE
    BY <1>3
  <2>2. /\ <<n, Encoding[row.body]>> \in Nat \X Bytes
        /\ Encoding[row.body] # Encoding[table[n].body]
    BY <1>3, <2>1, EncodingTypes DEF OtherBytes
  <2>3. <<n, Encoding[row.body]>> = <<n, Encoding[table[n].body]>>
    BY <1>3, <2>1, <2>2, HashesDiffer
  <2> QED
    BY <2>2, <2>3
<1> QED
  BY <1>3, <1>5, <1>7

(* One column of a linked row gets another value.                          *)
LEMMA ColumnKeepsChain ==
    ASSUME TypeOK, Chained, NEW n \in Stored, DamageColumn(n)
    PROVE  Chained' /\ Broken'
<1>1. PICK k \in Nat : Stored = 1 .. k /\ \A m \in 1 .. k : Linked(m)
  BY DamagedOnce DEF DamageColumn
<1>2. damage'.kind = "column"
  BY DamagedOnce DEF DamageColumn
<1>3. /\ n \in 1 .. k /\ n \in Nat
      /\ n = 1 => table[n].previous_hash = Genesis
      /\ n # 1 => /\ n - 1 \in 1 .. k
                  /\ table[n].previous_hash = table[n - 1].current_hash
  BY <1>1, LinkedRow
<1>4. table \in [Stored -> Row]
  BY DEF TypeOK
<1>5. PICK row : /\ table' = [table EXCEPT ![n] = row]
                 /\ \/ row.body = Unreadable
                    \/ row.previous_hash # table[n].previous_hash
                    \/ row.current_hash #
                          Append(table[n].previous_hash, <<n, Encoding[row.body]>>)
  BY <1>1, <1>3, ColumnSpoils
<1>6. /\ Stored' = 1 .. k /\ table'[n] = row
      /\ n # 1 => table'[n - 1] = table[n - 1]
  BY <1>1, <1>3, <1>4, <1>5 DEF Stored
<1>8. Faulty(n)'
  <2>1. CASE row.body = Unreadable
    BY <1>6, <2>1 DEF Faulty, Readable
  <2>2. CASE row.body # Unreadable
    <3>1. \/ row.previous_hash # table[n].previous_hash
          \/ row.current_hash # Append(table[n].previous_hash, <<n, Encoding[row.body]>>)
      BY <1>5, <2>2
    <3>2. CASE n = 1
      <4>1. \A m \in Stored' : n <= m
        BY <1>6, <3>2
      <4> QED
        BY <1>3, <1>6, <3>1, <3>2, <4>1 DEF Faulty
    <3>3. CASE n # 1
      <4>1. n - 1 \in Stored'
        BY <1>3, <1>6, <3>3
      <4> QED
        BY <1>3, <1>6, <3>1, <3>3, <4>1 DEF Faulty
    <3> QED
      BY <3>2, <3>3
  <2> QED
    BY <2>1, <2>2
<1> QED
  BY <1>2, <1>3, <1>6, <1>8, AlteredIsEnough

(* Other columns with the same bytes: every row stays linked.              *)
LEMMA AliasKeepsChain ==
    ASSUME TypeOK, Chained, NEW n \in Stored, DamageAlias(n)
    PROVE  Chained' /\ Broken'
<1>1. PICK k \in Nat : Stored = 1 .. k /\ \A m \in 1 .. k : Linked(m)
  BY DamagedOnce DEF DamageAlias
<1>2. damage'.kind = "alias"
  BY DamagedOnce DEF DamageAlias
<1>3. ~Altered'
  BY <1>2 DEF Altered
<1>4. PICK b \in Bodies : /\ Encoding[b] = Encoding[table[n].body]
                         /\ table' = [table EXCEPT ![n].body = b]
  BY DEF DamageAlias, OtherBytes
<1>5. table \in [Stored -> Row]
  BY DEF TypeOK
<1>6. Stored' = 1 .. k
  BY <1>1, <1>4, <1>5 DEF Stored
<1>7. \A m \in 1 .. k : /\ table'[m].previous_hash = table[m].previous_hash
                       /\ table'[m].current_hash = table[m].current_hash
                       /\ table'[m].body = IF m = n THEN b ELSE table[m].body
  BY <1>1, <1>4, <1>5 DEF Row
<1>8. \A m \in 1 .. k : Linked(m)'
  <2>1. SUFFICES ASSUME NEW m \in 1 .. k PROVE Linked(m)'
    OBVIOUS
  <2>2. /\ table[m].body \in Bodies /\ table[m].previous_hash \in Digest
        /\ table[m].previous_hash = IF m = 1 THEN Genesis ELSE table[m - 1].current_hash
        /\ table[m].current_hash = Append(table[m].previous_hash, <<m, Encoding[table[m].body]>>)
    BY <1>1 DEF Linked
  <2>3. table'[m].body \in Bodies /\ Encoding[table'[m].body] = Encoding[table[m].body]
    BY <1>4, <1>7, <2>2
  <2>4. m # 1 => table'[m - 1].current_hash = table[m - 1].current_hash
    BY <1>7
  <2> QED
    BY <1>7, <2>2, <2>3, <2>4 DEF Linked
<1> QED
  BY <1>3, <1>6, <1>8 DEF Chained, Broken

(* A linked row gets another place: its hash still names the old one.      *)
LEMMA MoveKeepsChain ==
    ASSUME TypeOK, Chained, NEW n \in Stored, DamageSequence(n)
    PROVE  Chained' /\ Broken'
<1>1. PICK k \in Nat : Stored = 1 .. k /\ \A m \in 1 .. k : Linked(m)
  BY DamagedOnce DEF DamageSequence
<1>2. damage'.kind = "move"
  BY DamagedOnce DEF DamageSequence
<1>3. PICK m \in (1 .. MaxI64) \ Stored :
         table' = [j \in (Stored \ {n}) \cup {m} |-> IF j = m THEN table[n] ELSE table[j]]
  BY DEF DamageSequence
<1>4. m \in Nat /\ m # n /\ n \in 1 .. k
  BY <1>1, <1>3, AuditAssumption
<1>5. /\ <<n, Encoding[table[n].body]>> \in Nat \X Bytes /\ table[n].previous_hash \in Digest
      /\ table[n].current_hash = Append(table[n].previous_hash, <<n, Encoding[table[n].body]>>)
  BY <1>1, <1>4, LinkedRow
<1>6. Stored' = (Stored \ {n}) \cup {m} /\ table'[m] = table[n]
  BY <1>3 DEF Stored
<1>7. \A j \in Stored \ {n} : table'[j].current_hash \in Digest
  <2>1. \A j \in Stored \ {n} : table'[j] = table[j]
    BY <1>3
  <2> QED
    BY <1>1, <2>1, LinkedRow
<1>8. \A h \in Digest : table'[m].current_hash # Append(h, <<m, Encoding[table'[m].body]>>)
  <2>1. SUFFICES ASSUME NEW h \in Digest,
                        Append(table[n].previous_hash, <<n, Encoding[table[n].body]>>) =
                           Append(h, <<m, Encoding[table[n].body]>>)
                 PROVE  FALSE
    BY <1>5, <1>6
  <2>2. <<m, Encoding[table[n].body]>> \in Nat \X Bytes
    BY EncodingTypes, <1>4, <1>5
  <2>3. <<n, Encoding[table[n].body]>> = <<m, Encoding[table[n].body]>>
    BY <1>5, <2>1, <2>2, HashesDiffer
  <2> QED
    BY <1>4, <2>3
<1>9. Faulty(m)'
  <2>1. CASE m - 1 \in Stored'
    <3>1. m - 1 \in Stored \ {n}
      BY <1>4, <1>6, <2>1
    <3> QED
      BY <1>7, <1>8, <2>1, <3>1 DEF Faulty
  <2>2. CASE m - 1 \notin Stored' /\ \E j \in Stored' : j < m
    BY <2>2 DEF Faulty
  <2>3. CASE \A j \in Stored' : m <= j
    BY <1>8, <2>3, HashTypes DEF Faulty
  <2>4. \A j \in Stored' : j \in Nat
    BY <1>1, <1>4, <1>6
  <2> QED
    BY <1>4, <2>1, <2>2, <2>3, <2>4
<1> QED
  BY <1>2, <1>6, <1>9, AlteredIsEnough

(* A row before the last one is deleted: there is a gap, or the new first  *)
(* row does not begin with the genesis hash.                               *)
LEMMA DeleteKeepsChain ==
    ASSUME TypeOK, Chained, NEW n \in Stored, DeleteRow(n)
    PROVE  Chained' /\ Broken'
<1>1. PICK k \in Nat : Stored = 1 .. k /\ \A m \in 1 .. k : Linked(m)
  BY DamagedOnce DEF DeleteRow
<1>2. damage'.kind = "delete" /\ n # Last(Stored)
  BY DamagedOnce DEF DeleteRow
<1>3. n \in 1 .. k /\ n \in Nat /\ n < k
  <2>1. n \in 1 .. k
    BY <1>1
  <2>2. Last(Stored) = k
    BY <1>1, <2>1, LastOfInterval
  <2> QED
    BY <1>2, <2>1, <2>2
<1>4. Stored' = (1 .. k) \ {n} /\ \A m \in (1 .. k) \ {n} : table'[m] = table[m]
  BY <1>1 DEF DeleteRow, Without, Stored
<1>5. n + 1 \in Stored' /\ table'[n + 1] = table[n + 1]
  BY <1>3, <1>4
<1>6. Faulty(n + 1)'
  <2>1. CASE n = 1
    <3>1. /\ table[1].previous_hash \in Digest /\ <<1, Encoding[table[1].body]>> \in Nat \X Bytes
          /\ table[1].current_hash = Append(table[1].previous_hash, <<1, Encoding[table[1].body]>>)
      BY <1>1, <1>3, <2>1, LinkedRow
    <3>2. table[1].current_hash # Genesis
      BY <3>1, NotGenesis
    <3>3. 2 \in 1 .. k /\ 2 # 1 /\ 2 - 1 = 1
      BY <1>3, <2>1
    <3>4. table[2].previous_hash = table[1].current_hash
      BY <1>1, <3>3, LinkedRow
    <3>5. \A m \in Stored' : 2 <= m
      BY <1>4, <2>1
    <3>6. table'[2].previous_hash # Genesis
      BY <1>5, <2>1, <3>2, <3>4
    <3> QED
      BY <2>1, <3>5, <3>6 DEF Faulty
  <2>2. CASE n # 1
    <3>1. n - 1 \in Stored' /\ n - 1 < n + 1
      BY <1>3, <1>4, <2>2
    <3>2. (n + 1) - 1 \notin Stored'
      BY <1>3, <1>4
    <3> QED
      BY <3>1, <3>2 DEF Faulty
  <2> QED
    BY <2>1, <2>2
<1> QED
  BY <1>2, <1>5, <1>6, AlteredIsEnough

(* The last row is cut off: what is left is a chain.                       *)
LEMMA TruncateKeepsChain ==
    ASSUME TypeOK, Chained, Truncate
    PROVE  Chained' /\ Broken'
<1>1. PICK k \in Nat : Stored = 1 .. k /\ \A m \in 1 .. k : Linked(m)
  BY DamagedOnce DEF Truncate
<1>2. damage'.kind = "truncate"
  BY DamagedOnce DEF Truncate
<1>3. k # 0 /\ Last(Stored) = k
  <2>1. k # 0
    BY <1>1 DEF Truncate
  <2> QED
    BY <1>1, <2>1, LastOfInterval
<1>4. Stored' = 1 .. (k - 1) /\ \A m \in 1 .. (k - 1) : table'[m] = table[m]
  BY <1>1, <1>3 DEF Truncate, Without, Stored
<1>5. \A m \in 1 .. (k - 1) : Linked(m)'
  <2>1. SUFFICES ASSUME NEW m \in 1 .. (k - 1) PROVE Linked(m)'
    OBVIOUS
  <2>2. table'[m] = table[m] /\ (m # 1 => table'[m - 1] = table[m - 1]) /\ m \in 1 .. k
    BY <1>3, <1>4
  <2> QED
    BY <1>1, <2>2 DEF Linked
<1>6. k - 1 \in Nat
  BY <1>3
<1>7. Chained'
  BY <1>4, <1>5, <1>6 DEF Chained
<1>8. Broken'
  BY <1>2 DEF Broken, Altered
<1> QED
  BY <1>7, <1>8

----------------------------------------------------------------------------
(* Answers                                                                 *)

(* What a caller is about to be told, and has been told, is in the table.  *)
Told ==
    damage.kind = "none" =>
        /\ \A w \in Writers :
              /\ wr[w].pc = "return" => /\ wr[w].sequence \in Stored
                                        /\ table[wr[w].sequence].body = wr[w].body
              /\ wr[w].pc = "count" /\ wr[w].sequence # 0 =>
                    /\ wr[w].sequence \in Stored
                    /\ table[wr[w].sequence].current_hash = wr[w].hash
        /\ AnswersAreTrue

(* A step that changes one frame to one that is not about to tell.         *)
LEMMA QuietKeepsTold ==
    ASSUME TypeOK, Told, NEW w \in Writers, NEW f, wr' = [wr EXCEPT ![w] = f],
           f.pc \notin {"return", "count"},
           UNCHANGED <<table, answers, checkpoint, damage>>
    PROVE  Told'
<1>1. \A v \in Writers : wr'[v] = IF v = w THEN f ELSE wr[v]
  BY DEF TypeOK
<1> QED
  BY <1>1 DEF Told, AnswersAreTrue, Stored

(* The end of a call keeps the answers true.                               *)
LEMMA ReturnKeepsTold ==
    ASSUME TypeOK, Told, NEW w \in Writers, Return(w),
           UNCHANGED <<table, answers, checkpoint, damage>>
    PROVE  Told'
  BY QuietKeepsTold, IdleTypes DEF Return

(* Insert and commit keep the answers true.                                *)
LEMMA InsertKeepsTold ==
    ASSUME TypeOK, LatestStaysLatest, Told, NEW w \in Writers, InsertCommit(w)
    PROVE  Told'
<1>1. PICK n \in 1 .. MaxI64, b \in Bodies, h \in Digest :
         /\ n = wr[w].sequence /\ b = wr[w].body /\ h = wr[w].hash
         /\ \A m \in Stored : m < n
         /\ DOMAIN table' = Stored \cup {n}
         /\ table' \in [Stored \cup {n} -> Row]
         /\ \A m \in Stored : table'[m] = table[m]
         /\ table'[n] = NewRow(n, b, h)
  BY InsertTable
<1>2. /\ wr' = [wr EXCEPT ![w].pc = "return"]
      /\ answers' = answers /\ checkpoint' = checkpoint /\ damage' = damage
  BY DEF InsertCommit, Goto
<1>3. Stored' = Stored \cup {n} /\ table'[n].body = b
  BY <1>1, AuditAssumption, RowTypes DEF Stored
<1>4. \A v \in Writers : v # w => wr'[v] = wr[v]
  BY <1>2 DEF TypeOK
<1>5. wr'[w].pc = "return" /\ wr'[w].sequence = n /\ wr'[w].body = b
  BY <1>1, <1>2 DEF TypeOK, Frame
<1>6. AnswersAreTrue => AnswersAreTrue'
  BY <1>1, <1>2, <1>3 DEF AnswersAreTrue
<1> QED
  BY <1>1, <1>2, <1>3, <1>4, <1>5, <1>6 DEF Told

(* The summary of append keeps the answers true.                           *)
LEMMA SummaryKeepsTold ==
    ASSUME TypeOK, Told, NEW w \in Writers, ReturnSummary(w)
    PROVE  Told'
<1>1. /\ wr[w].pc = "return" /\ table' = table /\ checkpoint' = checkpoint
      /\ damage' = damage /\ wr' = [wr EXCEPT ![w] = IdleFrame]
      /\ answers' = answers \cup {<<wr[w].sequence, wr[w].body>>}
  BY DEF ReturnSummary, Return
<1>2. \A v \in Writers : wr'[v] = IF v = w THEN IdleFrame ELSE wr[v]
  BY <1>1 DEF TypeOK
<1>3. damage.kind = "none" => AnswersAreTrue'
  BY <1>1 DEF Told, AnswersAreTrue, Stored
<1> QED
  BY <1>1, <1>2, <1>3, IdleTypes DEF Told, Stored

(* The first statement of create_checkpoint keeps the answers true.        *)
LEMMA CheckpointLatestKeepsTold ==
    ASSUME TypeOK, Told, NEW w \in Writers, CheckpointLatest(w)
    PROVE  Told'
<1>1. PICK n, h :
         /\ n = IF Stored = {} THEN 0 ELSE Last(Stored)
         /\ h = IF Stored = {} THEN Genesis ELSE table[Last(Stored)].current_hash
  OBVIOUS
<1>2. PICK f : f = [IdleFrame EXCEPT !.pc = "count", !.sequence = n, !.hash = h]
  OBVIOUS
<1>3. f.pc = "count" /\ f.sequence = n /\ f.hash = h
  BY <1>2, IdleTypes DEF Frame
<1>4. wr' = [wr EXCEPT ![w] = f] /\ UNCHANGED <<table, answers, checkpoint, damage>>
  BY <1>1, <1>2 DEF CheckpointLatest
<1>5. \A v \in Writers : wr'[v] = IF v = w THEN f ELSE wr[v]
  BY <1>4 DEF TypeOK
<1>6. n # 0 => n \in Stored /\ table[n].current_hash = h
  BY <1>1, LastStored
<1> QED
  BY <1>3, <1>4, <1>5, <1>6 DEF Told, AnswersAreTrue, Stored

(* The second statement of create_checkpoint keeps the answers true.       *)
LEMMA CheckpointCountKeepsTold ==
    ASSUME TypeOK, Chained, Told, NEW w \in Writers, CheckpointCount(w)
    PROVE  Told'
<1>1. /\ wr[w].pc = "count" /\ UNCHANGED <<table, answers, damage>>
      /\ wr' = [wr EXCEPT ![w] = IdleFrame]
  BY DEF CheckpointCount, Return
<1>2. \A v \in Writers : wr'[v] = IF v = w THEN IdleFrame ELSE wr[v]
  BY <1>1 DEF TypeOK
<1>3. /\ checkpoint'.ending_sequence = wr[w].sequence
      /\ checkpoint'.ending_hash = wr[w].hash
      /\ wr[w].sequence # 0 => checkpoint'.event_count = Cardinality(Stored)
  BY DEF CheckpointCount
<1>4. damage.kind = "none" /\ wr[w].sequence # 0 => Cardinality(Stored) >= wr[w].sequence
  <2>1. SUFFICES ASSUME damage.kind = "none", wr[w].sequence # 0
                 PROVE  Cardinality(Stored) >= wr[w].sequence
    OBVIOUS
  <2>2. PICK k \in Nat : Stored = 1 .. k
    BY <2>1 DEF Chained, Altered
  <2>3. wr[w].sequence \in 1 .. k
    BY <1>1, <2>1, <2>2 DEF Told
  <2>4. Cardinality(1 .. k) = k
    BY <2>3, FS_Interval
  <2> QED
    BY <2>2, <2>3, <2>4
<1>5. damage.kind = "none" => AnswersAreTrue'
  BY <1>1, <1>3, <1>4 DEF Told, AnswersAreTrue, Stored
<1> QED
  BY <1>1, <1>2, <1>5, IdleTypes DEF Told, Stored

----------------------------------------------------------------------------
(* The theorems                                                            *)

AuditInv == TypeOK /\ LatestStaysLatest /\ Chained /\ Broken /\ Told

(* A step that returns, or moves its writer on, and changes nothing else.  *)
LEMMA QuietStep ==
    ASSUME AuditInv, UNCHANGED <<table, answers, checkpoint, damage>>,
           TypeOK', LatestStaysLatest', Told'
    PROVE  AuditInv'
  BY QuietKeepsChain DEF AuditInv

(* The empty table satisfies the invariant.                                *)
LEMMA InitHolds == Init => AuditInv
<1>1. SUFFICES ASSUME Init PROVE AuditInv
  OBVIOUS
<1>2. Stored = {} /\ \A w \in Writers : wr[w].pc = "idle"
  BY <1>1, IdleTypes DEF Init, Stored
<1>3. TypeOK
  BY <1>1, <1>2, IdleTypes DEF Init, TypeOK, Kinds
<1>4. LatestStaysLatest
  BY <1>1, <1>2, AuditAssumption DEF Init, LatestStaysLatest, InTransaction
<1>5. Chained
  <2>1. Stored = 1 .. 0 /\ \A n \in 1 .. 0 : Linked(n)
    BY <1>2
  <2> QED
    BY <2>1 DEF Chained
<1>6. Broken
  BY <1>1 DEF Init, Broken, Altered
<1>7. Told
  BY <1>1, <1>2 DEF Init, Told, AnswersAreTrue
<1> QED
  BY <1>3, <1>4, <1>5, <1>6, <1>7 DEF AuditInv

(* Every step of a writer keeps the invariant.                             *)
LEMMA StepHolds ==
    ASSUME AuditInv, NEW w \in Writers, Step(w)
    PROVE  AuditInv'
<1> USE DEF AuditInv
<1>1. CASE CallAppend(w)
  <2>1. \E f : wr' = [wr EXCEPT ![w] = f] /\ f.pc \notin {"return", "count"}
    <3>1. PICK b \in Bodies :
             wr' = [wr EXCEPT ![w] = [IdleFrame EXCEPT !.pc = "begin", !.body = b]]
      BY <1>1 DEF CallAppend
    <3>2. [IdleFrame EXCEPT !.pc = "begin", !.body = b].pc = "begin"
      BY IdleTypes DEF Frame
    <3> QED
      BY <3>1, <3>2
  <2>2. UNCHANGED <<table, answers, checkpoint, damage>>
    BY <1>1 DEF CallAppend
  <2>3. Told'
    BY <2>1, <2>2, QuietKeepsTold
  <2> QED
    BY <1>1, <2>2, <2>3, CallAppendKeepsTypes, StartStep, QuietStep
<1>2. CASE BeginImmediate(w)
  <2>1. /\ UNCHANGED <<table, answers, checkpoint, damage>>
        /\ dbLock' = w /\ Goto(w, "read") /\ "read" \in Steps
    BY <1>2 DEF BeginImmediate, Steps
  <2>2. wr' = [wr EXCEPT ![w] = [wr[w] EXCEPT !.pc = "read"]]
    BY <2>1 DEF Goto, TypeOK
  <2>3. [wr[w] EXCEPT !.pc = "read"].pc = "read"
    BY DEF TypeOK, Frame
  <2>4. Told'
    BY <2>1, <2>2, <2>3, QuietKeepsTold
  <2> QED
    BY <1>2, <2>1, <2>4, MoveKeepsTypes, BeginStep, QuietStep
<1>3. CASE Busy(w)
  <2>1. /\ UNCHANGED <<table, dbLock, answers, checkpoint, damage>>
        /\ Return(w) /\ wr[w].pc \notin InTransaction
    BY <1>3 DEF Busy, InTransaction
  <2>2. TypeOK'
    BY <2>1, MoveKeepsTypes DEF TypeOK
  <2> QED
    BY <2>1, <2>2, ReturnStep, ReturnKeepsTold, QuietStep
<1>4. CASE ReadLatest(w)
  <2>1. UNCHANGED <<table, answers, checkpoint, damage>>
    BY <1>4 DEF ReadLatest
  <2>2. Told'
    <3>1. CASE Rollback(w)
      BY <2>1, <3>1, ReturnKeepsTold DEF Rollback
    <3>2. CASE ~ Rollback(w)
      <4>1. PICK n, h : wr' = [wr EXCEPT ![w].pc = "insert", ![w].sequence = n, ![w].hash = h]
        BY <1>4, <3>2 DEF ReadLatest
      <4>2. wr' = [wr EXCEPT ![w] = [wr[w] EXCEPT !.pc = "insert", !.sequence = n, !.hash = h]]
        BY <4>1 DEF TypeOK
      <4>3. [wr[w] EXCEPT !.pc = "insert", !.sequence = n, !.hash = h].pc = "insert"
        BY DEF TypeOK, Frame
      <4> QED
        BY <2>1, <4>2, <4>3, QuietKeepsTold
    <3> QED
      BY <3>1, <3>2
  <2> QED
    BY <1>4, <2>1, <2>2, ReadLatestKeepsTypes, ReadLatestStep, QuietStep
<1>5. CASE InsertCommit(w)
  BY <1>5, InsertKeepsTypes, InsertStep, InsertKeepsChain, InsertKeepsTold
<1>6. CASE InsertFails(w) \/ TransactionFails(w)
  <2>1. /\ UNCHANGED <<table, answers, checkpoint, damage>>
        /\ Rollback(w) /\ wr[w].pc \in InTransaction
    BY <1>6 DEF InsertFails, TransactionFails, InTransaction
  <2>2. TypeOK'
    BY <2>1, MoveKeepsTypes DEF Rollback
  <2>3. LatestStaysLatest'
    BY <2>1, RollbackStep
  <2> QED
    BY <2>1, <2>2, <2>3, ReturnKeepsTold, QuietStep DEF Rollback
<1>7. CASE ReturnSummary(w)
  <2>1. /\ UNCHANGED <<table, dbLock, damage>>
        /\ Return(w) /\ wr[w].pc \notin InTransaction
    BY <1>7 DEF ReturnSummary, InTransaction
  <2>2. LatestStaysLatest'
    BY <2>1, ReturnStep
  <2>3. Chained' /\ Broken'
    BY <2>1, QuietKeepsChain
  <2> QED
    BY <1>7, <2>2, <2>3, ReturnKeepsTypes, SummaryKeepsTold
<1>8. CASE Crash(w)
  <2>1. /\ UNCHANGED <<table, answers, checkpoint, damage>>
        /\ Return(w) /\ dbLock' \in {dbLock, NoWriter}
    BY <1>8 DEF Crash
  <2>2. TypeOK'
    BY <2>1, MoveKeepsTypes DEF TypeOK
  <2> QED
    BY <1>8, <2>1, <2>2, CrashStep, ReturnKeepsTold, QuietStep
<1>9. CASE CheckpointLatest(w)
  <2>1. UNCHANGED <<table, answers, checkpoint, damage>>
    BY <1>9 DEF CheckpointLatest
  <2> QED
    BY <1>9, <2>1, CheckpointLatestKeepsTypes, StartStep, CheckpointLatestKeepsTold, QuietStep
<1>10. CASE CheckpointCount(w)
  <2>1. /\ UNCHANGED <<table, dbLock, damage>>
        /\ Return(w) /\ wr[w].pc \notin InTransaction
    BY <1>10 DEF CheckpointCount, InTransaction
  <2>2. LatestStaysLatest'
    BY <2>1, ReturnStep
  <2>3. Chained' /\ Broken'
    BY <2>1, QuietKeepsChain
  <2> QED
    BY <1>10, <2>2, <2>3, CheckpointCountKeepsTypes, CheckpointCountKeepsTold
<1> QED
  BY <1>1, <1>2, <1>3, <1>4, <1>5, <1>6, <1>7, <1>8, <1>9, <1>10 DEF Step

(* Damage from outside keeps the invariant.                                *)
LEMMA TamperHolds ==
    ASSUME AuditInv, Tamper
    PROVE  AuditInv'
<1> USE DEF AuditInv
<1>1. TypeOK'
  BY TamperKeepsTypes
<1>2. PICK kind, n : /\ kind \in {"column", "alias", "move", "delete", "truncate"}
                     /\ Damage(kind, n)
  BY DEF Tamper, DamageColumn, DamageAlias, DamageSequence, DeleteRow, Truncate
<1>3. LatestStaysLatest'
  BY <1>2, DamageStep
<1>4. Chained' /\ Broken'
  BY ColumnKeepsChain, AliasKeepsChain, MoveKeepsChain, DeleteKeepsChain, TruncateKeepsChain DEF Tamper
<1>5. damage'.kind # "none"
  BY <1>2 DEF Damage
<1>6. Told'
  BY <1>5 DEF Told
<1> QED
  BY <1>1, <1>3, <1>4, <1>6

(* The invariant holds at the start and every step keeps it.               *)
THEOREM AuditInvariance == Spec => []AuditInv
<1>1. AuditInv /\ [Next]_vars => AuditInv'
  <2>1. SUFFICES ASSUME AuditInv, [Next]_vars PROVE AuditInv'
    OBVIOUS
  <2>2. CASE \E w \in Writers : Step(w)
    BY <2>1, <2>2, StepHolds
  <2>3. CASE Tamper
    BY <2>1, <2>3, TamperHolds
  <2>4. CASE UNCHANGED vars
    <3>1. UNCHANGED <<table, dbLock, wr, answers, checkpoint, damage>>
      BY <2>4 DEF vars
    <3>2. TypeOK' /\ LatestStaysLatest' /\ Told'
      BY <2>1, <3>1 DEF AuditInv, TypeOK, LatestStaysLatest, Told, AnswersAreTrue, Stored
    <3> QED
      BY <2>1, <3>1, <3>2, QuietStep
  <2> QED
    BY <2>1, <2>2, <2>3, <2>4 DEF Next
<1> QED
  BY <1>1, InitHolds, PTL DEF Spec

(* Every variable keeps its type: sequences fit an INTEGER and hashes have *)
(* 32 bytes or are known to be malformed.                                  *)
THEOREM AuditTypes == Spec => []TypeOK
<1>1. AuditInv => TypeOK
  BY DEF AuditInv
<1> QED
  BY <1>1, AuditInvariance, PTL

(* An immediate transaction excludes other writers from the read of the    *)
(* latest event to the insert, in any number of processes                  *)
(* (LatestStaysLatest).                                                    *)
THEOREM OneTransaction == Spec => []LatestStaysLatest
<1>1. AuditInv => LatestStaysLatest
  BY DEF AuditInv
<1> QED
  BY <1>1, AuditInvariance, PTL

(* What processes append, whatever fails, verifies (NoFalseAlarm).         *)
THEOREM GenuineChainVerifies == Spec => []NoFalseAlarm
<1>1. AuditInv => NoFalseAlarm
  BY ChainVerifies DEF AuditInv, Chained, NoFalseAlarm
<1> QED
  BY <1>1, AuditInvariance, PTL

(* A change of the canonical bytes, a hash or the sequence of one row, or  *)
(* the loss of one before the end, is seen by every later full             *)
(* verification, whatever is appended after it and whichever columns       *)
(* encode_canonical gives the same bytes (TamperEvident).                  *)
THEOREM AlterationIsSeen == Spec => []TamperEvident
<1>1. AuditInv => TamperEvident
  BY FaultSeen DEF AuditInv, Broken, TamperEvident
<1> QED
  BY <1>1, AuditInvariance, PTL

(* Callers of append and create_checkpoint are told what is in the table   *)
(* (AnswersAreTrue).                                                       *)
THEOREM TruthfulAnswers == Spec => []AnswersAreTrue
<1>1. AuditInv => AnswersAreTrue
  BY DEF AuditInv, Told, AnswersAreTrue
<1> QED
  BY <1>1, AuditInvariance, PTL

----------------------------------------------------------------------------
(* The store implements the log                                            *)

(* The log that a table stands for.                                        *)
Events == [n \in 1 .. Cardinality(Stored) |-> table[n].body]

(* Without damage the log is as long as the table and has its bodies.      *)
LEMMA EventsOfChain ==
    ASSUME AuditInv, damage.kind = "none"
    PROVE  \E k \in Nat : /\ Stored = 1 .. k /\ Cardinality(Stored) = k
                          /\ Events \in Seq(Bodies) /\ Len(Events) = k
                          /\ \A n \in 1 .. k : Events[n] = table[n].body
<1>1. PICK k \in Nat : Stored = 1 .. k /\ \A n \in 1 .. k : Linked(n)
  BY DEF AuditInv, Chained, Altered
<1>2. Cardinality(1 .. k) = k
  BY FS_Interval
<1>3. \A n \in 1 .. k : table[n].body \in Bodies
  BY <1>1 DEF Linked, Readable, AuditInv, TypeOK, Row
<1>4. Events = [n \in 1 .. k |-> table[n].body]
  BY <1>1, <1>2 DEF Events
<1>5. Events \in Seq(Bodies) /\ Len(Events) = k
  BY <1>3, <1>4
<1> QED
  BY <1>1, <1>2, <1>4, <1>5

(* A step that changes neither table nor answers is no step of the log.    *)
LEMMA QuietIsStutter ==
    ASSUME UNCHANGED <<table, answers>>
    PROVE  UNCHANGED <<Events, answers>>
  BY DEF Events, Stored

(* The commit of a transaction records one event.                          *)
LEMMA CommitRecords ==
    ASSUME AuditInv, AuditInv', damage.kind = "none", NEW w \in Writers, InsertCommit(w)
    PROVE  wr[w].body \in Bodies /\ Events' = Append(Events, wr[w].body)
           /\ UNCHANGED answers
<1>1. PICK k \in Nat : /\ Stored = 1 .. k /\ Cardinality(Stored) = k
                       /\ Events \in Seq(Bodies) /\ Len(Events) = k
                       /\ \A n \in 1 .. k : Events[n] = table[n].body
  BY EventsOfChain
<1> DEFINE n == wr[w].sequence
<1> DEFINE row == NewRow(n, wr[w].body, wr[w].hash)
<1>2. /\ wr[w].body \in Bodies
      /\ n = IF Stored = {} THEN 1 ELSE Last(Stored) + 1
  BY DEF AuditInv, LatestStaysLatest, InsertCommit
<1>3. n = k + 1
  <2>1. CASE k = 0
    BY <1>1, <1>2, <2>1
  <2>2. CASE k # 0
    <3>1. Stored # {} /\ Last(Stored) = k
      BY <1>1, <2>2, LastOfInterval
    <3> QED
      BY <1>2, <3>1
  <2> QED
    BY <2>1, <2>2
<1>4. table' = [m \in (1 .. k) \cup {k + 1} |-> IF m = k + 1 THEN row ELSE table[m]]
  BY <1>1, <1>3 DEF InsertCommit, Insert
<1>5. (1 .. k) \cup {k + 1} = 1 .. (k + 1)
  BY <1>1
<1>6. Stored' = 1 .. (k + 1)
  BY <1>4, <1>5 DEF Stored
<1>7. Cardinality(1 .. (k + 1)) = k + 1
  BY <1>1, FS_Interval
<1>8. Events' = [m \in 1 .. (k + 1) |-> table'[m].body]
  BY <1>6, <1>7 DEF Events
<1>9. row.body = wr[w].body
  BY DEF NewRow
<1>10. \A m \in 1 .. (k + 1) : table'[m].body = IF m = k + 1 THEN wr[w].body ELSE Events[m]
  BY <1>1, <1>4, <1>5, <1>9
<1>11. Events' = [m \in 1 .. (k + 1) |-> IF m = k + 1 THEN wr[w].body ELSE Events[m]]
  BY <1>8, <1>10
<1>12. Append(Events, wr[w].body)
         = [m \in 1 .. (k + 1) |-> IF m = k + 1 THEN wr[w].body ELSE Events[m]]
  BY <1>1, <1>2
<1> QED
  BY <1>2, <1>11, <1>12 DEF InsertCommit

(* The summary tells an event of the log.                                  *)
LEMMA SummaryAnswers ==
    ASSUME AuditInv, damage.kind = "none", NEW w \in Writers, ReturnSummary(w)
    PROVE  \E n \in 1 .. Len(Events) :
              answers' = answers \cup {<<n, Events[n]>>} /\ UNCHANGED Events
<1>1. PICK k \in Nat : /\ Stored = 1 .. k /\ Cardinality(Stored) = k
                       /\ Events \in Seq(Bodies) /\ Len(Events) = k
                       /\ \A n \in 1 .. k : Events[n] = table[n].body
  BY EventsOfChain
<1>2. wr[w].sequence \in Stored /\ table[wr[w].sequence].body = wr[w].body
  BY DEF AuditInv, Told, ReturnSummary
<1>3. answers' = answers \cup {<<wr[w].sequence, Events[wr[w].sequence]>>}
  BY <1>1, <1>2 DEF ReturnSummary
<1>4. UNCHANGED Events
  BY DEF ReturnSummary, Events, Stored
<1> QED
  BY <1>1, <1>2, <1>3, <1>4

(* While nobody damages the table, the store implements the log, for any   *)
(* number of processes, failed transactions and crashes (ImplementsLog).   *)
THEOREM LogRefinement == Spec => ImplementsLog
<1>1. Init => Log!LogInit
  <2>1. SUFFICES ASSUME Init PROVE Events = <<>> /\ answers = {}
    BY DEF Log!LogInit, Events
  <2>2. Stored = {}
    BY <2>1 DEF Init, Stored
  <2>3. Cardinality({}) = 0
    BY FS_EmptySet
  <2>4. Events = [n \in 1 .. 0 |-> table[n].body]
    BY <2>2, <2>3 DEF Events
  <2> QED
    BY <2>1, <2>4 DEF Init
<1>2. AuditInv /\ AuditInv' /\ [Next]_vars
        => [damage'.kind = "none" => Log!LogNext \/ UNCHANGED Log!logVars]_vars
  <2>1. SUFFICES ASSUME AuditInv, AuditInv', Next, damage'.kind = "none"
                 PROVE  \/ \E b \in Bodies : Events' = Append(Events, b) /\ UNCHANGED answers
                        \/ \E n \in 1 .. Len(Events) :
                              answers' = answers \cup {<<n, Events[n]>>} /\ UNCHANGED Events
                        \/ UNCHANGED <<Events, answers>>
    BY DEF Log!LogNext, Log!Record, Log!Answer, Log!logVars, Events
  <2>2. ~Tamper
    BY <2>1 DEF Tamper, DamageColumn, DamageAlias, DamageSequence, DeleteRow, Truncate, Damage
  <2>3. PICK w \in Writers : Step(w)
    BY <2>1, <2>2 DEF Next
  <2>4. damage.kind = "none"
    BY <2>1, <2>3 DEF Step, CallAppend, BeginImmediate, Busy, ReadLatest, InsertCommit,
                      InsertFails, TransactionFails, ReturnSummary, Crash,
                      CheckpointLatest, CheckpointCount
  <2>5. CASE InsertCommit(w)
    BY <2>1, <2>4, <2>5, CommitRecords
  <2>6. CASE ReturnSummary(w)
    BY <2>1, <2>4, <2>6, SummaryAnswers
  <2>7. CASE ~InsertCommit(w) /\ ~ReturnSummary(w)
    <3>1. UNCHANGED <<table, answers>>
      BY <2>3, <2>7 DEF Step, CallAppend, BeginImmediate, Busy, ReadLatest, InsertFails,
                        TransactionFails, Crash, CheckpointLatest, CheckpointCount
    <3> QED
      BY <3>1, QuietIsStutter
  <2> QED
    BY <2>5, <2>6, <2>7
<1> QED
  BY <1>1, <1>2, AuditInvariance, PTL DEF Spec, ImplementsLog

----------------------------------------------------------------------------
(* Bounded verification                                                    *)

(* The hash that a row in place n has to continue.                         *)
Predecessor(n) == IF n = 1 THEN Genesis ELSE table[n - 1].current_hash

(* The first row from place n on is in place j and does not continue what  *)
(* is before place n.                                                      *)
Spoiled(n, j) ==
    /\ n <= j
    /\ \A i \in Stored : n <= i => j <= i
    /\ \/ ~Readable(j)
       \/ table[j].previous_hash # Predecessor(n)
       \/ table[j].current_hash # Append(Predecessor(n), <<j, Encoding[table[j].body]>>)

(* Altered rows are known by their place: nothing is missing before it and *)
(* the first row from there on is spoiled, for ever.                       *)
Located == Altered => /\ damage.at \in Nat \ {0}
                      /\ 1 .. (damage.at - 1) \subseteq Stored
                      /\ \E j \in Stored : Spoiled(damage.at, j)

(* Last of a set below n that has n - 1.                                   *)
LEMMA LastBelow ==
    ASSUME NEW N \in Nat, NEW S, S \subseteq 0 .. N, NEW n \in Nat, n - 1 \in S,
           \A m \in S : m < n
    PROVE  Last(S) = n - 1
<1>1. Last(S) \in S /\ \A m \in S : m <= Last(S)
  BY LastIsLargest
<1>2. \A m \in S : m \in Nat
  OBVIOUS
<1>3. PICK l : l = Last(S)
  OBVIOUS
<1>4. l \in S /\ n - 1 <= l
  BY <1>1, <1>3
<1>5. l \in Nat /\ l < n
  BY <1>2, <1>4
<1> QED
  BY <1>3, <1>4, <1>5

(* A step that changes neither the table nor the damage.                   *)
LEMMA QuietKeepsPlace ==
    ASSUME Located, UNCHANGED <<table, damage>>
    PROVE  Located'
<1>1. Stored' = Stored /\ (Altered' <=> Altered)
  BY DEF Stored, Altered
<1>2. \A n, j : Spoiled(n, j)' <=> Spoiled(n, j)
  BY <1>1 DEF Spoiled, Predecessor, Readable
<1> QED
  BY <1>1, <1>2 DEF Located

(* A new row comes after the spoiled one.                                  *)
LEMMA InsertKeepsPlace ==
    ASSUME TypeOK, LatestStaysLatest, Located, NEW w \in Writers, InsertCommit(w)
    PROVE  Located'
<1>1. PICK n \in 1 .. MaxI64 : /\ \A m \in Stored : m < n
                               /\ DOMAIN table' = Stored \cup {n}
                               /\ \A m \in Stored : table'[m] = table[m]
  BY InsertTable
<1>2. damage' = damage /\ n \in Nat /\ \A m \in Stored : m \in Nat
  BY <1>1, AuditAssumption DEF InsertCommit, TypeOK
<1>3. Stored' = Stored \cup {n}
  BY <1>1 DEF Stored
<1>4. SUFFICES ASSUME Altered PROVE Located'
  BY <1>2 DEF Located, Altered
<1>5. damage.at \in Nat \ {0} /\ 1 .. (damage.at - 1) \subseteq Stored
  BY <1>4 DEF Located
<1>6. PICK j \in Stored : Spoiled(damage.at, j)
  BY <1>4 DEF Located
<1>7. table'[j] = table[j] /\ (Readable(j)' <=> Readable(j))
  BY <1>1 DEF Readable
<1>8. Predecessor(damage.at)' = Predecessor(damage.at)
  <2>1. damage.at # 1 => damage.at - 1 \in Stored
    BY <1>5
  <2> QED
    BY <1>1, <1>2, <2>1 DEF Predecessor
<1>9. \A i \in Stored' : damage.at <= i => j <= i
  BY <1>1, <1>2, <1>3, <1>6 DEF Spoiled
<1>10. Spoiled(damage.at, j)'
  BY <1>2, <1>6, <1>7, <1>8, <1>9 DEF Spoiled
<1> QED
  BY <1>2, <1>3, <1>5, <1>10 DEF Located

(* What a row says of the one before it differs from any hash before it.   *)
LEMMA NextIsLonger ==
    ASSUME NEW s \in Digest, NEW x \in Nat \X Bytes
    PROVE  Append(s, x) # s
<1>1. Len(Append(s, x)) = Len(s) + 1 /\ Len(s) \in Nat
  BY DEF Digest
<1> QED
  BY <1>1

(* Altering one row of a whole chain spoils it in its place.               *)
LEMMA TamperKeepsPlace ==
    ASSUME TypeOK, Chained, Tamper
    PROVE  Located'
<1>1. CASE Truncate
  <2>1. damage'.kind = "truncate"
    BY <1>1, DamagedOnce DEF Truncate
  <2> QED
    BY <2>1 DEF Located, Altered
<1>7. ASSUME NEW n \in Stored, DamageAlias(n) PROVE Located'
  <2>1. damage'.kind = "alias"
    BY <1>7, DamagedOnce DEF DamageAlias
  <2> QED
    BY <2>1 DEF Located, Altered
<1>2. ASSUME NEW n \in Stored, NEW kind \in Kinds, Damage(kind, n)
      PROVE  /\ damage'.at = n /\ n \in Nat \ {0}
             /\ \E k \in Nat : Stored = 1 .. k /\ \A m \in 1 .. k : Linked(m)
  <2>1. damage' = [kind |-> kind, at |-> n]
    BY <1>2 DEF Damage
  <2>2. n \in 1 .. MaxI64
    BY DEF TypeOK
  <2> QED
    BY <1>2, <2>1, <2>2, DamagedOnce, AuditAssumption
<1>3. ASSUME NEW n \in Stored, DamageColumn(n) PROVE Located'
  <2>1. damage'.at = n /\ n \in Nat \ {0}
    BY <1>2, <1>3 DEF DamageColumn, Kinds
  <2>2. PICK k \in Nat : Stored = 1 .. k /\ \A m \in 1 .. k : Linked(m)
    BY <1>2, <1>3 DEF DamageColumn, Kinds
  <2>3. PICK row : /\ table' = [table EXCEPT ![n] = row]
                   /\ \/ row.body = Unreadable
                      \/ row.previous_hash # table[n].previous_hash
                      \/ row.current_hash #
                            Append(table[n].previous_hash, <<n, Encoding[row.body]>>)
    BY <1>3, <2>2, ColumnSpoils
  <2>4. Stored' = 1 .. k /\ table'[n] = row /\ (n # 1 => table'[n - 1] = table[n - 1])
    BY <2>1, <2>2, <2>3 DEF Stored, TypeOK
  <2>5. table[n].previous_hash = Predecessor(n)'
    <3>1. n = 1 => table[n].previous_hash = Genesis
      BY <2>2, LinkedRow
    <3>2. n # 1 => table[n].previous_hash = table[n - 1].current_hash
      BY <2>2, LinkedRow
    <3> QED
      BY <2>4, <3>1, <3>2 DEF Predecessor
  <2>6. \A i \in Stored' : n <= i => n <= i
    OBVIOUS
  <2>7. Spoiled(n, n)'
    BY <2>1, <2>3, <2>4, <2>5, <2>6 DEF Spoiled, Readable
  <2>8. n \in Stored' /\ 1 .. (n - 1) \subseteq Stored'
    BY <2>1, <2>2, <2>4
  <2> QED
    BY <2>1, <2>7, <2>8 DEF Located
<1>4. ASSUME NEW n \in Stored, NEW k \in Nat, Stored = 1 .. k,
             \A m \in 1 .. k : Linked(m), n # k,
             n \notin Stored', 1 .. k \subseteq Stored' \cup {n},
             \A m \in Stored \ {n} : table'[m] = table[m],
             \A i \in Stored' : i \in Nat
      PROVE  n + 1 \in Stored' /\ Spoiled(n, n + 1)'
  <2>1. n \in 1 .. k /\ n \in Nat /\ n + 1 \in 1 .. k /\ (n + 1) - 1 = n /\ n + 1 # 1
    BY <1>4
  <2>2. n + 1 \in Stored' /\ table'[n + 1] = table[n + 1]
    BY <1>4, <2>1
  <2>3. table[n + 1].previous_hash = table[n].current_hash
    <3>1. \A q \in 1 .. k : q # 1 => table[q].previous_hash = table[q - 1].current_hash
      BY <1>4, LinkedRow
    <3> QED
      BY <2>1, <3>1
  <2>4. /\ table[n].current_hash = Append(table[n].previous_hash, <<n, Encoding[table[n].body]>>)
        /\ <<n, Encoding[table[n].body]>> \in Nat \X Bytes /\ table[n].previous_hash \in Digest
        /\ n = 1 => table[n].previous_hash = Genesis
        /\ n # 1 => n - 1 \in 1 .. k /\ table[n].previous_hash = table[n - 1].current_hash
    BY <1>4, <2>1, LinkedRow
  <2>5. Predecessor(n)' = table[n].previous_hash
    <3>1. n # 1 => table'[n - 1] = table[n - 1]
      BY <1>4, <2>1, <2>4
    <3> QED
      BY <2>4, <3>1 DEF Predecessor
  <2>6. table'[n + 1].previous_hash # Predecessor(n)'
    BY <2>2, <2>3, <2>4, <2>5, NextIsLonger
  <2>7. \A i \in Stored' : n <= i => n + 1 <= i
    BY <1>4, <2>1
  <2> QED
    BY <2>1, <2>2, <2>6, <2>7 DEF Spoiled
<1>5. ASSUME NEW n \in Stored, DeleteRow(n) PROVE Located'
  <2>1. damage'.at = n /\ n \in Nat \ {0}
    BY <1>2, <1>5 DEF DeleteRow, Kinds
  <2>2. PICK k \in Nat : Stored = 1 .. k /\ \A m \in 1 .. k : Linked(m)
    BY <1>2, <1>5 DEF DeleteRow, Kinds
  <2>3. n # k
    <3>1. k \in Nat \ {0}
      BY <2>1, <2>2
    <3> QED
      BY <1>5, <2>2, <3>1, LastOfInterval DEF DeleteRow
  <2>4. Stored' = Stored \ {n} /\ \A m \in Stored \ {n} : table'[m] = table[m]
    BY <1>5 DEF DeleteRow, Without, Stored
  <2>5. n + 1 \in Stored' /\ Spoiled(n, n + 1)'
    <3>1. n \notin Stored' /\ 1 .. k \subseteq Stored' \cup {n} /\ \A i \in Stored' : i \in Nat
      BY <2>2, <2>4
    <3> QED
      BY <1>4, <2>2, <2>3, <2>4, <3>1
  <2>6. 1 .. (n - 1) \subseteq Stored'
    BY <2>1, <2>2, <2>4
  <2> QED
    BY <2>1, <2>5, <2>6 DEF Located
<1>6. ASSUME NEW n \in Stored, DamageSequence(n) PROVE Located'
  <2>1. damage'.at = n /\ n \in Nat \ {0}
    BY <1>2, <1>6 DEF DamageSequence, Kinds
  <2>2. PICK k \in Nat : Stored = 1 .. k /\ \A m \in 1 .. k : Linked(m)
    BY <1>2, <1>6 DEF DamageSequence, Kinds
  <2>3. PICK m \in (1 .. MaxI64) \ Stored :
           table' = [j \in (Stored \ {n}) \cup {m} |-> IF j = m THEN table[n] ELSE table[j]]
    BY <1>6 DEF DamageSequence
  <2>4. m \in Nat /\ m > k /\ n \in 1 .. k
    BY <2>2, <2>3, AuditAssumption
  <2>5. /\ Stored' = (Stored \ {n}) \cup {m} /\ table'[m] = table[n]
        /\ \A j \in Stored \ {n} : table'[j] = table[j]
    BY <2>3 DEF Stored
  <2>6. /\ n \notin Stored' /\ 1 .. k \subseteq Stored' \cup {n}
        /\ \A i \in Stored' : i \in Nat
    BY <2>2, <2>4, <2>5
  <2>7. 1 .. (n - 1) \subseteq Stored'
    BY <2>1, <2>2, <2>4, <2>5
  <2>8. CASE n # k
    <3>1. n + 1 \in Stored' /\ Spoiled(n, n + 1)'
      BY <1>4, <2>2, <2>5, <2>6, <2>8
    <3> QED
      BY <2>1, <2>7, <3>1 DEF Located
  <2>9. CASE n = k
    <3>1. /\ table[n].current_hash = Append(table[n].previous_hash, <<n, Encoding[table[n].body]>>)
          /\ <<n, Encoding[table[n].body]>> \in Nat \X Bytes /\ table[n].previous_hash \in Digest
          /\ n = 1 => table[n].previous_hash = Genesis
          /\ n # 1 => n - 1 \in 1 .. k /\ table[n].previous_hash = table[n - 1].current_hash
      BY <2>2, <2>4, LinkedRow
    <3>2. Predecessor(n)' = table[n].previous_hash
      <4>1. n # 1 => table'[n - 1] = table[n - 1]
        BY <2>1, <2>2, <2>5, <3>1
      <4> QED
        BY <3>1, <4>1 DEF Predecessor
    <3>3. <<m, Encoding[table[n].body]>> \in Nat \X Bytes
      BY EncodingTypes, <2>4, <3>1
    <3>4. table[n].current_hash # Append(table[n].previous_hash, <<m, Encoding[table[n].body]>>)
      <4>1. SUFFICES ASSUME Append(table[n].previous_hash, <<n, Encoding[table[n].body]>>) =
                               Append(table[n].previous_hash, <<m, Encoding[table[n].body]>>)
                     PROVE  FALSE
        BY <3>1
      <4>2. <<n, Encoding[table[n].body]>> = <<m, Encoding[table[n].body]>>
        BY <3>1, <3>3, <4>1, HashesDiffer
      <4> QED
        BY <2>4, <2>9, <4>2
    <3>5. \A i \in Stored' : n <= i => m <= i
      BY <2>2, <2>4, <2>5, <2>9
    <3>6. Spoiled(n, m)'
      BY <2>4, <2>5, <2>9, <3>2, <3>4, <3>5 DEF Spoiled
    <3> QED
      BY <2>1, <2>5, <2>7, <3>6 DEF Located
  <2> QED
    BY <2>8, <2>9
<1> QED
  BY <1>1, <1>3, <1>5, <1>6, <1>7 DEF Tamper

(* The place of the damage stays known.                                    *)
THEOREM DamageLocated == Spec => []Located
<1>1. Init => Located
  BY DEF Init, Located, Altered
<1>2. AuditInv /\ Located /\ [Next]_vars => Located'
  <2>1. SUFFICES ASSUME AuditInv, Located, [Next]_vars PROVE Located'
    OBVIOUS
  <2>2. CASE Tamper
    BY <2>1, <2>2, TamperKeepsPlace DEF AuditInv
  <2>3. CASE \E w \in Writers : InsertCommit(w)
    BY <2>1, <2>3, InsertKeepsPlace DEF AuditInv
  <2>4. CASE UNCHANGED <<table, damage>>
    BY <2>1, <2>4, QuietKeepsPlace
  <2>5. ASSUME NEW w \in Writers, Step(w), ~InsertCommit(w) PROVE UNCHANGED <<table, damage>>
    BY <2>5 DEF Step, CallAppend, BeginImmediate, Busy, ReadLatest, InsertFails,
                TransactionFails, ReturnSummary, Crash, CheckpointLatest, CheckpointCount
  <2> QED
    BY <2>1, <2>2, <2>3, <2>4, <2>5 DEF Next, vars
<1> QED
  BY <1>1, <1>2, AuditInvariance, PTL DEF Spec

(* The rows that verify_range fetches.                                     *)
InRange(start, end) == {n \in Stored : start <= n /\ n <= end}

(* The hash that verify_range starts from.                                 *)
First(start) == IF start <= 1 THEN Genesis ELSE table[start - 1].current_hash

(* A range that has the damage and a row after it is not valid.            *)
LEMMA RangeSeesDamage ==
    ASSUME TypeOK, Located, Altered, NEW start \in Nat, NEW end \in Nat,
           start <= damage.at, \E n \in Stored : damage.at <= n /\ n <= end
    PROVE  verify_range(start, end) # "valid"
<1> DEFINE at == damage.at
           S == InRange(start, end)
<1>1. at \in Nat \ {0} /\ 1 .. (at - 1) \subseteq Stored
  BY DEF Located
<1>2. PICK j \in Stored : Spoiled(at, j)
  BY DEF Located
<1>3. \A m \in Stored : m \in Nat \ {0}
  BY AuditAssumption DEF TypeOK
<1>4. j \in S /\ at <= j /\ \A i \in Stored : at <= i => j <= i
  BY <1>1, <1>2, <1>3 DEF Spoiled, InRange
<1>5. Before(S, j) = {m \in Stored : start <= m /\ m < at}
  <2>1. \A m \in Stored : (m <= end /\ m < j) <=> m < at
    BY <1>1, <1>3, <1>4 DEF InRange
  <2> QED
    BY <2>1 DEF Before, InRange
<1>6. Expected(S, First(start), j) = Predecessor(at)
  <2>1. CASE at = 1 \/ start = at
    <3>1. Before(S, j) = {}
      BY <1>1, <1>3, <1>5, <2>1
    <3>2. First(start) = Predecessor(at)
      BY <1>1, <2>1 DEF First, Predecessor
    <3> QED
      BY <3>1, <3>2 DEF Expected
  <2>2. CASE at # 1 /\ start # at
    <3>1. at - 1 \in Before(S, j)
      BY <1>1, <1>5, <2>2
    <3>2. Before(S, j) \subseteq 0 .. at /\ \A m \in Before(S, j) : m < at
      BY <1>1, <1>3, <1>5
    <3>3. Last(Before(S, j)) = at - 1
      BY <1>1, <3>1, <3>2, LastBelow
    <3> QED
      BY <2>2, <3>1, <3>3 DEF Expected, Predecessor
  <2> QED
    BY <2>1, <2>2
<1>7. Readable(j) => ~EventVerifies(S, First(start), j)
  BY <1>2, <1>6 DEF Spoiled, EventVerifies, Compute, encode_canonical
<1>8. verify_events(S, First(start)) # "valid"
  BY <1>4, <1>7 DEF verify_events
<1> QED
  BY <1>8 DEF verify_range, InRange, First

(* A u64 that does not overflow.                                           *)
LEMMA NoOverflow ==
    ASSUME NEW M \in Nat, NEW x \in 0 .. M
    PROVE  x % (M + 1) = x
  OBVIOUS

(* A u64 that wraps around.                                                *)
LEMMA WrapsAround ==
    ASSUME NEW M \in Nat, NEW x \in 1 .. M
    PROVE  (-x) % (M + 1) = M + 1 - x
<1>1. -x = (M + 1) * (-1) + (M + 1 - x)
  OBVIOUS
<1>2. M + 1 - x \in 0 .. M
  OBVIOUS
<1> QED
  BY <1>1, <1>2

(* A range that ends before it starts is refused.                          *)
LEMMA BackwardsRange ==
    ASSUME NEW start \in 0 .. MaxU64, NEW end \in 0 .. MaxU64, end + 1 < start
    PROVE  verify_range(start, end) = "error"
<1>1. MaxI64 \in Nat /\ MaxU64 \in Nat /\ MaxRange \in Nat /\ MaxI64 + MaxRange <= MaxU64
  BY AuditAssumption
<1>2. start \in Nat /\ end \in Nat
  BY <1>1
<1>3. CASE start > MaxI64
  BY <1>3 DEF verify_range, RangeRejected
<1>4. CASE start <= MaxI64
  <2>1. PICK x \in 1 .. MaxU64 : x = start - end - 1
    BY <1>1, <1>2, <1>4
  <2>2. end - start + 1 = -x
    BY <1>2, <2>1
  <2>3. (end - start + 1) % (MaxU64 + 1) = MaxU64 + 1 - x
    BY <1>1, <2>2, WrapsAround
  <2>4. x < MaxI64 + 1
    BY <1>1, <1>2, <1>4, <2>1
  <2>5. MaxU64 + 1 - x > MaxRange
    BY <1>1, <2>1, <2>4
  <2> QED
    BY <2>3, <2>5 DEF verify_range, RangeRejected
<1> QED
  BY <1>1, <1>2, <1>3, <1>4

(* A range of a linked chain that is in bounds is valid.                   *)
LEMMA RangeOfChain ==
    ASSUME NEW k \in Nat, Stored = 1 .. k, \A n \in 1 .. k : Linked(n),
           NEW start \in Nat, NEW end \in Nat, 1 <= start, start <= end, end <= MaxI64,
           end - start < MaxRange, start = 1 \/ start - 1 \in Stored
    PROVE  verify_range(start, end) = "valid"
<1> DEFINE S == InRange(start, end)
<1>1. ~RangeRejected(start, end)
  <2>1. MaxRange \in Nat /\ MaxU64 \in Nat /\ MaxRange < MaxU64 /\ MaxI64 \in Nat
    <3>1. MaxI64 \in Nat \ {0} /\ MaxI64 + MaxRange <= MaxU64
      BY AuditAssumption
    <3>2. MaxRange \in Nat /\ MaxU64 \in Nat
      BY AuditAssumption
    <3> QED
      BY <3>1, <3>2
  <2>2. end - start + 1 \in 0 .. MaxU64 /\ end - start + 1 <= MaxRange
    BY <2>1
  <2>3. (end - start + 1) % (MaxU64 + 1) = end - start + 1
    BY <2>1, <2>2, NoOverflow
  <2>4. ~(end < start) /\ end - start # MaxU64 /\ ~(start > MaxI64) /\ ~(end > MaxI64)
    BY <2>1
  <2>5. ~(end - start + 1 > MaxRange)
    BY <2>1, <2>2
  <2> QED
    BY <2>3, <2>4, <2>5 DEF RangeRejected
<1>2. \A n \in Stored : Readable(n)
  BY ChainReadable
<1>3. \A n \in S : EventVerifies(S, First(start), n)
  <2>1. SUFFICES ASSUME NEW n \in S PROVE EventVerifies(S, First(start), n)
    OBVIOUS
  <2>2. n \in 1 .. k /\ n \in Nat /\ start <= n /\ n <= end
    BY DEF InRange
  <2>3. Before(S, n) = start .. (n - 1)
    BY <2>2 DEF Before, InRange
  <2>4. /\ table[n].previous_hash = IF n = 1 THEN Genesis ELSE table[n - 1].current_hash
        /\ table[n].current_hash = Append(table[n].previous_hash, <<n, Encoding[table[n].body]>>)
    BY <2>2 DEF Linked
  <2>5. CASE n = start
    <3>1. Before(S, n) = {}
      BY <2>2, <2>3, <2>5
    <3>2. Expected(S, First(start), n) = table[n].previous_hash
      BY <2>2, <2>4, <2>5, <3>1 DEF Expected, First
    <3> QED
      BY <2>4, <3>1, <3>2 DEF EventVerifies, Compute, encode_canonical
  <2>6. CASE n # start
    <3>1. n - 1 \in Before(S, n) /\ n # 1
      BY <2>2, <2>3, <2>6
    <3>2. Before(S, n) \subseteq 0 .. n /\ \A m \in Before(S, n) : m < n
      BY <2>2, <2>3
    <3>3. Last(Before(S, n)) = n - 1
      BY <2>2, <3>1, <3>2, LastBelow
    <3>4. Expected(S, First(start), n) = table[n].previous_hash
      BY <2>4, <3>1, <3>3 DEF Expected
    <3>5. n = (n - 1) + 1
      BY <2>2
    <3> QED
      BY <2>4, <3>3, <3>4, <3>5 DEF EventVerifies, Compute, encode_canonical
  <2> QED
    BY <2>5, <2>6
<1>4. S \subseteq Stored
  BY DEF InRange
<1>5. verify_events(S, First(start)) = "valid"
  BY <1>2, <1>3, <1>4 DEF verify_events
<1>6. start <= 1 <=> start = 1
  OBVIOUS
<1> QED
  BY <1>1, <1>2, <1>5, <1>6 DEF verify_range, InRange, First

(* Bounded verification of any range agrees with what was done to the      *)
(* table, for every width of the integers and every limit (RangeAgrees).   *)
THEOREM RangeVerification == Spec => []RangeAgrees
<1>1. AuditInv /\ Located => RangeAgrees
  <2>1. SUFFICES ASSUME AuditInv, Located, NEW start \in 0 .. MaxU64, NEW end \in 0 .. MaxU64
                 PROVE  /\ (/\ ~Altered
                            /\ 1 <= start /\ start <= end /\ end <= MaxI64
                            /\ end - start < MaxRange
                            /\ start = 1 \/ start - 1 \in Stored)
                              => verify_range(start, end) = "valid"
                        /\ (/\ Altered
                            /\ start <= damage.at
                            /\ \E n \in Stored : damage.at <= n /\ n <= end)
                              => verify_range(start, end) # "valid"
                        /\ end + 1 < start => verify_range(start, end) = "error"
    BY DEF RangeAgrees
  <2>2. start \in Nat /\ end \in Nat
    BY AuditAssumption
  <2>3. ~Altered => \E k \in Nat : Stored = 1 .. k /\ \A n \in 1 .. k : Linked(n)
    BY <2>1 DEF AuditInv, Chained
  <2> QED
    BY <2>1, <2>2, <2>3, RangeSeesDamage, RangeOfChain, BackwardsRange DEF AuditInv
<1> QED
  BY <1>1, AuditInvariance, DamageLocated, PTL
=============================================================================
