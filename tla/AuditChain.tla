----------------------------- MODULE AuditChain -----------------------------
(***************************************************************************)
(* The audit store (crates/kavach-audit): an SQLite table of events, each  *)
(* with the hash of its predecessor, written by several processes through  *)
(* immediate transactions, and the verification of the chain.              *)
(*                                                                         *)
(* A writer is a thread that calls append or create_checkpoint; threads    *)
(* that share a connection also share its Mutex, which orders them no less *)
(* than the write lock of the database does.  Verification of the whole    *)
(* chain reads the table in one statement, so it is an operator on the     *)
(* table; so is verify_range, which asks for the rows of the range and     *)
(* then for the one before it: rows are only appended, so a second         *)
(* statement that runs later finds the same predecessor.  Rows may also be *)
(* damaged from outside the program, at most once.                         *)
(***************************************************************************)
EXTENDS Integers, Sequences, FiniteSets

CONSTANTS
    Writers,      \* threads that append events or create checkpoints
    Bodies,       \* columns of an event, without its sequence and hashes
    Bytes,        \* byte strings that encode_canonical writes for them
    Encoding,     \* Encoding[b]: the bytes of b
    Unreadable,   \* columns that row_to_event cannot convert
    Malformed,    \* a hash column that is not 32 bytes long
    Junk,         \* other values a damaged hash column may have
    Damages,      \* subset of Kinds
    Faults,       \* subset of {"busy", "rollback", "crash"}
    OverflowChecks, \* whether the build traps integer overflow (debug)
    MaxI64,       \* largest SQLite INTEGER
    MaxU64,       \* largest u64
    MaxRange,     \* MAX_VERIFICATION_RANGE
    NoWriter, NoCheckpoint

ASSUME AuditAssumption ==
    /\ MaxI64 \in Nat \ {0}
    /\ MaxU64 \in Nat
    /\ MaxI64 < MaxU64
    /\ MaxRange \in Nat
    /\ MaxI64 + MaxRange <= MaxU64
    /\ Encoding \in [Bodies -> Bytes]
    /\ OverflowChecks \in BOOLEAN
    /\ NoWriter \notin Writers
    /\ Unreadable \notin Bodies
    /\ Malformed \notin Seq(Nat \X Bytes)
    /\ Junk \subseteq Seq(Nat \X Bytes)

VARIABLES
    table,        \* audit_events: a function on the sequences that exist
    dbLock,       \* the writer whose transaction is open, or NoWriter
    wr,           \* wr[w]: the call w is in, its step and its locals
    answers,      \* <<n, b>>: append returned sequence n for event b
    checkpoint,   \* the checkpoint created last
    damage        \* what was done to which row from outside (history)

vars == <<table, dbLock, wr, answers, checkpoint, damage>>

----------------------------------------------------------------------------
(* Hashes and rows                                                         *)

(* encode_canonical writes the schema version and the sequence, which are  *)
(* integers, on lines of their own and then the other columns b.  These    *)
(* are not escaped: write_array and write_map put quotes, commas and line  *)
(* breaks of the values between their own, so different columns may give   *)
(* the same bytes (the rules "a" and "b", and the one rule `a","b`).       *)
encode_canonical(n, b) == <<n, Encoding[b]>>

(* SHA-256 without collisions: a hash is named by everything that went     *)
(* into it, so equal hashes have equal inputs and only the genesis hash    *)
(* has none.                                                               *)
Digest == Seq(Nat \X Bytes)
Hash == Digest \cup {Malformed}
Genesis == <<>>
Compute(previous, canonical) == Append(previous, canonical)

Row == [body : Bodies \cup {Unreadable}, previous_hash : Hash,
        current_hash : Hash]

(* Mutant: the hash is computed over the event alone.                      *)
NewRow_Unlinked(n, b, previous) ==
    [body |-> b, previous_hash |-> previous,
     current_hash |-> Compute(Genesis, encode_canonical(n, b))]

(* What append stores for event b in place n.                              *)
NewRow(n, b, previous) ==
    [body |-> b, previous_hash |-> previous,
     current_hash |-> Compute(previous, encode_canonical(n, b))]

Stored == DOMAIN table

(* The largest element of a set of sequence numbers.                       *)
Last(S) == CHOOSE n \in S : \A m \in S : m <= n

Insert(n, row) ==
    [m \in Stored \cup {n} |-> IF m = n THEN row ELSE table[m]]

----------------------------------------------------------------------------
(* AuditStore::append                                                      *)

Steps == {"idle", "begin", "read", "insert", "return", "count"}
InTransaction == {"read", "insert"}

Frame == [pc : Steps, body : Bodies \cup {Unreadable}, sequence : Nat,
          hash : Hash]
IdleFrame == [pc |-> "idle", body |-> Unreadable, sequence |-> 0,
              hash |-> Genesis]

Goto(w, step) == wr' = [wr EXCEPT ![w].pc = step]
Return(w) == wr' = [wr EXCEPT ![w] = IdleFrame]

(* An input that does not validate or cannot be redacted ends the call     *)
(* here and changes nothing.                                               *)
CallAppend(w) ==
    /\ wr[w].pc = "idle"
    /\ \E b \in Bodies :
          wr' = [wr EXCEPT ![w] = [IdleFrame EXCEPT !.pc = "begin",
                                                    !.body = b]]
    /\ UNCHANGED <<table, dbLock, answers, checkpoint, damage>>

(* Mutant: a deferred transaction reads before it asks for the lock.       *)
BeginImmediate_Deferred(w) ==
    /\ wr[w].pc = "begin"
    /\ dbLock' = w
    /\ Goto(w, "read")
    /\ UNCHANGED <<table, answers, checkpoint, damage>>

(* TransactionBehavior::Immediate takes the write lock of the database.    *)
BeginImmediate(w) ==
    /\ wr[w].pc = "begin"
    /\ dbLock = NoWriter
    /\ dbLock' = w
    /\ Goto(w, "read")
    /\ UNCHANGED <<table, answers, checkpoint, damage>>

(* busy_timeout runs out while another writer has the lock.                *)
Busy(w) ==
    /\ "busy" \in Faults
    /\ wr[w].pc = "begin"
    /\ dbLock # NoWriter
    /\ Return(w)
    /\ UNCHANGED <<table, dbLock, answers, checkpoint, damage>>

(* The transaction ends without an effect and append returns an error.     *)
Rollback(w) == /\ dbLock' = NoWriter
               /\ Return(w)

(* SELECT sequence, current_hash ... ORDER BY sequence DESC LIMIT 1.       *)
ReadLatest(w) ==
    /\ wr[w].pc = "read"
    /\ \/ /\ Stored = {}
          /\ wr' = [wr EXCEPT ![w].pc = "insert", ![w].sequence = 1,
                              ![w].hash = Genesis]
          /\ UNCHANGED dbLock
       \/ /\ Stored # {}
          /\ table[Last(Stored)].current_hash = Malformed
          /\ Rollback(w)                            \* database_corruption
       \/ /\ Stored # {}
          /\ table[Last(Stored)].current_hash # Malformed
          /\ wr' = [wr EXCEPT ![w].pc = "insert",
                              ![w].sequence = Last(Stored) + 1,
                              ![w].hash = table[Last(Stored)].current_hash]
          /\ UNCHANGED dbLock
    /\ UNCHANGED <<table, answers, checkpoint, damage>>

(* INSERT and COMMIT.  The sequence must fit an INTEGER and be new.        *)
InsertCommit(w) ==
    LET n == wr[w].sequence IN
    /\ wr[w].pc = "insert"
    /\ n <= MaxI64 /\ n \notin Stored
    /\ table' = Insert(n, NewRow(n, wr[w].body, wr[w].hash))
    /\ dbLock' = NoWriter
    /\ Goto(w, "return")
    /\ UNCHANGED <<answers, checkpoint, damage>>

InsertFails(w) ==
    LET n == wr[w].sequence IN
    /\ wr[w].pc = "insert"
    /\ n > MaxI64 \/ n \in Stored
    /\ Rollback(w)                                  \* append_failure
    /\ UNCHANGED <<table, answers, checkpoint, damage>>

(* Mutant: the result of the COMMIT is dropped.                            *)
TransactionFails_Ignored(w) ==
    /\ "rollback" \in Faults
    /\ wr[w].pc = "insert"
    /\ dbLock' = NoWriter
    /\ Goto(w, "return")
    /\ UNCHANGED <<table, answers, checkpoint, damage>>

(* A statement or the COMMIT fails: Drop rolls the transaction back.       *)
TransactionFails(w) ==
    /\ "rollback" \in Faults
    /\ wr[w].pc \in InTransaction
    /\ Rollback(w)
    /\ UNCHANGED <<table, answers, checkpoint, damage>>

(* Mutant: the sequence is read back after the transaction.                *)
ReturnSummary_ReadsBack(w) ==
    /\ wr[w].pc = "return"
    /\ Stored # {}
    /\ answers' = answers \cup {<<Last(Stored), wr[w].body>>}
    /\ Return(w)
    /\ UNCHANGED <<table, dbLock, checkpoint, damage>>

(* The summary tells the sequence that the transaction used.               *)
ReturnSummary(w) ==
    /\ wr[w].pc = "return"
    /\ answers' = answers \cup {<<wr[w].sequence, wr[w].body>>}
    /\ Return(w)
    /\ UNCHANGED <<table, dbLock, checkpoint, damage>>

(* The process of w dies: an open transaction is rolled back.              *)
Crash(w) ==
    /\ "crash" \in Faults
    /\ wr[w].pc # "idle"
    /\ dbLock' = IF dbLock = w THEN NoWriter ELSE dbLock
    /\ Return(w)
    /\ UNCHANGED <<table, answers, checkpoint, damage>>

----------------------------------------------------------------------------
(* Reading and verifying                                                   *)

(* row_to_event converts every column or fails.                            *)
Readable(n) == /\ table[n].body # Unreadable
               /\ table[n].previous_hash # Malformed
               /\ table[n].current_hash # Malformed

(* The hash the predecessor of event n in S left; that of the first event  *)
(* is given.                                                               *)
Before(S, n) == {m \in S : m < n}
Expected(S, first, n) == IF Before(S, n) = {}
                         THEN first
                         ELSE table[Last(Before(S, n))].current_hash

(* Mutant: the stored previous_hash is hashed, not the predecessor's.      *)
EventVerifies_TrustsRow(S, first, n) ==
    /\ Before(S, n) # {} => n = Last(Before(S, n)) + 1
    /\ table[n].current_hash =
          Compute(table[n].previous_hash,
                  encode_canonical(n, table[n].body))

(* The checks of one round of verify_events: the sequence, the link and    *)
(* the recomputed hash.                                                    *)
EventVerifies(S, first, n) ==
    /\ Before(S, n) # {} => n = Last(Before(S, n)) + 1
    /\ table[n].previous_hash = Expected(S, first, n)
    /\ table[n].current_hash =
          Compute(Expected(S, first, n), encode_canonical(n, table[n].body))

(* The rows of S are fetched and verified.                                 *)
verify_events(S, first) ==
    IF \E n \in S : ~Readable(n) THEN "error"
    ELSE IF \A n \in S : EventVerifies(S, first, n) THEN "valid"
    ELSE "invalid"

verify_full == verify_events(Stored, Genesis)

(* Mutant: a range of the largest allowed length is refused.               *)
RangeRejected_OffByOne(start, end) ==
    \/ OverflowChecks /\ (end < start \/ end - start = MaxU64)
    \/ (end - start + 1) % (MaxU64 + 1) >= MaxRange
    \/ start > MaxI64 \/ end > MaxI64

(* `end - start + 1 > MAX_VERIFICATION_RANGE` on u64, and the parameters   *)
(* that SQLite cannot take.  A trapped overflow is an error too.           *)
RangeRejected(start, end) ==
    \/ OverflowChecks /\ (end < start \/ end - start = MaxU64)
    \/ (end - start + 1) % (MaxU64 + 1) > MaxRange
    \/ start > MaxI64 \/ end > MaxI64

(* The rows and the row before them are two statements in the code; rows   *)
(* are only added, at the end, so one reading stands for both.             *)
verify_range(start, end) ==
    LET S == {n \in Stored : start <= n /\ n <= end}
    IN  IF RangeRejected(start, end) THEN "error"
        ELSE IF start <= 1 THEN verify_events(S, Genesis)
        ELSE IF start - 1 \notin Stored THEN "error"    \* missing_event
        ELSE IF ~Readable(start - 1) THEN "error"
        ELSE verify_events(S, table[start - 1].current_hash)

(* AuditStore::create_checkpoint: two statements, no transaction.          *)
CheckpointLatest(w) ==
    /\ wr[w].pc = "idle"
    /\ Stored # {} => Readable(Last(Stored))
    /\ wr' = [wr EXCEPT ![w] =
                [IdleFrame EXCEPT
                   !.pc = "count",
                   !.sequence = IF Stored = {} THEN 0 ELSE Last(Stored),
                   !.hash = IF Stored = {} THEN Genesis
                            ELSE table[Last(Stored)].current_hash]]
    /\ UNCHANGED <<table, dbLock, answers, checkpoint, damage>>

CheckpointCount(w) ==
    /\ wr[w].pc = "count"
    /\ checkpoint' = [ending_sequence |-> wr[w].sequence,
                      ending_hash |-> wr[w].hash,
                      event_count |-> IF wr[w].sequence = 0 THEN 0
                                      ELSE Cardinality(Stored)]
    /\ Return(w)
    /\ UNCHANGED <<table, dbLock, answers, damage>>

----------------------------------------------------------------------------
(* Damage from outside the program, while no transaction is open           *)

Damage(kind, n) ==
    /\ kind \in Damages
    /\ damage.kind = "none"
    /\ dbLock = NoWriter
    /\ damage' = [kind |-> kind, at |-> n]
    /\ UNCHANGED <<dbLock, wr, answers, checkpoint>>

OtherBytes(b) == {c \in Bodies : Encoding[c] # Encoding[b]}

(* One column of one row gets another value: it cannot be read any more,   *)
(* or the canonical bytes or a hash of the row change.                     *)
DamageColumn(n) ==
    /\ Damage("column", n)
    /\ \/ \E b \in {Unreadable} \cup OtherBytes(table[n].body) :
             table' = [table EXCEPT ![n].body = b]
       \/ \E h \in (Junk \cup {Genesis, Malformed})
                       \ {table[n].previous_hash} :
             table' = [table EXCEPT ![n].previous_hash = h]
       \/ \E h \in (Junk \cup {Genesis, Malformed})
                       \ {table[n].current_hash} :
             table' = [table EXCEPT ![n].current_hash = h]

(* One column gets another value with the same canonical bytes.            *)
DamageAlias(n) ==
    /\ Damage("alias", n)
    /\ \E b \in Bodies \ OtherBytes(table[n].body) :
          /\ b # table[n].body
          /\ table' = [table EXCEPT ![n].body = b]

(* One row gets a sequence that no other row has.                          *)
DamageSequence(n) ==
    /\ Damage("move", n)
    /\ \E m \in (1 .. MaxI64) \ Stored :
          table' = [k \in (Stored \ {n}) \cup {m} |->
                      IF k = m THEN table[n] ELSE table[k]]

(* A row that is not the last one is deleted; the last one is.             *)
Without(n) == [k \in Stored \ {n} |-> table[k]]
DeleteRow(n) == /\ n # Last(Stored)
                /\ Damage("delete", n)
                /\ table' = Without(n)
Truncate == /\ Stored # {}
            /\ Damage("truncate", Last(Stored))
            /\ table' = Without(Last(Stored))

----------------------------------------------------------------------------
(* The specification                                                       *)

Init == /\ table = [n \in {} |-> 0]
        /\ dbLock = NoWriter
        /\ wr = [w \in Writers |-> IdleFrame]
        /\ answers = {}
        /\ checkpoint = NoCheckpoint
        /\ damage = [kind |-> "none", at |-> 0]

Step(w) == \/ CallAppend(w) \/ BeginImmediate(w) \/ Busy(w)
           \/ ReadLatest(w) \/ InsertCommit(w) \/ InsertFails(w)
           \/ TransactionFails(w) \/ ReturnSummary(w) \/ Crash(w)
           \/ CheckpointLatest(w) \/ CheckpointCount(w)

Tamper == \/ \E n \in Stored : \/ DamageColumn(n)
                               \/ DamageAlias(n)
                               \/ DamageSequence(n)
                               \/ DeleteRow(n)
          \/ Truncate

Next == \/ \E w \in Writers : Step(w)
        \/ Tamper

Spec == Init /\ [][Next]_vars

----------------------------------------------------------------------------
(* Properties                                                              *)

Kinds == {"none", "column", "alias", "move", "delete", "truncate"}
Checkpoints == [ending_sequence : Nat, ending_hash : Hash, event_count : Nat]

(* Every variable has its type.                                            *)
TypeOK ==
    /\ Stored \subseteq 1 .. MaxI64
    /\ table \in [Stored -> Row]
    /\ dbLock \in Writers \cup {NoWriter}
    /\ wr \in [Writers -> Frame]
    /\ answers \subseteq Nat \X Bodies
    /\ checkpoint \in Checkpoints \cup {NoCheckpoint}
    /\ damage \in [kind : Kinds, at : Nat]

(* A transaction is open in the one writer that is in its middle, and what *)
(* it read inside is still the end of the table when it inserts: no other  *)
(* process appends between the two statements (Immediate), so the sequence *)
(* is new and the hash is the latest.                                      *)
LatestStaysLatest ==
    \A w \in Writers :
        /\ dbLock = w <=> wr[w].pc \in InTransaction
        /\ wr[w].pc \in {"begin", "read", "insert", "return"} =>
              wr[w].body \in Bodies
        /\ wr[w].pc = "insert" =>
              /\ \A n \in Stored : n < wr[w].sequence
              /\ wr[w].sequence = IF Stored = {} THEN 1 ELSE Last(Stored) + 1
              /\ wr[w].hash = IF Stored = {} THEN Genesis
                              ELSE table[Last(Stored)].current_hash
              /\ wr[w].hash # Malformed

(* The damage that is in the canonical bytes, the hashes or the sequences. *)
Altered == damage.kind \in {"column", "move", "delete"}

(* No false alarm: whatever processes append, fail and crash, the chain    *)
(* they leave verifies, as a whole; and so does a chain that lost its end, *)
(* or a row of which has other columns with the same canonical bytes:      *)
(* verification cannot see either.                                         *)
NoFalseAlarm == ~Altered => verify_full = "valid"

(* "make modification detectable" (README.md), as far as it is true: after *)
(* the canonical bytes or a hash of one row were changed, one column was   *)
(* made unreadable, or one row got another sequence or was deleted before  *)
(* the end, verify_full never reports a valid chain again, whatever is     *)
(* appended.                                                               *)
TamperEvident == Altered => verify_full # "valid"

(* "make modification detectable" (README.md), of one changed column: the  *)
(* code does not have this property, since encode_canonical gives some     *)
(* different columns the same bytes.                                       *)
ModificationDetectable ==
    damage.kind \in {"column", "alias"} => verify_full # "valid"

(* Bounded verification agrees: a range of an undamaged chain that is in   *)
(* bounds and starts inside or right after it verifies; a range that       *)
(* reaches from the damage (of canonical bytes, hashes or sequences) to a  *)
(* row that is still there does not; and a range that ends before it       *)
(* starts is refused although the subtraction wraps around, except that    *)
(* start - 1 stands for the empty range.                                   *)
RangeAgrees ==
    \A start, end \in 0 .. MaxU64 :
        /\ (/\ ~Altered
            /\ 1 <= start /\ start <= end /\ end <= MaxI64
            /\ end - start < MaxRange
            /\ start = 1 \/ start - 1 \in Stored)
              => verify_range(start, end) = "valid"
        /\ (/\ Altered
            /\ start <= damage.at
            /\ \E n \in Stored : damage.at <= n /\ n <= end)
              => verify_range(start, end) # "valid"
        /\ end + 1 < start => verify_range(start, end) = "error"

(* A caller that was told a sequence finds its own event there, however    *)
(* many writers and failed transactions there were; and a checkpoint names *)
(* an event that is in the chain with that hash and counts at least the    *)
(* events up to it, whatever was appended between its two statements.      *)
AnswersAreTrue ==
    damage.kind = "none" =>
        /\ \A a \in answers : /\ a[1] \in Stored
                              /\ table[a[1]].body = a[2]
        /\ (checkpoint # NoCheckpoint /\ checkpoint.ending_sequence # 0) =>
              /\ checkpoint.ending_sequence \in Stored
              /\ table[checkpoint.ending_sequence].current_hash =
                    checkpoint.ending_hash
              /\ checkpoint.event_count >= checkpoint.ending_sequence

(* While nobody damages the table, the store is one log: whatever the      *)
(* transactions, rollbacks and crashes are, each committed event takes the *)
(* next place and each answer tells the place of an event.                 *)
Log == INSTANCE AuditLog
           WITH events <- [n \in 1 .. Cardinality(Stored) |-> table[n].body],
                answers <- answers
ImplementsLog ==
    /\ Log!LogInit
    /\ [][damage'.kind = "none" =>
             Log!LogNext \/ UNCHANGED Log!logVars]_vars

=============================================================================
