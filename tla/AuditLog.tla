------------------------------ MODULE AuditLog ------------------------------
(***************************************************************************)
(* What the audit store promises to its callers while nobody damages the   *)
(* database: one log, to which each append that commits adds one event at  *)
(* the end, and an answer to a caller that tells the place of its event.   *)
(* AuditChain has the transactions, the hashes and the table, and is shown *)
(* to implement this module.                                               *)
(***************************************************************************)
EXTENDS Naturals, Sequences

CONSTANT Bodies         \* what an event says

VARIABLES events,       \* the log
          answers       \* <<n, b>>: a caller was told that b is event n

logVars == <<events, answers>>

LogInit == /\ events = <<>>
           /\ answers = {}

(* An event takes the next place.                                          *)
Record(b) == /\ events' = Append(events, b)
             /\ UNCHANGED answers

(* A caller learns the place of an event that is in the log.               *)
Answer(n) == /\ answers' = answers \cup {<<n, events[n]>>}
             /\ UNCHANGED events

LogNext == \/ \E b \in Bodies : Record(b)
           \/ \E n \in 1 .. Len(events) : Answer(n)

LogSpec == LogInit /\ [][LogNext]_logVars
=============================================================================
