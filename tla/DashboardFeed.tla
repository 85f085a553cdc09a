--------------------------- MODULE DashboardFeed ---------------------------
(***************************************************************************)
(* The live feed of kavach-dashboard (crates/kavach-dashboard): a task     *)
(* tails the JSONL file that `kavach policy check --feed-log` appends to,  *)
(* another one polls the audit database, and both publish on one broadcast *)
(* channel.                                                                *)
(*                                                                         *)
(* The file is the sequence of the writes that reached it: a line is one   *)
(* write and its line break another.  A rotation empties it in place.      *)
(* Sequences of the audit log start at 1.                                  *)
(***************************************************************************)
EXTENDS Integers, Sequences, FiniteSets, SequencesExt

CONSTANTS
    Writers,       \* runs of the command line, each with one line to append
    Break,         \* a line break
    TailLines,     \* FEED_STARTUP_TAIL_LINES
    LookBack,      \* how many audit events the first poll looks back (50)
    PollLimit,     \* events of one poll (100)
    MaxEvents,     \* bound on the audit events
    MaxTruncations \* bound on the rotations of the file

VARIABLES
    file,       \* the writes in the feed file
    writer,     \* [writer -> "idle", "line" or "done"]
    truncated,  \* how often the file was truncated
    tailer,     \* [step, offset, len]: the task that tails the file
    events,     \* how many audit events there are
    lastSeen,   \* last_seen of the poller; 0 for none
    channel,    \* what was published, in order
    rotated,    \* history: truncated since the tailer last took a length
    lost,       \* history: lines truncated away, glued together or too old at the start
    overlooked  \* history: lines before the offset in a file that grew back to it

logVars == <<file, writer, truncated>>
historyVars == <<rotated, lost, overlooked>>
feedVars == <<logVars, tailer, events, lastSeen, channel, historyVars>>

FeedInit ==
    /\ file = <<>> /\ writer = [w \in Writers |-> "idle"] /\ truncated = 0
    /\ tailer = [step |-> "off", offset |-> 0, len |-> 0]
    /\ events = 0 /\ lastSeen = 0
    /\ channel = <<>>
    /\ rotated = FALSE /\ lost = {} /\ overlooked = {}

Publish(items) == channel' = channel \o items

-----------------------------------------------------------------------------
(***************************************************************************)
(* The feed file.                                                          *)
(***************************************************************************)
LinesIn(text) == ToSet(text) \ {Break}

\* append_feed_log: writeln! on an unbuffered file is two writes.
WriteLine(w) ==
    /\ writer[w] = "idle"
    /\ writer' = [writer EXCEPT ![w] = "line"]
    /\ file' = Append(file, w)
    /\ UNCHANGED <<truncated, tailer, events, lastSeen, channel, historyVars>>
WriteBreak(w) ==
    /\ writer[w] = "line"
    /\ writer' = [writer EXCEPT ![w] = "done"]
    /\ file' = Append(file, Break)
    /\ UNCHANGED <<truncated, tailer, events, lastSeen, channel, historyVars>>

Truncate ==
    /\ truncated < MaxTruncations /\ file # <<>>
    /\ truncated' = truncated + 1
    /\ file' = <<>>
    /\ rotated' = TRUE /\ lost' = lost \cup LinesIn(file)
    /\ UNCHANGED <<writer, tailer, events, lastSeen, channel, overlooked>>

\* str::lines with parse_feed_line: a line that stands alone between two breaks
\* is an event; two lines glued together do not parse.
Alone(text, i) == /\ text[i] # Break
                  /\ i > 1 => text[i - 1] = Break
                  /\ i < Len(text) => text[i + 1] = Break
Parsed(text) == LET alone == SelectSeq([i \in DOMAIN text |-> i], LAMBDA i : Alone(text, i))
                IN  [n \in DOMAIN alone |-> text[alone[n]]]
Glued(text) == LinesIn(text) \ ToSet(Parsed(text))
From(offset) == SubSeq(file, offset + 1, Len(file))

\* main starts both tasks.
Launch ==
    /\ tailer.step = "off"
    /\ tailer' = [tailer EXCEPT !.step = "start"]
    /\ UNCHANGED <<logVars, events, lastSeen, channel, historyVars>>
Running == tailer.step # "off"

InitialOffset ==
    /\ tailer.step = "start"
    /\ tailer' = [tailer EXCEPT !.step = "tail", !.offset = Len(file)]
    /\ rotated' = FALSE
    /\ UNCHANGED <<logVars, events, lastSeen, channel, lost, overlooked>>

\* How many lines, empty and glued ones too, are at or after a place.
LinesFrom(i) == Cardinality({j \in i .. Len(file) : file[j] = Break \/ j = Len(file)})

\* read_tail, after the offset was taken: the events among the last lines.  A
\* line before them is read later when it is behind the offset.
ReadTail ==
    LET far == {i \in DOMAIN file : LinesFrom(i) > TailLines}
        tail == From(Cardinality(far))
    IN  /\ tailer.step = "tail"
        /\ Publish(Parsed(tail))
        /\ tailer' = [tailer EXCEPT !.step = "poll"]
        /\ lost' = lost \cup Glued(tail)
                        \cup IF rotated THEN {}
                             ELSE LinesIn(SubSeq(file, 1, Min({Cardinality(far), tailer.offset})))
        /\ UNCHANGED <<logVars, events, lastSeen, rotated, overlooked>>

\* read_appended, first half: the length.  A failed open or seek polls again.
\* After a rotation the file may have grown back to the offset or beyond it.
ReadLength ==
    /\ tailer.step = "poll" /\ (Len(file) # tailer.offset \/ rotated)
    /\ tailer' = IF Len(file) = tailer.offset THEN tailer
                 ELSE [tailer EXCEPT !.step = "read", !.len = Len(file)]
    /\ rotated' = FALSE
    /\ overlooked' = IF rotated /\ Len(file) >= tailer.offset
                     THEN overlooked \cup LinesIn(SubSeq(file, 1, tailer.offset))
                     ELSE overlooked
    /\ UNCHANGED <<logVars, events, lastSeen, channel, lost>>

\* Takes the length after the contents.
ReadAppended_LateLength ==
    LET text == SubSeq(file, tailer.offset + 1, Min({tailer.len, Len(file)}))
    IN  /\ tailer.step = "read"
        /\ Publish(Parsed(text))
        /\ tailer' = [tailer EXCEPT !.step = "poll", !.offset = Len(file)]
        /\ lost' = lost \cup Glued(text)
        /\ UNCHANGED <<logVars, events, lastSeen, rotated, overlooked>>

\* Second half: everything from the old offset to the end of the file, or the
\* whole file when it has become shorter; the offset is the length read before.
ReadAppended ==
    LET text == IF tailer.len < tailer.offset THEN file ELSE From(tailer.offset)
    IN  /\ tailer.step = "read"
        /\ Publish(Parsed(text))
        /\ tailer' = [tailer EXCEPT !.step = "poll", !.offset = tailer.len]
        /\ lost' = lost \cup Glued(text)
        /\ UNCHANGED <<logVars, events, lastSeen, rotated, overlooked>>

-----------------------------------------------------------------------------
(***************************************************************************)
(* The audit database.                                                     *)
(***************************************************************************)
AppendEvent ==
    /\ events < MaxEvents
    /\ events' = events + 1
    /\ UNCHANGED <<logVars, tailer, lastSeen, channel, historyVars>>

\* events_after_sequence: strictly after, oldest first, at most limit.
EventsAfter(after, limit) ==
    [n \in 1 .. Min({limit, IF events > after THEN events - after ELSE 0}) |-> after + n]

\* poll_audit_once and the loop of spawn_audit_poller.
PollAudit ==
    LET start == IF lastSeen # 0 THEN lastSeen + 1
                 ELSE IF events > LookBack THEN events - LookBack ELSE 0
        fresh == EventsAfter(start, PollLimit)
    IN  /\ Running /\ fresh # <<>>
        /\ lastSeen' = fresh[Len(fresh)]
        /\ Publish(fresh)
        /\ UNCHANGED <<logVars, tailer, events, historyVars>>

FeedNext ==
    \/ \E w \in Writers : WriteLine(w) \/ WriteBreak(w)
    \/ Truncate \/ Launch \/ InitialOffset \/ ReadTail \/ ReadLength \/ ReadAppended
    \/ AppendEvent \/ PollAudit

\* Both tasks loop, and a command that has written its line ends it.
FeedFairness ==
    /\ WF_feedVars(InitialOffset) /\ WF_feedVars(ReadTail) /\ WF_feedVars(ReadLength)
    /\ WF_feedVars(ReadAppended) /\ WF_feedVars(PollAudit)
    /\ \A w \in Writers : WF_feedVars(WriteBreak(w))

-----------------------------------------------------------------------------
(***************************************************************************)
(* Properties.                                                             *)
(***************************************************************************)

\* Every line appended to the feed file is published, at whatever moment of the
\* start, of a poll or of a rotation it is written, except for what the code
\* cannot read: lines truncated away before they were read, lines another
\* command glued its own to, lines before the offset that the start-up tail is
\* too short for, and, after a rotation nobody noticed because the file had
\* grown back to the offset, the lines before the offset.
LinesPublished ==
    \A w \in Writers : (writer[w] = "line" /\ Running) ~>
                           (Contains(channel, w) \/ w \in lost \cup overlooked)

\* "How often the audit database is polled for new sequences": every sequence
\* that is new since the first poll is published.
SequencesPublished ==
    \A n \in 1 .. MaxEvents :
        (lastSeen # 0 /\ n > lastSeen /\ n <= events) ~> Contains(channel, n)
=============================================================================
