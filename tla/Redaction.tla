----------------------------- MODULE Redaction -----------------------------
(***************************************************************************)
(* The redactor (crates/kavach-redaction): every detector scans the whole  *)
(* input, the matches of all of them are merged where they touch, and the  *)
(* merged ranges are replaced by markers from the right to the left.       *)
(*                                                                         *)
(* A text is a sequence of lexemes, the longest runs of characters that    *)
(* the patterns treat alike: a word, white space, "=", ":", a quote, a     *)
(* delimiter of a PEM block.  Two words are never adjacent.                *)
(***************************************************************************)
EXTENDS Naturals, Sequences, FiniteSets, SequencesExt

CONSTANTS
    Words,          \* [word -> its length]
    Keys,           \* the words that SENSITIVE_KEYS lists
    Tokens,         \* [category -> the words of that shape]: jwt, github_token, ...
    MaxInput,       \* MAX_INPUT_BYTES, in lexemes
    MinBearer       \* the length from which a bearer token counts (8)

Match(start, end, category) == [start |-> start, end |-> end, category |-> category]

\* marker_for: a marker is known by its category; it is no lexeme of an input.
Marker(category) == category
IsWord(x) == x \in DOMAIN Words

\* Regex::find_iter: the leftmost match, then the next one after its end.  A
\* pattern is given by its ends: where a match that starts at i ends, 0 for none.
Scan(ends, found, i) ==
    IF ends[i] = 0 \/ \E f \in found : i <= f[2] THEN found ELSE found \cup {<<i, ends[i]>>}
Scanned(ends) ==
    LET found[i \in 0 .. Len(ends)] == IF i = 0 THEN {} ELSE Scan(ends, found[i - 1], i)
    IN  found
FindIter(ends) == Scanned(ends)[Len(ends)]

\* The end of the longest run of lexemes from i on that are not in Stop.
RunEnd(text, i, Stop) ==
    LET stops == {j \in i .. Len(text) : text[j] \in Stop}
    IN  IF stops = {} THEN Len(text) ELSE Min(stops) - 1
AtSpace(text, i) == IF i \in DOMAIN text /\ text[i] = " " THEN i + 1 ELSE i

-----------------------------------------------------------------------------
(***************************************************************************)
(* The detectors: the set of the matches of one in a text.                 *)
(***************************************************************************)
Ranges(found, category) == {Match(f[1], f[2], category) : f \in found}

\* A word after "bearer" and white space, with its "=" padding; matches that
\* are too short are dropped after the scan.
DetectBearer(text) ==
    LET ends == [i \in DOMAIN text |->
                    IF /\ text[i] = "bearer" /\ i + 2 \in DOMAIN text
                       /\ text[i + 1] = " " /\ IsWord(text[i + 2])
                    THEN RunEnd(text, i + 3, ToSet(text) \ {"="})
                    ELSE 0]
        Long(f) == Words[text[f[1] + 2]] + (f[2] - f[1] - 2) >= MinBearer
    IN  Ranges({f \in FindIter(ends) : Long(f)}, "bearer_token")

\* key, "=" or ":", then a quoted value or a run of value characters; the match
\* begins after the sign.  As the end of a value ":" stands for the other
\* characters it stops at too: a double quote, ";", ")" and "}".
Sign(text, i) == AtSpace(text, i + 1)
Value(text, i) == AtSpace(text, Sign(text, i) + 1)
ValueEnd(text, v) ==
    IF text[v] = "'"
    THEN LET close == RunEnd(text, v + 1, {"'"}) + 1
         IN  IF close \in DOMAIN text THEN close ELSE 0
    ELSE IF text[v] \in {" ", ":"} THEN 0
    ELSE RunEnd(text, v, {" ", "'", ":"})
DetectAssignment(text) ==
    LET ends == [i \in DOMAIN text |->
                    IF /\ text[i] \in Keys /\ Value(text, i) \in DOMAIN text
                       /\ text[Sign(text, i)] \in {"=", ":"}
                    THEN ValueEnd(text, Value(text, i))
                    ELSE 0]
    IN  {Match(Sign(text, f[1]) + 1, f[2], "assignment") : f \in FindIter(ends)}

\* The first END after a BEGIN closes the block; an open block is no match.
DetectPem(text) ==
    LET End(i) == RunEnd(text, i, {"END"}) + 1
        ends == [i \in DOMAIN text |->
                    IF text[i] = "BEGIN" /\ End(i) \in DOMAIN text THEN End(i) ELSE 0]
    IN  Ranges(FindIter(ends), "private_key")

\* Words that have the shape of a token by themselves.
DetectToken(text, category) ==
    LET ends == [i \in DOMAIN text |-> IF text[i] \in Tokens[category] THEN i ELSE 0]
    IN  Ranges(FindIter(ends), category)

\* Every occurrence of every configured secret, overlapping ones too.
OccursAt(s, text, i) ==
    /\ i + Len(s) - 1 <= Len(text)
    /\ SubSeq(text, i, i + Len(s) - 1) = s
DetectExact(text, secrets) ==
    {Match(at[1], at[1] + Len(at[2]) - 1, "configured_secret") :
        at \in {p \in (DOMAIN text) \X secrets : OccursAt(p[2], text, p[1])}}

-----------------------------------------------------------------------------
(***************************************************************************)
(* redact_text.                                                            *)
(***************************************************************************)
Patterns == {"bearer_token", "private_key", "assignment"}
Detectors == Patterns \cup DOMAIN Tokens
DefaultDetectors == Detectors \ {"entropy_candidate"}

\* The matches of one detector, and those of all.  (Equal ones of two detectors
\* do not exist: each detector has its category.)
Detect(d, text) == CASE d = "bearer_token" -> DetectBearer(text)
                     [] d = "private_key" -> DetectPem(text)
                     [] d = "assignment" -> DetectAssignment(text)
                     [] OTHER -> DetectToken(text, d)
AllMatches(text, enabled, secrets) ==
    (UNION {Detect(d, text) : d \in enabled}) \cup DetectExact(text, secrets)

\* The order of the matches, and one that no other one precedes.
Before(a, b) == a.start < b.start \/ (a.start = b.start /\ a.end > b.end)
First(left) == CHOOSE m \in left : \A o \in left : ~ Before(o, m)

\* A match that reaches beyond the last range does not extend it.
MergeInto_KeepEnd(merged, m) ==
    IF merged = <<>> \/ m.start > merged[Len(merged)].end + 1
    THEN Append(merged, m)
    ELSE merged

\* merge_overlapping: ranges that overlap or touch become one; one of two
\* categories counts as a password.  (`end` is inclusive here.)
Merge(last, m) ==
    Match(last.start, IF m.end > last.end THEN m.end ELSE last.end,
          IF m.category # last.category THEN "password" ELSE last.category)
MergeInto(merged, m) ==
    IF merged = <<>> \/ m.start > merged[Len(merged)].end + 1
    THEN Append(merged, m)
    ELSE [merged EXCEPT ![Len(merged)] = Merge(@, m)]
MergeStep(s) == [left |-> s.left \ {First(s.left)}, merged |-> MergeInto(s.merged, First(s.left))]
MergeRun(matches) ==
    LET run[k \in 0 .. Cardinality(matches)] ==
            IF k = 0 THEN [left |-> matches, merged |-> <<>>] ELSE MergeStep(run[k - 1])
    IN  run
MergeOverlapping(matches) == MergeRun(matches)[Cardinality(matches)].merged

\* apply_redactions: from the right, so that the offsets to the left hold.
Replace(t, m) == SubSeq(t, 1, m.start - 1) \o <<Marker(m.category)>> \o SubSeq(t, m.end + 1, Len(t))
Replaced(text, merged) ==
    LET replaced[k \in 0 .. Len(merged)] ==
            IF k = 0 THEN text ELSE Replace(replaced[k - 1], merged[Len(merged) - k + 1])
    IN  replaced
ApplyRedactions(text, merged) == Replaced(text, merged)[Len(merged)]

RedactText(text, enabled, secrets) ==
    LET merged == MergeOverlapping(AllMatches(text, enabled, secrets))
    IN  IF Len(text) > MaxInput
        THEN [err |-> "input_too_large", redacted |-> <<>>, count |-> 0, categories |-> {}]
        ELSE [err |-> "ok", redacted |-> ApplyRedactions(text, merged), count |-> Len(merged),
              categories |-> {merged[i].category : i \in DOMAIN merged}]
=============================================================================
