----------------------------- MODULE Redactor ------------------------------
(***************************************************************************)
(* The life of a redactor (crates/kavach-redaction): secrets are added to  *)
(* a container, the builder makes a redactor of it and of the detectors    *)
(* that are switched on, and texts are redacted by it one after another.   *)
(***************************************************************************)
EXTENDS Redaction

CONSTANTS
    Inputs,             \* the texts to redact
    SecretTexts,        \* the secrets that somebody may configure
    DetectorSets,       \* the sets of detectors a builder may switch on
    MaxSecrets,         \* MAX_CONFIGURED_SECRETS
    MaxSecretLength     \* MAX_CONFIGURED_SECRET_LENGTH

VARIABLES
    container,          \* the secrets of the SecretContainer
    redactor,           \* the CompositeRedactor, once it is built
    call                \* the last call of redact_text: its input and its result

redactorVars == <<container, redactor, call>>

\* The lexemes of texts, and what the patterns look for.
Lexemes == DOMAIN Words \cup {" ", "=", ":", "'", "BEGIN", "END"}
Categories == Detectors \cup {"configured_secret", "password"}

\* Texts consist of lexemes, and a marker is none: what a marker says is not
\* taken for text of the input.
ASSUME RedactorAssumption ==
    /\ MaxInput \in Nat /\ MaxSecrets \in Nat /\ MaxSecretLength \in Nat
    /\ IsFiniteSet(DOMAIN Tokens) /\ DOMAIN Tokens \cap Patterns = {}
    /\ \A d \in DOMAIN Tokens : Tokens[d] \subseteq DOMAIN Words
    /\ \A text \in Inputs \cup SecretTexts : text \in Seq(Lexemes)
    /\ DetectorSets \subseteq SUBSET Detectors
    /\ \A c \in Categories : Marker(c) \notin Lexemes

None == [enabled |-> {}, secrets |-> {}, built |-> FALSE]
Idle == [text |-> <<>>, result |-> [err |-> "none", redacted |-> <<>>, count |-> 0,
                                    categories |-> {}]]

RedactorInit == container = {} /\ redactor = None /\ call = Idle

\* SecretContainer::add: what it refuses, and a duplicate, leave it as it is.
Refused(secrets, s) == \/ s = <<>> \/ Len(s) > MaxSecretLength
                       \/ Cardinality(secrets) >= MaxSecrets
AddSecret(s) ==
    /\ ~ redactor.built /\ ~ Refused(container, s)
    /\ container' = container \cup {s} /\ UNCHANGED <<redactor, call>>

\* CompositeRedactorBuilder::build consumes the builder with the container.
Build(enabled) ==
    /\ ~ redactor.built
    /\ redactor' = [enabled |-> enabled, secrets |-> container, built |-> TRUE]
    /\ container' = {} /\ UNCHANGED call

\* redact_text, and its return to the caller.
Redact ==
    /\ redactor.built /\ call = Idle
    /\ \E text \in Inputs :
          call' = [text |-> text,
                   result |-> RedactText(text, redactor.enabled, redactor.secrets)]
    /\ UNCHANGED <<container, redactor>>
Return == call # Idle /\ call' = Idle /\ UNCHANGED <<container, redactor>>

RedactorNext ==
    \/ \E s \in SecretTexts : AddSecret(s)
    \/ \E enabled \in DetectorSets : Build(enabled)
    \/ Redact
    \/ Return
RedactorSpec == RedactorInit /\ [][RedactorNext]_redactorVars

-----------------------------------------------------------------------------
(***************************************************************************)
(* What redaction has to return, without sorting and merging.              *)
(***************************************************************************)
\* The places that some match covers, and those where a covered block begins.
Covered(text, matches) ==
    {i \in DOMAIN text : \E m \in matches : m.start <= i /\ i <= m.end}
BlockStarts(text, matches) ==
    {i \in Covered(text, matches) : i - 1 \notin Covered(text, matches)}

\* The category of the block that begins at i: that of all its matches.
InBlock(text, matches, i) ==
    {m \in matches : i <= m.start /\ i .. m.end \subseteq Covered(text, matches)}
Common(found) == IF \E c \in found : found = {c} THEN CHOOSE c \in found : TRUE ELSE "password"
BlockCategory(text, matches, i) == Common({m.category : m \in InBlock(text, matches, i)})

\* What is to be seen of the i-th lexeme, and of the text.
Shown(text, matches, i) ==
    IF i \notin Covered(text, matches) THEN <<text[i]>>
    ELSE IF i \in BlockStarts(text, matches)
    THEN <<Marker(BlockCategory(text, matches, i))>> ELSE <<>>
ShownText(text, matches) == FlattenSeq([i \in DOMAIN text |-> Shown(text, matches, i)])

Occurs(s, text) == \E i \in DOMAIN text : OccursAt(s, text, i)

\* Every lexeme that a detector covers is gone, every other one is in its place, and
\* each covered block is one marker, of the category that its matches share.
BlocksMarked(text, matches, result) ==
    /\ result.redacted = ShownText(text, matches)
    /\ result.count = Cardinality(BlockStarts(text, matches))
    /\ result.categories = {BlockCategory(text, matches, i) : i \in BlockStarts(text, matches)}

\* The redactor removes everything its detectors find and nothing else, whatever
\* way their matches overlap (merge_overlapping, apply_redactions); no configured
\* secret and no word of an enabled token shape is left in what it returns.
NothingLeaks ==
    call.result.err = "ok" =>
        /\ BlocksMarked(call.text,
                        AllMatches(call.text, redactor.enabled, redactor.secrets), call.result)
        /\ \A s \in redactor.secrets : ~ Occurs(s, call.result.redacted)
        /\ \A d \in redactor.enabled \cap DOMAIN Tokens :
              Tokens[d] \cap ToSet(call.result.redacted) = {}
=============================================================================
