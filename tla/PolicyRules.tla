---------------------------- MODULE PolicyRules ----------------------------
(***************************************************************************)
(* Policy documents of crates/kavach-policy: what a rule may say, which    *)
(* documents are refused, and when a rule's conditions hold for a request. *)
(*                                                                         *)
(* A condition that is left out is {} for the plain lists and Null for the *)
(* optional ones.  A path pattern is a root and segments, each a literal   *)
(* or one of the wildcards "*" and "**"; an intent is the sequence of its  *)
(* words.                                                                  *)
(***************************************************************************)
EXTENDS CoreRequest

CONSTANTS
    MaxPatterns,  \* [ListNames -> Nat]: the MAX_*_PATTERNS limits
    BadGlobs,     \* path patterns globset::Glob::new refuses
    BadArguments, \* argument patterns it refuses
    Slashed,      \* words of arguments with a '/' in them
    Basenames     \* [executable -> text] for paths and names with capitals or .exe

Effects == {"allow", "deny", "require_approval"}
DefaultEffects == {"deny", "require_approval"}

ListNames == {"path_globs", "executables", "network_hosts", "network_schemes",
              "secret_identifiers", "tool_identifiers", "network_ports",
              "deny_if_matches", "require_match"}

ASSUME RulesAssumption == MaxPatterns \in [ListNames -> Nat]

\* The order in which rule_match_outcome checks the conditions of a rule.
DimensionOrder ==
    <<"operations", "resource_kinds", "agent_ids", "min_trust_level",
      "required_capabilities", "intent_prefix", "executables",
      "argument_rules", "network_hosts", "network_schemes", "network_ports",
      "secret_identifiers", "tool_identifiers", "path_globs">>
Dimensions == {DimensionOrder[i] : i \in 1..14}

\* RuleConditions::default
NoConditions ==
    [operations |-> {}, resource_kinds |-> {}, agent_ids |-> {},
     min_trust_level |-> Null, required_capabilities |-> {},
     intent_prefix |-> Null, path_globs |-> Null, executables |-> Null,
     network_hosts |-> Null, network_schemes |-> Null, secret_identifiers |-> Null,
     tool_identifiers |-> Null, network_ports |-> Null, argument_rules |-> Null]

Elements(list) == {list[i] : i \in DOMAIN list}
Listed(list) == list # Null /\ list # <<>>

-----------------------------------------------------------------------------
(***************************************************************************)
(* Validation: the fault of a condition, or "ok".                          *)
(***************************************************************************)
TextFault(t) == CASE t = "" -> "empty_pattern"
                  [] t \in Oversized -> "too_long"
                  [] t \in Dirty -> "invalid"
                  [] OTHER -> "ok"

\* A pattern made of several texts.
PatternFault(p) == CASE p = <<>> -> "empty_pattern"
                     [] Elements(p) \cap Oversized # {} -> "too_long"
                     [] Elements(p) \cap Dirty # {} -> "invalid"
                     [] OTHER -> "ok"
\* The pattern "/" has no segments and is not empty.
GlobFault(g) == IF g.root # "none" /\ g.segs = <<>> THEN "ok" ELSE PatternFault(g.segs)
PortFault(p) == "ok"

\* Every validate_* function walks its list once and stops at the first
\* element that is faulty, a repetition or refused by globset.
ListFault(list, name, ElementFault(_), bad) ==
    LET fault(i) == CASE ElementFault(list[i]) # "ok" -> ElementFault(list[i])
                      [] \E j \in 1..(i - 1) : list[j] = list[i] -> "duplicate"
                      [] list[i] \in bad -> "invalid"
                      [] OTHER -> "ok"
        faulty == {i \in DOMAIN list : fault(i) # "ok"}
    IN  CASE list = <<>> -> "empty_list"
          [] Len(list) > MaxPatterns[name] -> "too_many"
          [] faulty = {} -> "ok"
          [] OTHER -> fault(CHOOSE i \in faulty : \A j \in faulty : i <= j)

OptionalFault(list, name, ElementFault(_), bad) ==
    IF list = Null THEN "ok" ELSE ListFault(list, name, ElementFault, bad)

ValidatePathGlobs(c) == OptionalFault(c.path_globs, "path_globs", GlobFault, BadGlobs)
ValidateExecutables(c) == OptionalFault(c.executables, "executables", TextFault, {})
ValidateNetworkHosts(c) == OptionalFault(c.network_hosts, "network_hosts", TextFault, {})
ValidateNetworkSchemes(c) ==
    OptionalFault(c.network_schemes, "network_schemes", TextFault, {})
ValidateSecretIdentifiers(c) ==
    OptionalFault(c.secret_identifiers, "secret_identifiers", TextFault, {})
ValidateToolIdentifiers(c) ==
    OptionalFault(c.tool_identifiers, "tool_identifiers", TextFault, {})
ValidateNetworkPorts(c) == OptionalFault(c.network_ports, "network_ports", PortFault, {})

\* ArgumentRules::is_empty: no list carries a pattern.
EmptyArgumentRules(a) == ~ Listed(a.deny_if_matches) /\ ~ Listed(a.require_match)

ArgumentListFault(a, name) == OptionalFault(a[name], name, PatternFault, BadArguments)
ValidateArgumentRules(c) ==
    LET a == c.argument_rules
    IN  CASE a = Null -> "ok"
          [] a # Null /\ EmptyArgumentRules(a) -> "empty_list"
          [] OTHER -> IF ArgumentListFault(a, "deny_if_matches") # "ok"
                      THEN ArgumentListFault(a, "deny_if_matches")
                      ELSE ArgumentListFault(a, "require_match")

\* RuleConditions::is_empty
EmptyConditions(c) ==
    LET a == c.argument_rules
    IN  (a # Null => EmptyArgumentRules(a))
        /\ [c EXCEPT !.argument_rules = Null] = NoConditions

ConditionFaults(c) ==
    <<ValidatePathGlobs(c), ValidateExecutables(c), ValidateNetworkHosts(c),
      ValidateNetworkSchemes(c), ValidateSecretIdentifiers(c),
      ValidateToolIdentifiers(c), ValidateNetworkPorts(c), ValidateArgumentRules(c)>>

\* Policy::validate, which refuses a policy at its first faulty rule.
ValidatePolicy(policy) ==
    \A i \in DOMAIN policy.rules :
        /\ ~ EmptyConditions(policy.rules[i].conditions)
        /\ Elements(ConditionFaults(policy.rules[i].conditions)) = {"ok"}
        /\ \A j \in 1..(i - 1) : policy.rules[i].id # policy.rules[j].id

-----------------------------------------------------------------------------
(***************************************************************************)
(* Path patterns.                                                          *)
(***************************************************************************)
IsRelativePattern(pat) == pat.root = "none"

\* The piece before a leading slash.
NoText == ""

\* The pieces of a text between its slashes: "/a" has two, an empty one and
\* "a".  The label of a drive or a UNC prefix is a piece.  So is the verbatim
\* marker, which the text glues to the first segment.
Pieces(p) ==
    CASE p.root = "none" -> IF p.segs = <<>> THEN <<NoText>> ELSE p.segs
      [] p.root = "slash" -> <<NoText>> \o (IF p.segs = <<>> THEN <<NoText>> ELSE p.segs)
      [] OTHER -> <<p.root>> \o p.segs

\* globset with literal_separator: piece i of the pattern takes the pieces of
\* the text after cut[i - 1], up to cut[i].  "*" takes one piece, which may be
\* empty; "**" any number, but at least one at the end of a longer pattern.
PiecesMatch(pat, text) ==
    \E cut \in [DOMAIN pat -> 0..Len(text)] :
        /\ cut[Len(pat)] = Len(text)
        /\ \A i \in DOMAIN pat :
              LET before == IF i = 1 THEN 0 ELSE cut[i - 1]
              IN  IF pat[i] = "**"
                  THEN before <= cut[i] /\ (i = Len(pat) /\ i > 1 => before < cut[i])
                  ELSE cut[i] = before + 1 /\ pat[i] \in {"*", text[cut[i]]}

MatcherMatches(globs, text) == \E i \in DOMAIN globs : PiecesMatch(Pieces(globs[i]), text)

\* What strip_workspace_prefix takes off: the working directory and a '/'.  The
\* text "/" and the empty text, which a relative path can normalise to, both
\* stand for the pieces before the first slash.
WorkspacePrefix(wd) ==
    IF wd.segs = <<>> /\ wd.root \in {"slash", "none"} THEN <<NoText>> ELSE Pieces(wd)

UnderWorkspace(path, wd) ==
    /\ Len(WorkspacePrefix(wd)) < Len(Pieces(path))
    /\ SubSeq(Pieces(path), 1, Len(WorkspacePrefix(wd))) = WorkspacePrefix(wd)
    /\ wd.root = "verbatim" => wd.segs # <<>>

\* Takes one piece off, however deep the working directory is.
RelativeTo_OneSegment(path, wd) == Tail(Pieces(path))

RelativeTo(path, wd) ==
    SubSeq(Pieces(path), Len(WorkspacePrefix(wd)) + 1, Len(Pieces(path)))

\* path_matches_with_cwd: the path itself or, for an absolute path and a rule
\* with relative patterns, what is left of it below the working directory.
PathMatches(globs, relative, path, wd) ==
    \/ MatcherMatches(globs, Pieces(path.normalized))
    \/ /\ relative /\ path.absolute /\ wd # Null
       /\ UnderWorkspace(path.normalized, wd.normalized)
       /\ MatcherMatches(globs, RelativeTo(path.normalized, wd.normalized))

\* PolicyEngine::new keeps with every rule whether a pattern is relative.
Compile(rule) ==
    [rule |-> rule,
     relative |-> /\ rule.conditions.path_globs # Null
                  /\ \E g \in Elements(rule.conditions.path_globs) : IsRelativePattern(g)]

-----------------------------------------------------------------------------
(***************************************************************************)
(* The conditions of a compiled rule, one by one.                          *)
(***************************************************************************)
TrustRank(level) == CHOOSE i \in DOMAIN TrustLevels : TrustLevels[i] = level

\* A pattern is a literal text, or one "*" for any text without a '/'.
ArgumentMatches(pat, arg) ==
    pat = arg \/ (pat = <<"*">> /\ Elements(arg) \cap Slashed = {})
SomeArgumentMatches(list, args) ==
    \E p \in Elements(list), a \in Elements(args) : ArgumentMatches(p, a)

ArgumentsHold(a, r) ==
    /\ r.kind = "command"
    /\ Listed(a.deny_if_matches) => ~ SomeArgumentMatches(a.deny_if_matches, r.arguments)
    /\ Listed(a.require_match) => SomeArgumentMatches(a.require_match, r.arguments)

\* Port 0 in a rule stands for any port, also for an endpoint without one.
PortsHold(ports, r) ==
    /\ r.kind = "network_endpoint"
    /\ \E p \in Elements(ports) : p = 0 \/ p = r.port

IsPrefixOf(p, s) == Len(p) <= Len(s) /\ SubSeq(s, 1, Len(p)) = p

OneOf(list, kind, r, value) == r.kind = kind /\ value \in Elements(list)

Holds(d, cr, req) ==
    LET c == cr.rule.conditions
        r == req.resource
        s == req.subject
    IN  CASE d = "operations" -> c.operations = {} \/ req.operation.label \in c.operations
          [] d = "resource_kinds" -> c.resource_kinds = {} \/ r.kind \in c.resource_kinds
          [] d = "agent_ids" -> c.agent_ids = {} \/ s.agent_id \in c.agent_ids
          [] d = "min_trust_level" -> c.min_trust_level = Null
                \/ TrustRank(s.trust_level) >= TrustRank(c.min_trust_level)
          [] d = "required_capabilities" -> c.required_capabilities \subseteq s.capabilities
          [] d = "intent_prefix" -> c.intent_prefix = Null
                \/ (req.context.intent # Null /\ IsPrefixOf(c.intent_prefix, req.context.intent))
          [] d = "executables" -> c.executables = Null
                \/ OneOf(c.executables, "command", r, r.executable)
          [] d = "argument_rules" -> c.argument_rules = Null
                \/ ArgumentsHold(c.argument_rules, r)
          [] d = "network_hosts" -> c.network_hosts = Null
                \/ OneOf(c.network_hosts, "network_endpoint", r, r.host)
          [] d = "network_schemes" -> c.network_schemes = Null
                \/ OneOf(c.network_schemes, "network_endpoint", r, r.scheme)
          [] d = "network_ports" -> c.network_ports = Null \/ PortsHold(c.network_ports, r)
          [] d = "secret_identifiers" -> c.secret_identifiers = Null
                \/ OneOf(c.secret_identifiers, "secret", r, r.identifier)
          [] d = "tool_identifiers" -> c.tool_identifiers = Null
                \/ OneOf(c.tool_identifiers, "external_tool", r, r.identifier)
          [] d = "path_globs" -> ~ Listed(c.path_globs)
                \/ (ResourcePath(r) # Null
                    /\ PathMatches(c.path_globs, cr.relative, ResourcePath(r),
                                   req.context.working_directory))

-----------------------------------------------------------------------------
(***************************************************************************)
(* The baseline: denials no policy can switch off.                         *)
(***************************************************************************)
Interpreters == {"python", "python3", "python3.12", "python2", "perl", "ruby",
                 "node", "nodejs"}

\* executable_basename: the last path component, in lower case without ".exe".
Basename(exe) == IF exe \in DOMAIN Basenames THEN Basenames[exe] ELSE exe

DangerousInvocation(r) ==
    LET args == r.arguments
    IN  \/ /\ Basename(r.executable) \in Interpreters
           /\ args # <<>>
           /\ \/ args[1] \in {<<"-c">>, <<"-e">>}
              \/ /\ args[1] = <<"-m">>
                 /\ Len(args) >= 2
                 /\ Len(args[2]) = 1
                 /\ Lower(args[2][1]) \in {"pip", "easy_install"}
        \/ \E a \in Elements(args) : HasSubstitutionHazard(a)

\* Chaining, piping, redirection and grouping, whatever the executable.
ShellHazard(r) == \E a \in Elements(r.arguments) : HazardsOf(a) \ Expansions # {}

Baseline(r) == CASE r.kind # "command" -> Null
                 [] DangerousInvocation(r) -> "baseline-dangerous-interpreter"
                 [] ShellHazard(r) -> "baseline-shell-hazard"
                 [] OTHER -> Null
=============================================================================
