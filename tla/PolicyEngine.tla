---------------------------- MODULE PolicyEngine ----------------------------
(***************************************************************************)
(* Loading policies and evaluating requests (crates/kavach-policy), as the *)
(* gateway drives them: a reload reads the named files one by one, builds  *)
(* an engine from them and puts it in place of the old one; an evaluation  *)
(* visits every rule of every policy and then resolves the groups of rules *)
(* that matched.  An operator may edit the files at any time, so every     *)
(* look at a file may find any document.                                   *)
(***************************************************************************)
EXTENDS PolicyRules

CONSTANTS
    Requests,     \* the requests that may be evaluated
    Documents,    \* what a policy file may hold
    MaxFiles,     \* bound on the files of a load
    MaxTrace,     \* MAX_TRACE_FAILED_CONDITIONS
    MaxLoads,     \* bound on the loads that are started
    Workspaces,   \* where a workspace may lie: the segments of its path
    NoEngine, NoAnswer

ASSUME EngineAssumption ==
    /\ MaxTrace \in Nat
    /\ MaxLoads \in Nat
    /\ MaxFiles \in Nat
    /\ \A req \in Requests : req.operation.label \in Operations

\* What serde makes of a document: a list of rules, each with an effect and a
\* condition for every dimension, left out or not.
RuleLike(rule) ==
    /\ rule.effect \in Effects
    /\ rule.conditions = [d \in Dimensions |-> rule.conditions[d]]

ASSUME DocumentAssumption ==
    \A doc \in Documents :
        /\ doc.rules \in Seq(Elements(doc.rules))
        /\ \A rule \in Elements(doc.rules) : RuleLike(rule)

\* What serde makes of a request: a path is kept as it came, with its segments,
\* and some resources always have one.
RawPaths == [root : Roots, segs : Seq(STRING)]
PathLike(path) == path # Null => path.raw \in RawPaths
RequestLike(req) ==
    /\ req = [f \in {"request_id", "subject", "operation", "resource", "context"} |-> req[f]]
    /\ req.resource = [f \in DOMAIN NoResource |-> req.resource[f]]
    /\ req.context = [f \in {"working_directory", "intent", "parent", "metadata", "dry_run"}
                        |-> req.context[f]]
    /\ PathLike(req.resource.path) /\ PathLike(req.context.working_directory)
    /\ req.resource.kind \in {"file", "directory", "network_endpoint"} =>
            req.resource.path # Null

ASSUME RequestAssumption ==
    /\ \A req \in Requests : RequestLike(req)
    /\ Null \notin [raw : RawPaths, normalized : RawPaths, absolute : BOOLEAN]

\* A workspace is named by a valid path without "." and "..".
Plain(segs) == \A i \in DOMAIN segs : segs[i] \notin {"", ".", ".."}

ASSUME WorkspaceAssumption ==
    \A w \in Workspaces : w \in Seq(STRING) /\ Plain(w) /\ CleanSegments(w)

VARIABLES
    load,     \* the load in progress: files left to read, policies read
    engine,   \* the compiled policies in force, or NoEngine
    eval,     \* the evaluation in progress
    answer,   \* the decision evaluate returns and its request, or NoAnswer
    loads     \* loads started (bounded by MaxLoads)

vars == <<load, engine, eval, answer, loads>>

A == INSTANCE PolicyDecision

Idle == [step |-> "idle", files |-> 0, policies |-> <<>>]
NoEval == [step |-> "idle", req |-> Null, p |-> 1, r |-> 1,
           deny |-> {}, approval |-> {}, allow |-> {}, failed |-> <<>>]

Decision(effect, reason, ids) == [effect |-> effect, reason |-> reason, ids |-> ids]

Init ==
    /\ load = Idle
    /\ engine = NoEngine
    /\ eval = NoEval
    /\ answer = NoAnswer
    /\ loads = 0

-----------------------------------------------------------------------------
(***************************************************************************)
(* Loading.                                                                *)
(***************************************************************************)

\* reload_policies, or the start of the gateway.
StartLoad(files) ==
    /\ load = Idle /\ loads < MaxLoads
    /\ load' = [Idle EXCEPT !.step = "stat", !.files = files]
    /\ loads' = loads + 1
    /\ UNCHANGED <<engine, eval, answer>>

\* load_policy_from_file: the size in the metadata comes before the read.
Stat(doc) ==
    /\ load.step = "stat"
    /\ load' = IF doc.large THEN Idle ELSE [load EXCEPT !.step = "read"]
    /\ UNCHANGED <<engine, eval, answer, loads>>

\* load_policy_from_str and convert: parse, schema, ids, duplicates, validate.
Convertible(doc) ==
    /\ doc.parses /\ doc.schema_version = 1
    /\ Clean(doc.id)
    /\ \A i \in DOMAIN doc.rules : Clean(doc.rules[i].id)
    /\ ValidatePolicy(doc)

Parsed(doc) == [id |-> doc.id, default_effect |-> doc.default_effect,
                rules |-> doc.rules, large |-> doc.large]

\* The read sees the file as it is now; its size is checked again.
Read(doc) ==
    /\ load.step = "read"
    /\ load' = IF doc.large \/ ~ Convertible(doc) THEN Idle
               ELSE [step |-> IF load.files = 1 THEN "build" ELSE "stat",
                     files |-> load.files - 1,
                     policies |-> Append(load.policies, Parsed(doc))]
    /\ UNCHANGED <<engine, eval, answer, loads>>

\* The rule at a place, and the places of all rules.
Places(policies) == UNION {{<<p, r>> : r \in DOMAIN policies[p].rules} : p \in DOMAIN policies}

DistinctIds(policies) ==
    \A q1, q2 \in Places(policies) :
        policies[q1[1]].rules[q1[2]].id = policies[q2[1]].rules[q2[2]].id => q1 = q2

\* Only the rules of one policy are compared.
Accepts_PerPolicy(policies) == \A p \in DOMAIN policies : ValidatePolicy(policies[p])

\* PolicyEngine::new refuses a faulty policy and an id used twice anywhere.
\* Compiling the patterns can fail too, but only one that globset refused when
\* the policy was validated a moment before.
Accepts(policies) ==
    /\ \A p \in DOMAIN policies : ValidatePolicy(policies[p])
    /\ DistinctIds(policies)

CompilePolicy(policy) ==
    [id |-> policy.id, default_effect |-> policy.default_effect, large |-> policy.large,
     rules |-> [r \in DOMAIN policy.rules |-> Compile(policy.rules[r])]]
Compiled(policies) == [p \in DOMAIN policies |-> CompilePolicy(policies[p])]
Engines == Seq({CompilePolicy(Parsed(doc)) : doc \in Documents})

ASSUME NoEngineAssumption == NoEngine \notin Engines

\* AuthorizationRuntime::reload_policies under the write lock: no evaluation
\* runs, and a refused list leaves the engine as it is.
Build ==
    /\ load.step = "build" /\ eval.step = "idle"
    /\ engine' = IF Accepts(load.policies) THEN Compiled(load.policies) ELSE engine
    /\ load' = Idle
    /\ UNCHANGED <<eval, answer, loads>>

-----------------------------------------------------------------------------
(***************************************************************************)
(* Evaluation.                                                             *)
(***************************************************************************)

\* evaluate: an invalid request and the baseline are decided at once.
Begin(req) ==
    /\ engine # NoEngine /\ eval.step = "idle" /\ answer = NoAnswer
    /\ IF Validate(req) # "ok"
       THEN /\ answer' = [req |-> req, decision |-> Decision("deny", "deny_invalid_request", {})]
            /\ UNCHANGED eval
       ELSE IF Baseline(req.resource) # Null
       THEN /\ answer' = [req |-> req,
                          decision |-> Decision("deny", "deny_explicit_rule",
                                                {Baseline(req.resource)})]
            /\ UNCHANGED eval
       ELSE /\ eval' = [NoEval EXCEPT !.step = "match", !.req = req]
            /\ UNCHANGED answer
    /\ UNCHANGED <<load, engine, loads>>

\* rule_match_outcome: the first condition that fails, or none.
FirstFailed(cr, req) ==
    LET failing == {i \in 1..14 : ~ Holds(DimensionOrder[i], cr, req)}
    IN  IF failing = {} THEN <<>>
        ELSE <<DimensionOrder[CHOOSE i \in failing : \A j \in failing : i <= j]>>

\* The trace keeps the first MaxTrace distinct names.
Noted(failed, name) ==
    IF Len(failed) >= MaxTrace \/ name \in Elements(failed) THEN failed
    ELSE Append(failed, name)

\* The ids of the rules that match, by effect.
Grouped(ev, rule) ==
    CASE rule.effect = "deny" -> [ev EXCEPT !.deny = @ \cup {rule.id}]
      [] rule.effect = "require_approval" -> [ev EXCEPT !.approval = @ \cup {rule.id}]
      [] rule.effect = "allow" -> [ev EXCEPT !.allow = @ \cup {rule.id}]

\* One turn of the loop over the rules of a policy.
MatchRule ==
    /\ eval.step = "match"
    /\ eval.p <= Len(engine) /\ eval.r <= Len(engine[eval.p].rules)
    /\ LET cr == engine[eval.p].rules[eval.r]
           outcome == FirstFailed(cr, eval.req)
           next == [eval EXCEPT !.r = @ + 1]
       IN  eval' = IF outcome = <<>> THEN Grouped(next, cr.rule)
                   ELSE [next EXCEPT !.failed = Noted(@, outcome[1])]
    /\ UNCHANGED <<load, engine, answer, loads>>

NextPolicy ==
    /\ eval.step = "match"
    /\ eval.p <= Len(engine) /\ eval.r > Len(engine[eval.p].rules)
    /\ eval' = [eval EXCEPT !.p = @ + 1, !.r = 1]
    /\ UNCHANGED <<load, engine, answer, loads>>

\* An allow rule is honoured before the rules that ask for an approval.
Resolution_AllowFirst ==
    IF eval.deny # {} THEN Decision("deny", "deny_explicit_rule", eval.deny)
    ELSE IF eval.allow # {} THEN Decision("allow", "allow_policy_match", eval.allow)
    ELSE IF eval.approval # {}
    THEN Decision("require_approval", "approval_required", eval.approval)
    ELSE LET default == IF engine = <<>> THEN "deny" ELSE engine[1].default_effect
         IN  Decision(default, IF default = "deny" THEN "deny_default"
                               ELSE "approval_required", {})

\* The group of the highest precedence that is not empty, or the default of
\* the first policy.
Resolution ==
    IF eval.deny # {} THEN Decision("deny", "deny_explicit_rule", eval.deny)
    ELSE IF eval.approval # {}
    THEN Decision("require_approval", "approval_required", eval.approval)
    ELSE IF eval.allow # {} THEN Decision("allow", "allow_policy_match", eval.allow)
    ELSE LET default == IF engine = <<>> THEN "deny" ELSE engine[1].default_effect
         IN  Decision(default, IF default = "deny" THEN "deny_default"
                               ELSE "approval_required", {})

Resolve ==
    /\ eval.step = "match" /\ eval.p > Len(engine)
    /\ answer' = [req |-> eval.req, decision |-> Resolution]
    /\ eval' = NoEval
    /\ UNCHANGED <<load, engine, loads>>

\* The caller has the decision.
Return ==
    /\ answer # NoAnswer
    /\ answer' = NoAnswer
    /\ UNCHANGED <<load, engine, eval, loads>>

Next ==
    \/ \E n \in 1..MaxFiles : StartLoad(n)
    \/ \E doc \in Documents : Stat(doc) \/ Read(doc)
    \/ Build
    \/ \E req \in Requests : Begin(req)
    \/ MatchRule
    \/ NextPolicy
    \/ Resolve
    \/ Return

Spec == Init /\ [][Next]_vars

-----------------------------------------------------------------------------
(***************************************************************************)
(* Properties.                                                             *)
(***************************************************************************)

\* The engine implements its promise: whatever order the files, policies and
\* rules come in, evaluate answers what PolicyDecision's Meaning says of the
\* engine in force.
ImplementsDecision == A!Spec

\* No rule of the engine in force is free of conditions, and a rule id names
\* one rule among all the policy files of the load.  The ids of the baseline are
\* not reserved: a file may use one of them.
EngineWellFormed ==
    engine # NoEngine =>
        /\ \A q1, q2 \in A!Positions(engine) :
                A!RuleAt(engine, q1).rule.id = A!RuleAt(engine, q2).rule.id => q1 = q2
        /\ \A q \in A!Positions(engine) :
                \E d \in Dimensions :
                    A!RuleAt(engine, q).rule.conditions[d] # NoConditions[d]

\* The same request in a workspace that lies elsewhere.
Moved(path, from, to) ==
    NormalizedPath([path.raw EXCEPT !.segs = to \o SubSeq(@, Len(from) + 1, Len(@))])
Relocated(req, from, to) ==
    [req EXCEPT !.context.working_directory = Moved(@, from, to),
                !.resource.path = Moved(@, from, to)]

\* A valid path below the prefix that does not climb out of it on its way.
Below(prefix, path) ==
    /\ PathInvariants(path) /\ path.raw.root = "slash"
    /\ IsPrefixOf(prefix, path.raw.segs)
    /\ NormalizeBody(SubSeq(path.raw.segs, Len(prefix) + 1, Len(path.raw.segs))).ok

\* A relative pattern that begins with a name.  One that begins with a wildcard
\* also takes absolute paths as they stand: "*/a" takes "/a".
BeginsWithName(g) ==
    /\ IsRelativePattern(g)
    /\ 1 \in DOMAIN g.segs /\ g.segs[1] \notin {"*", "**", NoText}

\* A rule whose path patterns are all of this kind.
Anchored(cr) ==
    LET globs == cr.rule.conditions.path_globs
    IN  globs # Null => \A g \in Elements(globs) : BeginsWithName(g)

\* Relative patterns that begin with a name mean the same wherever the workspace
\* lies: moving the working directory and the path together changes no decision.
RelocationInvariant ==
    engine # NoEngine /\ (\A q \in A!Positions(engine) : Anchored(A!RuleAt(engine, q))) =>
        \A req \in Requests, from, to \in Workspaces :
            /\ req.resource.kind = "file"
            /\ req.context.working_directory # Null
            /\ Below(from, req.resource.path)
            /\ Below(from, req.context.working_directory)
            => A!Meaning(engine, Relocated(req, from, to)) = A!Meaning(engine, req)
=============================================================================
