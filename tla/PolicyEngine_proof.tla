------------------------- MODULE PolicyEngine_proof -------------------------
(***************************************************************************)
(* Proofs about the policy engine, for any documents, any requests and any *)
(* number of files, policies and rules: the loop over the rules decides    *)
(* what PolicyDecision promises, and the engine in force is well formed.   *)
(***************************************************************************)
EXTENDS PolicyEngine, Iteration, SequenceTheorems

----------------------------------------------------------------------------
(* Rules and places                                                        *)

ParsedDocs == {Parsed(doc) : doc \in Documents}
CompiledDocs == {CompilePolicy(Parsed(doc)) : doc \in Documents}

\* The rules of a compiled policy are a list, and each comes from a document.
LEMMA CompiledRules ==
    ASSUME NEW policy \in CompiledDocs
    PROVE  /\ DOMAIN policy.rules = 1 .. Len(policy.rules) /\ Len(policy.rules) \in Nat
           /\ \A r \in DOMAIN policy.rules : policy.rules[r].rule.effect \in Effects
<1>1. PICK doc \in Documents : policy = CompilePolicy(Parsed(doc))
  BY DEF CompiledDocs
<1>2. /\ doc.rules \in Seq(Elements(doc.rules))
      /\ \A rule \in Elements(doc.rules) : RuleLike(rule)
  BY DocumentAssumption
<1>3. policy.rules = [r \in DOMAIN doc.rules |-> Compile(doc.rules[r])]
  BY <1>1 DEF CompilePolicy, Parsed
<1>4. DOMAIN doc.rules = 1 .. Len(doc.rules) /\ Len(doc.rules) \in Nat
  BY <1>2
<1>5. DOMAIN policy.rules = 1 .. Len(doc.rules)
  BY <1>3, <1>4
<1>6. policy.rules \in Seq({Compile(rule) : rule \in Elements(doc.rules)})
  BY <1>3, <1>4 DEF Elements
<1>7. DOMAIN policy.rules = 1 .. Len(policy.rules) /\ Len(policy.rules) \in Nat
  BY <1>6
<1>8. \A r \in DOMAIN doc.rules : doc.rules[r].effect \in Effects
  BY <1>2 DEF Elements, RuleLike
<1>9. \A r \in DOMAIN policy.rules : policy.rules[r].rule = doc.rules[r]
  BY <1>3 DEF Compile
<1> QED
  BY <1>3, <1>7, <1>8, <1>9

\* The places of an engine.
LEMMA PlacesOfEngine ==
    ASSUME NEW e \in Engines
    PROVE  /\ DOMAIN e = 1 .. Len(e) /\ Len(e) \in Nat
           /\ \A p \in DOMAIN e : e[p] \in CompiledDocs
           /\ \A q \in A!Positions(e) : /\ q = <<q[1], q[2]>>
                                        /\ q[1] \in DOMAIN e
                                        /\ q[2] \in DOMAIN e[q[1]].rules
           /\ \A p \in DOMAIN e : \A r \in DOMAIN e[p].rules : <<p, r>> \in A!Positions(e)
  BY DEF Engines, CompiledDocs, A!Positions

----------------------------------------------------------------------------
(* PolicyDecision reads requests and rules as the engine does              *)

\* The conditions of a rule.
LEMMA SameHolds ==
    ASSUME NEW d, NEW cr, NEW req
    PROVE  A!Holds(d, cr, req) <=> Holds(d, cr, req)
  BY DEF Holds, A!Holds, TrustRank, A!TrustRank, TrustLevels, A!TrustLevels,
         IsPrefixOf, A!IsPrefixOf, OneOf, A!OneOf, Elements, A!Elements,
         ArgumentsHold, A!ArgumentsHold, Listed, A!Listed,
         SomeArgumentMatches, A!SomeArgumentMatches, ArgumentMatches, A!ArgumentMatches,
         PortsHold, A!PortsHold, ResourcePath, A!ResourcePath,
         PathMatches, A!PathMatches, MatcherMatches, A!MatcherMatches,
         NoText, A!NoText, Pieces, A!Pieces, PiecesMatch, A!PiecesMatch,
         WorkspacePrefix, A!WorkspacePrefix,
         UnderWorkspace, A!UnderWorkspace, RelativeTo, A!RelativeTo

\* The names of the conditions.
LEMMA SameDimensions == A!Dimensions = Dimensions
  BY DEF Dimensions, A!Dimensions, DimensionOrder, A!DimensionOrder

\* The validation of a request.
LEMMA SameValidate ==
    ASSUME NEW req
    PROVE  A!Validate(req) = Validate(req)
  BY DEF Validate, A!Validate, FirstFault, A!FirstFault, Unless, A!Unless,
         Clean, A!Clean, CleanOrEmpty, A!CleanOrEmpty,
         SubjectInvariants, A!SubjectInvariants, OperationInvariants, A!OperationInvariants,
         ResourceInvariants, A!ResourceInvariants, CommandInvariants, A!CommandInvariants,
         ContextInvariants, A!ContextInvariants, MetadataInvariants, A!MetadataInvariants,
         Compatible, A!Compatible, FileOps, A!FileOps, DirectoryOps, A!DirectoryOps,
         PathInvariants, A!PathInvariants, IsPath, A!IsPath,
         CleanSegments, A!CleanSegments,
         NormalizedPath, A!NormalizedPath, NormalizeLexical, A!NormalizeLexical,
         NormalizeBody, A!NormalizeBody, SegmentStack, A!SegmentStack,
         PushSegment, A!PushSegment, Cardinality, A!Cardinality

\* The baseline.
LEMMA SameBaseline ==
    ASSUME NEW r
    PROVE  A!Baseline(r) = Baseline(r)
  BY DEF Baseline, A!Baseline, DangerousInvocation, A!DangerousInvocation,
         ShellHazard, A!ShellHazard, Basename, A!Basename, Interpreters, A!Interpreters,
         Lower, A!Lower, Elements, A!Elements, Expansions, A!Expansions,
         HasSubstitutionHazard, A!HasSubstitutionHazard, HazardsOf, A!HazardsOf,
         ScanShell, A!ScanShell, HazardAt, A!HazardAt

\* rule_match_outcome finds no failed condition in the rules that apply, and
\* one in every other rule.
LEMMA NoneFailed ==
    ASSUME NEW cr, NEW req
    PROVE  FirstFailed(cr, req) = <<>> <=> A!Applies(cr, req)
<1> DEFINE failing == {i \in 1..14 : ~ Holds(DimensionOrder[i], cr, req)}
<1>1. A!Applies(cr, req) <=> \A d \in Dimensions : Holds(d, cr, req)
  BY SameHolds, SameDimensions DEF A!Applies
<1>2. (\A d \in Dimensions : Holds(d, cr, req)) <=> failing = {}
  BY DEF Dimensions
<1>3. failing # {} => FirstFailed(cr, req) # <<>>
  BY DEF FirstFailed
<1>4. failing = {} => FirstFailed(cr, req) = <<>>
  BY DEF FirstFailed
<1> QED
  BY <1>1, <1>2, <1>3, <1>4

----------------------------------------------------------------------------
(* The invariant                                                           *)

\* The places the loop has left behind when it is at rule r of policy p.
Visited(p, r) == {q \in A!Positions(engine) : q[1] < p \/ (q[1] = p /\ q[2] < r)}

\* The ids of the rules of S with an effect that apply.
Won(S, req, effect) ==
    {A!RuleAt(engine, q).rule.id : q \in {x \in S :
        A!RuleAt(engine, x).rule.effect = effect /\ A!Applies(A!RuleAt(engine, x), req)}}

\* What a load has read comes from documents.
LoadType ==
    /\ load = [step |-> load.step, files |-> load.files, policies |-> load.policies]
    /\ load.policies \in Seq(ParsedDocs)

EvalType ==
    /\ eval = [step |-> eval.step, req |-> eval.req, p |-> eval.p, r |-> eval.r,
               deny |-> eval.deny, approval |-> eval.approval, allow |-> eval.allow,
               failed |-> eval.failed]
    /\ eval.step \in {"idle", "match"}
    /\ eval.p \in Nat /\ eval.r \in Nat

\* The request that is being evaluated is valid and beyond the baseline.
Admitted == eval.step = "match" =>
    /\ engine \in Engines /\ answer = NoAnswer
    /\ eval.req \in Requests
    /\ Validate(eval.req) = "ok" /\ Baseline(eval.req.resource) = Null

\* The loop is inside its bounds and its groups are what it has seen so far.
Collected == eval.step = "match" =>
    /\ eval.p >= 1 /\ eval.r >= 1
    /\ eval.p <= Len(engine) => eval.r <= Len(engine[eval.p].rules) + 1
    /\ eval.deny = Won(Visited(eval.p, eval.r), eval.req, "deny")
    /\ eval.approval = Won(Visited(eval.p, eval.r), eval.req, "require_approval")
    /\ eval.allow = Won(Visited(eval.p, eval.r), eval.req, "allow")

EngineKnown == engine \in Engines \cup {NoEngine}

PolicyInv == /\ LoadType /\ EvalType /\ EngineKnown /\ Admitted /\ Collected
             /\ EngineWellFormed

----------------------------------------------------------------------------
(* Loading                                                                 *)

\* What PolicyEngine::new makes of a list of policies.
LEMMA CompiledIsEngine ==
    ASSUME NEW policies \in Seq(ParsedDocs)
    PROVE  /\ Compiled(policies) \in Engines
           /\ A!Positions(Compiled(policies)) = Places(policies)
           /\ \A q \in Places(policies) :
                 /\ q[1] \in DOMAIN policies /\ q[2] \in DOMAIN policies[q[1]].rules
                 /\ A!RuleAt(Compiled(policies), q).rule = policies[q[1]].rules[q[2]]
<1>1. DOMAIN policies = 1 .. Len(policies) /\ Len(policies) \in Nat
      /\ \A p \in DOMAIN policies : policies[p] \in ParsedDocs
  OBVIOUS
<1>2. \A p \in DOMAIN policies : CompilePolicy(policies[p]) \in CompiledDocs
  BY <1>1 DEF ParsedDocs, CompiledDocs
<1>3. Compiled(policies) \in Seq(CompiledDocs)
  BY <1>1, <1>2 DEF Compiled
<1>4. Compiled(policies) \in Engines
  BY <1>3 DEF Engines, CompiledDocs
<1>5. \A p \in DOMAIN policies :
         /\ p \in DOMAIN Compiled(policies)
         /\ Compiled(policies)[p].rules
              = [r \in DOMAIN policies[p].rules |-> Compile(policies[p].rules[r])]
  BY DEF Compiled, CompilePolicy
<1>6. DOMAIN Compiled(policies) = DOMAIN policies
  BY DEF Compiled
<1>7. \A p \in DOMAIN policies : DOMAIN Compiled(policies)[p].rules = DOMAIN policies[p].rules
  BY <1>5
<1>8. A!Positions(Compiled(policies)) = Places(policies)
  BY <1>6, <1>7 DEF A!Positions, Places
<1>9. \A q \in Places(policies) :
         q[1] \in DOMAIN policies /\ q[2] \in DOMAIN policies[q[1]].rules
  BY DEF Places
<1>10. \A q \in Places(policies) :
          A!RuleAt(Compiled(policies), q).rule = policies[q[1]].rules[q[2]]
  <2>1. SUFFICES ASSUME NEW q \in Places(policies)
                 PROVE  A!RuleAt(Compiled(policies), q).rule = policies[q[1]].rules[q[2]]
    OBVIOUS
  <2>2. PICK p, r : p = q[1] /\ r = q[2]
    OBVIOUS
  <2>3. p \in DOMAIN policies /\ r \in DOMAIN policies[p].rules
    BY <1>9, <2>2
  <2>4. Compiled(policies)[p].rules[r] = Compile(policies[p].rules[r])
    BY <1>5, <2>3
  <2>5. Compile(policies[p].rules[r]).rule = policies[p].rules[r]
    BY DEF Compile
  <2> QED
    BY <2>2, <2>4, <2>5 DEF A!RuleAt
<1> QED
  BY <1>4, <1>8, <1>9, <1>10

\* Conditions that are not empty differ from the default somewhere.
LEMMA SomeCondition ==
    ASSUME NEW c, c = [d \in Dimensions |-> c[d]], ~ EmptyConditions(c)
    PROVE  \E d \in Dimensions : c[d] # NoConditions[d]
<1>1. SUFFICES ASSUME \A d \in Dimensions : c[d] = NoConditions[d] PROVE FALSE
  OBVIOUS
<1>2. Dimensions = DOMAIN NoConditions
  BY DEF Dimensions, DimensionOrder, NoConditions
<1>3. NoConditions = [d \in DOMAIN NoConditions |-> NoConditions[d]]
  BY DEF NoConditions
<1>4. c = NoConditions
  BY <1>1, <1>2, <1>3
<1>5. c.argument_rules = Null
  BY <1>4 DEF NoConditions
<1>6. [NoConditions EXCEPT !.argument_rules = Null] = NoConditions
  BY DEF NoConditions
<1> QED
  BY <1>4, <1>5, <1>6 DEF EmptyConditions

\* An accepted list becomes a well-formed engine.
LEMMA AcceptedIsWellFormed ==
    ASSUME NEW policies \in Seq(ParsedDocs), Accepts(policies)
    PROVE  LET e == Compiled(policies)
           IN  /\ \A q1, q2 \in A!Positions(e) :
                     A!RuleAt(e, q1).rule.id = A!RuleAt(e, q2).rule.id => q1 = q2
               /\ \A q \in A!Positions(e) :
                     \E d \in Dimensions :
                        A!RuleAt(e, q).rule.conditions[d] # NoConditions[d]
<1> DEFINE e == Compiled(policies)
<1>1. \A q1, q2 \in A!Positions(e) :
         A!RuleAt(e, q1).rule.id = A!RuleAt(e, q2).rule.id => q1 = q2
  BY CompiledIsEngine DEF Accepts, DistinctIds
<1>2. ASSUME NEW q \in A!Positions(e)
      PROVE  \E d \in Dimensions : A!RuleAt(e, q).rule.conditions[d] # NoConditions[d]
  <2>1. PICK rule : rule = policies[q[1]].rules[q[2]]
    OBVIOUS
  <2>2. /\ q[1] \in DOMAIN policies /\ q[2] \in DOMAIN policies[q[1]].rules
        /\ A!RuleAt(e, q).rule = rule
    BY <1>2, <2>1, CompiledIsEngine
  <2>3. PICK doc \in Documents : policies[q[1]] = Parsed(doc)
    BY <2>2 DEF ParsedDocs
  <2>4. rule \in Elements(doc.rules)
    BY <2>1, <2>2, <2>3 DEF Parsed, Elements
  <2>5. rule.conditions = [d \in Dimensions |-> rule.conditions[d]]
    BY <2>3, <2>4, DocumentAssumption DEF RuleLike
  <2>6. ~ EmptyConditions(rule.conditions)
    BY <2>1, <2>2 DEF Accepts, ValidatePolicy
  <2> QED
    BY <2>2, <2>5, <2>6, SomeCondition
<1> QED
  BY <1>1, <1>2

\* A step that loads and leaves engine, evaluation and answer alone.
LEMMA LoadingKeeps ==
    ASSUME PolicyInv, LoadType', UNCHANGED <<engine, eval, answer>>
    PROVE  PolicyInv'
<1>1. EvalType' /\ EngineKnown' /\ Admitted'
  BY DEF PolicyInv, EvalType, EngineKnown, Admitted
<1>2. Collected'
  BY DEF PolicyInv, Collected, Won, Visited
<1>3. EngineWellFormed'
  BY DEF PolicyInv, EngineWellFormed
<1> QED
  BY <1>1, <1>2, <1>3 DEF PolicyInv

\* Starting a load, looking at a file and reading it.
LEMMA FilesKeep ==
    ASSUME PolicyInv,
           \/ \E n \in 1..MaxFiles : StartLoad(n)
           \/ \E doc \in Documents : Stat(doc) \/ Read(doc)
    PROVE  PolicyInv'
<1>1. UNCHANGED <<engine, eval, answer>>
  BY DEF StartLoad, Stat, Read
<1>2. load = [step |-> load.step, files |-> load.files, policies |-> load.policies]
      /\ load.policies \in Seq(ParsedDocs)
  BY DEF PolicyInv, LoadType
<1>3. \E step, files : \E policies \in Seq(ParsedDocs) :
         load' = [step |-> step, files |-> files, policies |-> policies]
  <2>1. <<>> \in Seq(ParsedDocs)
    OBVIOUS
  <2>2. ASSUME NEW n, StartLoad(n)
        PROVE  load' = [step |-> "stat", files |-> n, policies |-> <<>>]
    BY <2>2 DEF StartLoad, Idle
  <2>3. ASSUME NEW doc, Stat(doc)
        PROVE  \/ load' = Idle
               \/ load' = [step |-> "read", files |-> load.files, policies |-> load.policies]
    BY <1>2, <2>3 DEF Stat
  <2>4. ASSUME NEW doc \in Documents, Read(doc)
        PROVE  \/ load' = Idle
               \/ \E step : load' = [step |-> step, files |-> load.files - 1,
                                     policies |-> Append(load.policies, Parsed(doc))]
    BY <2>4 DEF Read
  <2>5. \A doc \in Documents : Append(load.policies, Parsed(doc)) \in Seq(ParsedDocs)
    <3>1. \A doc \in Documents : Parsed(doc) \in ParsedDocs
      BY DEF ParsedDocs
    <3> QED
      BY <1>2, <3>1
  <2>6. Idle = [step |-> "idle", files |-> 0, policies |-> <<>>]
    BY DEF Idle
  <2> QED
    BY <1>2, <2>1, <2>2, <2>3, <2>4, <2>5, <2>6
<1>4. LoadType'
  BY <1>3 DEF LoadType
<1> QED
  BY <1>1, <1>4, LoadingKeeps

\* The swap of the engine.
LEMMA BuildKeeps ==
    ASSUME PolicyInv, Build
    PROVE  PolicyInv'
<1>1. /\ load' = Idle /\ eval.step = "idle" /\ eval' = eval /\ answer' = answer
      /\ engine' = IF Accepts(load.policies) THEN Compiled(load.policies) ELSE engine
  BY DEF Build
<1>2. LoadType'
  BY <1>1 DEF LoadType, Idle
<1>3. EvalType' /\ Admitted' /\ Collected'
  BY <1>1 DEF PolicyInv, EvalType, Admitted, Collected
<1>4. CASE ~ Accepts(load.policies)
  BY <1>1, <1>2, <1>4, LoadingKeeps
<1>5. CASE Accepts(load.policies)
  <2>1. load.policies \in Seq(ParsedDocs) /\ engine' = Compiled(load.policies)
    BY <1>1, <1>5 DEF PolicyInv, LoadType
  <2>2. EngineKnown'
    BY <2>1, CompiledIsEngine DEF EngineKnown
  <2>3. EngineWellFormed'
    BY <1>5, <2>1, AcceptedIsWellFormed DEF EngineWellFormed
  <2> QED
    BY <1>2, <1>3, <2>2, <2>3 DEF PolicyInv
<1> QED
  BY <1>4, <1>5

----------------------------------------------------------------------------
(* Evaluation                                                              *)

\* A step that leaves load and engine alone.
LEMMA EvaluatingKeeps ==
    ASSUME PolicyInv, UNCHANGED <<load, engine>>, EvalType', Admitted', Collected'
    PROVE  PolicyInv'
<1>1. LoadType' /\ EngineKnown'
  BY DEF PolicyInv, LoadType, EngineKnown
<1>2. EngineWellFormed'
  BY DEF PolicyInv, EngineWellFormed
<1> QED
  BY <1>1, <1>2 DEF PolicyInv

\* The loop begins with nothing behind it.
LEMMA BeginKeeps ==
    ASSUME PolicyInv, NEW req \in Requests, Begin(req)
    PROVE  PolicyInv'
<1>1. engine # NoEngine /\ eval.step = "idle" /\ answer = NoAnswer /\ UNCHANGED <<load, engine>>
  BY DEF Begin
<1>2. CASE eval' = eval
  <2>1. EvalType' /\ Admitted' /\ Collected'
    BY <1>1, <1>2 DEF PolicyInv, EvalType, Admitted, Collected
  <2> QED
    BY <1>1, <2>1, EvaluatingKeeps
<1>3. CASE /\ Validate(req) = "ok" /\ Baseline(req.resource) = Null /\ answer' = answer
           /\ eval' = [NoEval EXCEPT !.step = "match", !.req = req]
  <2>1. eval' = [step |-> "match", req |-> req, p |-> 1, r |-> 1, deny |-> {},
                 approval |-> {}, allow |-> {}, failed |-> <<>>]
    BY <1>3 DEF NoEval
  <2>2. EvalType'
    BY <2>1 DEF EvalType
  <2>3. engine \in Engines
    BY <1>1 DEF PolicyInv, EngineKnown
  <2>4. Admitted'
    BY <1>1, <1>3, <2>1, <2>3 DEF Admitted
  <2>5. \A q \in A!Positions(engine) : ~ (q[1] < 1) /\ ~ (q[1] = 1 /\ q[2] < 1)
    BY <2>3, PlacesOfEngine, CompiledRules
  <2>6. Visited(1, 1) = {}
    BY <2>5 DEF Visited
  <2>7. \A effect : Won({}, req, effect) = {}
    BY DEF Won
  <2>8. \A effect : Won(Visited(1, 1), req, effect) = {}
    BY <2>6, <2>7
  <2>9. 1 <= Len(engine) => 1 <= Len(engine[1].rules) + 1
    BY <2>3, PlacesOfEngine, CompiledRules
  <2>10. /\ eval'.p = 1 /\ eval'.r = 1 /\ eval'.req = req /\ engine' = engine
         /\ eval'.deny = Won(Visited(1, 1), req, "deny")
         /\ eval'.approval = Won(Visited(1, 1), req, "require_approval")
         /\ eval'.allow = Won(Visited(1, 1), req, "allow")
    BY <1>1, <2>1, <2>8
  <2>11. Collected'
    BY <2>9, <2>10 DEF Collected, Won, Visited
  <2> QED
    BY <1>1, <2>2, <2>4, <2>11, EvaluatingKeeps
<1> QED
  BY <1>2, <1>3 DEF Begin

\* What one more place adds to a group.
LEMMA WonOneMore ==
    ASSUME NEW S, NEW q, NEW req, NEW effect
    PROVE  Won(S \cup {q}, req, effect)
             = Won(S, req, effect) \cup
               IF A!RuleAt(engine, q).rule.effect = effect /\ A!Applies(A!RuleAt(engine, q), req)
               THEN {A!RuleAt(engine, q).rule.id} ELSE {}
  BY DEF Won

\* One turn of the loop over rules.
LEMMA MatchKeeps ==
    ASSUME PolicyInv, MatchRule
    PROVE  PolicyInv'
<1>1. /\ eval.step = "match" /\ eval.p <= Len(engine) /\ eval.r <= Len(engine[eval.p].rules)
      /\ UNCHANGED <<load, engine, answer>>
  BY DEF MatchRule
<1>2. /\ engine \in Engines /\ eval.p \in Nat /\ eval.r \in Nat /\ eval.p >= 1 /\ eval.r >= 1
      /\ eval = [step |-> eval.step, req |-> eval.req, p |-> eval.p, r |-> eval.r,
                 deny |-> eval.deny, approval |-> eval.approval, allow |-> eval.allow,
                 failed |-> eval.failed]
  BY <1>1 DEF PolicyInv, Admitted, Collected, EvalType
<1>3. PICK p, r, cr : p = eval.p /\ r = eval.r /\ cr = engine[eval.p].rules[eval.r]
  OBVIOUS
<1>4. p \in DOMAIN engine /\ engine[p] \in CompiledDocs
  BY <1>1, <1>2, <1>3, PlacesOfEngine
<1>5. r \in DOMAIN engine[p].rules /\ cr.rule.effect \in Effects
      /\ Len(engine[p].rules) \in Nat
  BY <1>1, <1>2, <1>3, <1>4, CompiledRules
<1>6. /\ <<p, r>> \in A!Positions(engine) /\ A!RuleAt(engine, <<p, r>>) = cr
      /\ \A q \in A!Positions(engine) :
            /\ q = <<q[1], q[2]>> /\ q[1] \in Nat /\ q[2] \in Nat
  <2>1. \A q \in A!Positions(engine) :
           q = <<q[1], q[2]>> /\ q[1] \in DOMAIN engine /\ q[2] \in DOMAIN engine[q[1]].rules
    BY <1>2, PlacesOfEngine
  <2>2. \A i \in DOMAIN engine : i \in Nat /\ \A j \in DOMAIN engine[i].rules : j \in Nat
    BY <1>2, PlacesOfEngine, CompiledRules
  <2> QED
    BY <1>2, <1>3, <1>4, <1>5, <2>1, <2>2, PlacesOfEngine DEF A!RuleAt
<1>7. Visited(p, r + 1) = Visited(p, r) \cup {<<p, r>>}
  <2>1. \A q \in A!Positions(engine) : (q[1] = p /\ q[2] < r + 1) <=>
                                         (q[1] = p /\ q[2] < r) \/ q = <<p, r>>
    BY <1>2, <1>3, <1>6
  <2> QED
    BY <1>6, <2>1 DEF Visited
<1>8. \A effect : Won(Visited(p, r + 1), eval.req, effect)
                    = Won(Visited(p, r), eval.req, effect) \cup
                      IF cr.rule.effect = effect /\ A!Applies(cr, eval.req)
                      THEN {cr.rule.id} ELSE {}
  <2>1. SUFFICES ASSUME NEW effect
                 PROVE  Won(Visited(p, r) \cup {<<p, r>>}, eval.req, effect)
                          = Won(Visited(p, r), eval.req, effect) \cup
                            IF cr.rule.effect = effect /\ A!Applies(cr, eval.req)
                            THEN {cr.rule.id} ELSE {}
    BY <1>7
  <2>2. PICK S, q, req : S = Visited(p, r) /\ q = <<p, r>> /\ req = eval.req
    OBVIOUS
  <2>3. Won(S \cup {q}, req, effect)
          = Won(S, req, effect) \cup
            IF A!RuleAt(engine, q).rule.effect = effect /\ A!Applies(A!RuleAt(engine, q), req)
            THEN {A!RuleAt(engine, q).rule.id} ELSE {}
    BY WonOneMore
  <2> QED
    BY <1>6, <2>2, <2>3
<1>9. PICK failed :
        eval' = [step |-> "match", req |-> eval.req, p |-> p, r |-> r + 1,
                 deny |-> eval.deny \cup IF cr.rule.effect = "deny" /\ A!Applies(cr, eval.req)
                                         THEN {cr.rule.id} ELSE {},
                 approval |-> eval.approval \cup
                                 IF cr.rule.effect = "require_approval"
                                    /\ A!Applies(cr, eval.req)
                                 THEN {cr.rule.id} ELSE {},
                 allow |-> eval.allow \cup IF cr.rule.effect = "allow" /\ A!Applies(cr, eval.req)
                                           THEN {cr.rule.id} ELSE {},
                 failed |-> failed]
  <2>1. PICK next : next = [step |-> "match", req |-> eval.req, p |-> p, r |-> r + 1,
                            deny |-> eval.deny, approval |-> eval.approval,
                            allow |-> eval.allow, failed |-> eval.failed]
    OBVIOUS
  <2>2. [eval EXCEPT !.r = @ + 1] = next
    BY <1>1, <1>2, <1>3, <2>1
  <2>3. eval' = IF FirstFailed(cr, eval.req) = <<>> THEN Grouped(next, cr.rule)
                ELSE [next EXCEPT !.failed = Noted(@, FirstFailed(cr, eval.req)[1])]
    BY <1>3, <2>2 DEF MatchRule
  <2>4. CASE ~ A!Applies(cr, eval.req)
    <3>1. eval' = [next EXCEPT !.failed = Noted(@, FirstFailed(cr, eval.req)[1])]
      BY <2>3, <2>4, NoneFailed
    <3> QED
      BY <2>1, <2>4, <3>1
  <2>5. CASE A!Applies(cr, eval.req)
    <3>1. eval' = Grouped(next, cr.rule)
      BY <2>3, <2>5, NoneFailed
    <3>2. CASE cr.rule.effect = "deny"
      BY <2>1, <2>5, <3>1, <3>2 DEF Grouped
    <3>3. CASE cr.rule.effect = "require_approval"
      BY <2>1, <2>5, <3>1, <3>3 DEF Grouped
    <3>4. CASE cr.rule.effect = "allow"
      BY <2>1, <2>5, <3>1, <3>4 DEF Grouped
    <3> QED
      BY <1>5, <3>2, <3>3, <3>4 DEF Effects
  <2> QED
    BY <2>4, <2>5
<1>10. EvalType'
  BY <1>2, <1>3, <1>9 DEF EvalType
<1>11. Admitted'
  BY <1>1, <1>9 DEF PolicyInv, Admitted
<1>12. Collected'
  <2>1. \A effect : Won(Visited(p, r + 1), eval.req, effect)' =
                    Won(Visited(p, r + 1), eval'.req, effect)
    BY <1>1, <1>9 DEF Won, Visited
  <2>2. /\ eval.deny = Won(Visited(p, r), eval.req, "deny")
        /\ eval.approval = Won(Visited(p, r), eval.req, "require_approval")
        /\ eval.allow = Won(Visited(p, r), eval.req, "allow")
    BY <1>1, <1>3 DEF PolicyInv, Collected
  <2>3. r + 1 >= 1 /\ r + 1 <= Len(engine[p].rules) + 1 /\ p >= 1
    BY <1>1, <1>2, <1>3, <1>5
  <2>4. /\ eval'.deny = Won(Visited(p, r + 1), eval.req, "deny")
        /\ eval'.approval = Won(Visited(p, r + 1), eval.req, "require_approval")
        /\ eval'.allow = Won(Visited(p, r + 1), eval.req, "allow")
    BY <1>8, <1>9, <2>2
  <2>5. eval'.p = p /\ eval'.r = r + 1 /\ eval'.req = eval.req /\ engine' = engine
    BY <1>1, <1>9
  <2> QED
    BY <2>3, <2>4, <2>5 DEF Collected, Won, Visited
<1> QED
  BY <1>1, <1>10, <1>11, <1>12, EvaluatingKeeps

\* The end of a policy: the next one begins where this one ended.
LEMMA NextPolicyKeeps ==
    ASSUME PolicyInv, NextPolicy
    PROVE  PolicyInv'
<1>1. /\ eval.step = "match" /\ eval.p <= Len(engine) /\ eval.r > Len(engine[eval.p].rules)
      /\ UNCHANGED <<load, engine, answer>>
      /\ eval' = [eval EXCEPT !.p = @ + 1, !.r = 1]
  BY DEF NextPolicy
<1>2. /\ engine \in Engines /\ eval.p \in Nat /\ eval.r \in Nat /\ eval.p >= 1 /\ eval.r >= 1
      /\ eval = [step |-> eval.step, req |-> eval.req, p |-> eval.p, r |-> eval.r,
                 deny |-> eval.deny, approval |-> eval.approval, allow |-> eval.allow,
                 failed |-> eval.failed]
  BY <1>1 DEF PolicyInv, Admitted, Collected, EvalType
<1>3. PICK p, r : p = eval.p /\ r = eval.r
  OBVIOUS
<1>4. eval' = [step |-> "match", req |-> eval.req, p |-> p + 1, r |-> 1, deny |-> eval.deny,
               approval |-> eval.approval, allow |-> eval.allow, failed |-> eval.failed]
  BY <1>1, <1>2, <1>3
<1>5. Visited(p + 1, 1) = Visited(p, r)
  <2>1. \A q \in A!Positions(engine) :
           /\ q[1] \in 1 .. Len(engine) /\ q[2] \in 1 .. Len(engine[q[1]].rules)
           /\ Len(engine[q[1]].rules) \in Nat
    BY <1>2, PlacesOfEngine, CompiledRules
  <2>2. Len(engine) \in Nat
    BY <1>2, PlacesOfEngine
  <2>3. \A q \in A!Positions(engine) : q[1] = p => q[2] < r
    BY <1>1, <1>2, <1>3, <2>1
  <2>4. \A q \in A!Positions(engine) : (q[1] < p + 1 \/ (q[1] = p + 1 /\ q[2] < 1))
                                         <=> (q[1] < p \/ (q[1] = p /\ q[2] < r))
    BY <1>2, <1>3, <2>1, <2>2, <2>3
  <2> QED
    BY <2>4 DEF Visited
<1>6. EvalType'
  BY <1>2, <1>3, <1>4 DEF EvalType
<1>7. Admitted'
  BY <1>1, <1>4 DEF PolicyInv, Admitted
<1>8. Collected'
  <2>1. /\ eval'.deny = Won(Visited(p + 1, 1), eval.req, "deny")
        /\ eval'.approval = Won(Visited(p + 1, 1), eval.req, "require_approval")
        /\ eval'.allow = Won(Visited(p + 1, 1), eval.req, "allow")
    BY <1>1, <1>3, <1>4, <1>5 DEF PolicyInv, Collected
  <2>2. /\ eval'.p = p + 1 /\ eval'.r = 1 /\ eval'.req = eval.req /\ engine' = engine
        /\ p + 1 >= 1
    BY <1>1, <1>2, <1>3, <1>4
  <2>3. p + 1 <= Len(engine) => 1 <= Len(engine[p + 1].rules) + 1
    <3>1. SUFFICES ASSUME p + 1 <= Len(engine) PROVE 1 <= Len(engine[p + 1].rules) + 1
      OBVIOUS
    <3>2. p + 1 \in DOMAIN engine
      BY <1>2, <1>3, <3>1, PlacesOfEngine
    <3>3. Len(engine[p + 1].rules) \in Nat
      BY <1>2, <3>2, PlacesOfEngine, CompiledRules
    <3> QED
      BY <3>3
  <2> QED
    BY <2>1, <2>2, <2>3 DEF Collected, Won, Visited
<1> QED
  BY <1>1, <1>6, <1>7, <1>8, EvaluatingKeeps

\* The end of an evaluation, and of a call.
LEMMA AnswerKeeps ==
    ASSUME PolicyInv, Resolve \/ Return
    PROVE  PolicyInv'
<1>1. CASE Resolve
  <2>1. eval' = NoEval /\ UNCHANGED <<load, engine>>
    BY <1>1 DEF Resolve
  <2>2. EvalType' /\ Admitted' /\ Collected'
    BY <2>1 DEF EvalType, Admitted, Collected, NoEval
  <2> QED
    BY <2>1, <2>2, EvaluatingKeeps
<1>2. CASE Return
  <2>1. answer # NoAnswer /\ eval' = eval /\ UNCHANGED <<load, engine>>
    BY <1>2 DEF Return
  <2>2. eval.step # "match"
    BY <2>1 DEF PolicyInv, Admitted
  <2>3. EvalType' /\ Admitted' /\ Collected'
    BY <2>1, <2>2 DEF PolicyInv, EvalType, Admitted, Collected
  <2> QED
    BY <2>1, <2>3, EvaluatingKeeps
<1> QED
  BY <1>1, <1>2

\* The invariant holds at the start and every step keeps it.
THEOREM PolicyInvariance == Spec => []PolicyInv
<1>1. Init => PolicyInv
  <2>1. SUFFICES ASSUME Init PROVE PolicyInv
    OBVIOUS
  <2>2. LoadType
    BY <2>1 DEF Init, Idle, LoadType
  <2>3. EvalType /\ Admitted /\ Collected
    BY <2>1 DEF Init, NoEval, EvalType, Admitted, Collected
  <2>4. EngineKnown /\ EngineWellFormed
    BY <2>1 DEF Init, EngineKnown, EngineWellFormed
  <2> QED
    BY <2>2, <2>3, <2>4 DEF PolicyInv
<1>2. PolicyInv /\ [Next]_vars => PolicyInv'
  <2>1. SUFFICES ASSUME PolicyInv, [Next]_vars PROVE PolicyInv'
    OBVIOUS
  <2>2. CASE \/ \E n \in 1..MaxFiles : StartLoad(n)
             \/ \E doc \in Documents : Stat(doc) \/ Read(doc)
    BY <2>1, <2>2, FilesKeep
  <2>3. CASE Build
    BY <2>1, <2>3, BuildKeeps
  <2>4. CASE \E req \in Requests : Begin(req)
    BY <2>1, <2>4, BeginKeeps
  <2>5. CASE MatchRule
    BY <2>1, <2>5, MatchKeeps
  <2>6. CASE NextPolicy
    BY <2>1, <2>6, NextPolicyKeeps
  <2>7. CASE Resolve \/ Return
    BY <2>1, <2>7, AnswerKeeps
  <2>8. CASE UNCHANGED vars
    <3>1. LoadType' /\ UNCHANGED <<engine, eval, answer>>
      BY <2>1, <2>8 DEF vars, PolicyInv, LoadType
    <3> QED
      BY <2>1, <3>1, LoadingKeeps
  <2> QED
    BY <2>1, <2>2, <2>3, <2>4, <2>5, <2>6, <2>7, <2>8 DEF Next
<1> QED
  BY <1>1, <1>2, PTL DEF Spec

\* In every engine that comes into force a rule id names one rule, across all
\* policy files, and no rule is free of conditions (EngineWellFormed).
THEOREM WellFormedEngine == Spec => []EngineWellFormed
<1>1. PolicyInv => EngineWellFormed
  BY DEF PolicyInv
<1> QED
  BY <1>1, PolicyInvariance, PTL

----------------------------------------------------------------------------
(* The engine decides what PolicyDecision says                             *)

\* After the last policy the groups are the winners.
LEMMA AllVisited ==
    ASSUME PolicyInv, eval.step = "match", eval.p > Len(engine)
    PROVE  \A effect : Won(Visited(eval.p, eval.r), eval.req, effect)
                         = A!Winners(engine, eval.req, effect)
<1>1. engine \in Engines /\ eval.p \in Nat
  BY DEF PolicyInv, Admitted, EvalType
<1>2. \A q \in A!Positions(engine) : q[1] < eval.p
  BY <1>1, PlacesOfEngine
<1>3. Visited(eval.p, eval.r) = A!Positions(engine)
  BY <1>2 DEF Visited
<1> QED
  BY <1>3 DEF Won, A!Winners

\* The resolution of the groups is what the request and the rules mean.
LEMMA ResolveDecides ==
    ASSUME PolicyInv, Resolve
    PROVE  A!Decide(eval.req) /\ eval.req \in Requests
<1>1. /\ eval.step = "match" /\ eval.p > Len(engine)
      /\ answer' = [req |-> eval.req, decision |-> Resolution] /\ engine' = engine
  BY DEF Resolve
<1>2. /\ engine \in Engines /\ answer = NoAnswer /\ eval.req \in Requests
      /\ Validate(eval.req) = "ok" /\ Baseline(eval.req.resource) = Null
  BY <1>1 DEF PolicyInv, Admitted
<1>3. /\ eval.deny = A!Winners(engine, eval.req, "deny")
      /\ eval.approval = A!Winners(engine, eval.req, "require_approval")
      /\ eval.allow = A!Winners(engine, eval.req, "allow")
  BY <1>1, AllVisited DEF PolicyInv, Collected
<1>4. A!Validate(eval.req) = "ok" /\ A!Baseline(eval.req.resource) = Null
  BY <1>2, SameValidate, SameBaseline
<1>5. Resolution = A!Meaning(engine, eval.req)
  BY <1>3, <1>4 DEF Resolution, A!Meaning, Decision, A!Decision, A!DefaultDecision
<1>6. engine # NoEngine
  BY <1>2, NoEngineAssumption
<1> QED
  BY <1>1, <1>2, <1>5, <1>6 DEF A!Decide

\* evaluate answers what PolicyDecision's Meaning says of the engine in force,
\* whatever the files, their order and the reloads are (ImplementsDecision).
THEOREM DecisionRefinement == Spec => ImplementsDecision
<1>1. Init => A!Init
  BY DEF Init, A!Init
<1>2. PolicyInv /\ PolicyInv' /\ [Next]_vars => [A!Next]_<<engine, answer>>
  <2>1. SUFFICES ASSUME PolicyInv, PolicyInv', [Next]_vars
                 PROVE  A!Next \/ UNCHANGED <<engine, answer>>
    OBVIOUS
  <2>2. CASE UNCHANGED <<engine, answer>>
    BY <2>2
  <2>3. CASE Build
    <3>1. CASE ~ Accepts(load.policies)
      BY <2>3, <3>1 DEF Build
    <3>2. CASE Accepts(load.policies)
      <4>1. engine' = Compiled(load.policies) /\ answer' = answer
        BY <2>3, <3>2 DEF Build
      <4>2. load.policies \in Seq(ParsedDocs)
        BY <2>1 DEF PolicyInv, LoadType
      <4>3. engine' \in Engines /\ engine' # NoEngine
        BY <4>1, <4>2, CompiledIsEngine, NoEngineAssumption
      <4>4. \A q1, q2 \in A!Positions(engine') :
               A!RuleAt(engine', q1).rule.id = A!RuleAt(engine', q2).rule.id => q1 = q2
        BY <3>2, <4>1, <4>2, AcceptedIsWellFormed
      <4> QED
        BY <4>1, <4>3, <4>4 DEF A!Next, A!Install
    <3> QED
      BY <3>1, <3>2
  <2>4. CASE Resolve
    BY <2>1, <2>4, ResolveDecides DEF A!Next
  <2>5. CASE Return
    BY <2>5 DEF Return, A!Next, A!Return
  <2>6. ASSUME NEW req \in Requests, Begin(req)
        PROVE  A!Decide(req) \/ UNCHANGED <<engine, answer>>
    <3>1. engine # NoEngine /\ answer = NoAnswer /\ engine' = engine
      BY <2>6 DEF Begin
    <3>2. CASE Validate(req) # "ok"
      <4>1. A!Meaning(engine, req) = Decision("deny", "deny_invalid_request", {})
        BY <3>2, SameValidate DEF A!Meaning, Decision, A!Decision
      <4> QED
        BY <2>6, <3>1, <3>2, <4>1 DEF Begin, A!Decide
    <3>3. CASE Validate(req) = "ok" /\ Baseline(req.resource) # Null
      <4>1. A!Meaning(engine, req) =
               Decision("deny", "deny_explicit_rule", {Baseline(req.resource)})
        BY <3>3, SameValidate, SameBaseline DEF A!Meaning, Decision, A!Decision
      <4> QED
        BY <2>6, <3>1, <3>3, <4>1 DEF Begin, A!Decide
    <3>4. CASE Validate(req) = "ok" /\ Baseline(req.resource) = Null
      BY <2>6, <3>1, <3>4 DEF Begin
    <3> QED
      BY <3>2, <3>3, <3>4
  <2>7. CASE \E req \in Requests : Begin(req)
    BY <2>6, <2>7 DEF A!Next
  <2>8. CASE \/ UNCHANGED vars \/ MatchRule \/ NextPolicy
             \/ \E n \in 1..MaxFiles : StartLoad(n)
             \/ \E doc \in Documents : Stat(doc) \/ Read(doc)
    BY <2>8 DEF vars, MatchRule, NextPolicy, StartLoad, Stat, Read
  <2> QED
    BY <2>1, <2>3, <2>4, <2>5, <2>7, <2>8 DEF Next
<1> QED
  BY <1>1, <1>2, PolicyInvariance, PTL DEF Spec, ImplementsDecision, A!Spec

----------------------------------------------------------------------------
(* Sequences                                                               *)

LEMMA ConcatParts ==
    ASSUME NEW S, NEW p \in Seq(S), NEW s \in Seq(S)
    PROVE  /\ p \o s \in Seq(S) /\ Len(p \o s) = Len(p) + Len(s)
           /\ Len(p) \in Nat /\ Len(s) \in Nat
           /\ \A i \in 1 .. Len(p) : (p \o s)[i] = p[i]
           /\ \A i \in 1 .. Len(s) : (p \o s)[Len(p) + i] = s[i]
OBVIOUS

LEMMA ConcatCut ==
    ASSUME NEW S, NEW p \in Seq(S), NEW s \in Seq(S), NEW n \in 0 .. Len(s)
    PROVE  SubSeq(p \o s, 1, Len(p) + n) = p \o SubSeq(s, 1, n)
OBVIOUS

LEMMA ConcatRest ==
    ASSUME NEW S, NEW p \in Seq(S), NEW s \in Seq(S), NEW n \in 0 .. Len(s)
    PROVE  SubSeq(p \o s, Len(p) + n + 1, Len(p \o s)) = SubSeq(s, n + 1, Len(s))
OBVIOUS

LEMMA ConcatCancel ==
    ASSUME NEW S, NEW p \in Seq(S), NEW s \in Seq(S), NEW q \in Seq(S), p \o s = p \o q
    PROVE  s = q
BY SMTT(30)

LEMMA PrefixRest ==
    ASSUME NEW S, NEW s \in Seq(S), NEW p \in Seq(S), IsPrefixOf(p, s)
    PROVE  /\ SubSeq(s, Len(p) + 1, Len(s)) \in Seq(S)
           /\ s = p \o SubSeq(s, Len(p) + 1, Len(s))
BY DEF IsPrefixOf

----------------------------------------------------------------------------
(* Normalisation: the stack of segments                                    *)

Tops(S) == [ok : BOOLEAN, segs : Seq(S)]
NoSegments == [ok |-> TRUE, segs |-> <<>>]

LEMMA TopParts ==
    ASSUME NEW S, NEW top \in Tops(S)
    PROVE  top.ok \in BOOLEAN /\ top.segs \in Seq(S) /\ top = [ok |-> top.ok, segs |-> top.segs]
BY DEF Tops

\* What one segment does to the stack.
LEMMA PushParts ==
    ASSUME NEW S, NEW top \in Tops(S), NEW seg
    PROVE  /\ seg \in {"", "."} => PushSegment(top, seg) = top
           /\ seg = ".." /\ top.segs = <<>> =>
                 PushSegment(top, seg) = [ok |-> FALSE, segs |-> <<>>]
           /\ seg = ".." /\ top.segs # <<>> =>
                 PushSegment(top, seg) = [ok |-> top.ok,
                                          segs |-> SubSeq(top.segs, 1, Len(top.segs) - 1)]
           /\ seg \notin {"", ".", ".."} =>
                 PushSegment(top, seg) = [ok |-> top.ok, segs |-> Append(top.segs, seg)]
<1>1. top = [ok |-> top.ok, segs |-> top.segs]
  BY TopParts
<1>2. seg \in {"", "."} => PushSegment(top, seg) = top
  BY DEF PushSegment
<1>3. ASSUME seg = "..", top.segs = <<>>
      PROVE  PushSegment(top, seg) = [ok |-> FALSE, segs |-> <<>>]
  <2>1. PushSegment(top, seg) = [top EXCEPT !.ok = FALSE]
    BY <1>3 DEF PushSegment
  <2> QED BY <1>1, <1>3, <2>1
<1>4. ASSUME seg = "..", top.segs # <<>>
      PROVE  PushSegment(top, seg) = [ok |-> top.ok,
                                      segs |-> SubSeq(top.segs, 1, Len(top.segs) - 1)]
  <2>1. PushSegment(top, seg) = [top EXCEPT !.segs = SubSeq(@, 1, Len(@) - 1)]
    BY <1>4 DEF PushSegment
  <2> QED BY <1>1, <2>1
<1>5. ASSUME seg \notin {"", ".", ".."}
      PROVE  PushSegment(top, seg) = [ok |-> top.ok, segs |-> Append(top.segs, seg)]
  <2>1. PushSegment(top, seg) = [top EXCEPT !.segs = Append(@, seg)]
    BY <1>5 DEF PushSegment
  <2> QED BY <1>1, <2>1
<1> QED BY <1>2, <1>3, <1>4, <1>5

LEMMA CutLast ==
    ASSUME NEW S, NEW s \in Seq(S), s # <<>>
    PROVE  SubSeq(s, 1, Len(s) - 1) \in Seq(S) /\ Len(s) - 1 \in 0 .. Len(s)
OBVIOUS

LEMMA PushType ==
    ASSUME NEW S, NEW top \in Tops(S), NEW seg \in S
    PROVE  PushSegment(top, seg) \in Tops(S)
<1>1. top.ok \in BOOLEAN /\ top.segs \in Seq(S) /\ <<>> \in Seq(S)
  BY TopParts
<1>2. CASE seg \in {"", "."}
  BY <1>2, PushParts
<1>3. CASE seg = ".." /\ top.segs = <<>>
  <2>1. PushSegment(top, seg) = [ok |-> FALSE, segs |-> <<>>]
    BY <1>3, PushParts
  <2>2. [ok |-> FALSE, segs |-> <<>>] \in Tops(S)
    BY <1>1 DEF Tops
  <2> QED BY <2>1, <2>2
<1>4. CASE seg = ".." /\ top.segs # <<>>
  <2>1. SubSeq(top.segs, 1, Len(top.segs) - 1) \in Seq(S)
    BY <1>1, <1>4, CutLast
  <2>2. [ok |-> top.ok, segs |-> SubSeq(top.segs, 1, Len(top.segs) - 1)] \in Tops(S)
    BY <1>1, <2>1 DEF Tops
  <2> QED BY <1>4, <2>2, PushParts
<1>5. CASE seg \notin {"", ".", ".."}
  <2>1. [ok |-> top.ok, segs |-> Append(top.segs, seg)] \in Tops(S)
    BY <1>1 DEF Tops
  <2> QED BY <1>5, <2>1, PushParts
<1> QED BY <1>2, <1>3, <1>4, <1>5

\* A segment does the same above a prefix, as long as it takes nothing from it.
Shifts(p, top, seg, next) ==
    next.ok = TRUE =>
        /\ top.ok = TRUE
        /\ PushSegment([ok |-> TRUE, segs |-> p \o top.segs], seg)
             = [ok |-> TRUE, segs |-> p \o next.segs]

LEMMA PushAbove ==
    ASSUME NEW S, NEW p \in Seq(S), NEW top \in Tops(S), NEW seg \in S,
           NEW next, next = PushSegment(top, seg)
    PROVE  Shifts(p, top, seg, next)
<1> SUFFICES ASSUME next.ok = TRUE
             PROVE  /\ top.ok = TRUE
                    /\ PushSegment([ok |-> TRUE, segs |-> p \o top.segs], seg)
                         = [ok |-> TRUE, segs |-> p \o next.segs]
  BY Zenon DEF Shifts
<1> DEFINE s == top.segs
           deep == p \o s
           over == [ok |-> TRUE, segs |-> deep]
           cut == SubSeq(s, 1, Len(s) - 1)
           more == Append(s, seg)
<1>1. top.ok \in BOOLEAN /\ s \in Seq(S)
  BY TopParts
<1>2. /\ seg \in {"", "."} => next = top
      /\ seg = ".." /\ s = <<>> => next = [ok |-> FALSE, segs |-> <<>>]
      /\ seg = ".." /\ s # <<>> => next = [ok |-> top.ok, segs |-> cut]
      /\ seg \notin {"", ".", ".."} => next = [ok |-> top.ok, segs |-> more]
  BY PushParts
<1>3. deep \in Seq(S) /\ Len(deep) = Len(p) + Len(s) /\ Len(p) \in Nat /\ Len(s) \in Nat
  <2> HIDE DEF s
  <2> QED BY <1>1, ConcatParts
<1>4. over \in Tops(S) /\ over.ok = TRUE /\ over.segs = deep
  <2> HIDE DEF deep
  <2> QED BY <1>3 DEF Tops
<1>5. /\ seg \in {"", "."} => PushSegment(over, seg) = over
      /\ seg = ".." /\ deep # <<>> =>
            PushSegment(over, seg) = [ok |-> TRUE, segs |-> SubSeq(deep, 1, Len(deep) - 1)]
      /\ seg \notin {"", ".", ".."} =>
            PushSegment(over, seg) = [ok |-> TRUE, segs |-> Append(deep, seg)]
  <2> HIDE DEF over, deep
  <2> QED BY <1>4, PushParts
<1>6. Append(deep, seg) = p \o more
  <2> HIDE DEF s
  <2> QED BY <1>1
<1>7. s # <<>> => /\ deep # <<>>
                  /\ SubSeq(deep, 1, Len(deep) - 1) = p \o cut
  <2> SUFFICES ASSUME s # <<>> PROVE deep # <<>> /\ SubSeq(deep, 1, Len(deep) - 1) = p \o cut
    OBVIOUS
  <2>1. Len(s) > 0
    <3> HIDE DEF s
    <3> QED BY <1>1
  <2>2. Len(deep) - 1 = Len(p) + (Len(s) - 1) /\ Len(s) - 1 \in 0 .. Len(s)
    <3> HIDE DEF s, deep
    <3> QED BY <1>3, <2>1
  <2>3. SubSeq(deep, 1, Len(p) + (Len(s) - 1)) = p \o cut
    <3> HIDE DEF s
    <3> QED BY <1>1, <2>2, ConcatCut
  <2>4. deep # <<>>
    <3> HIDE DEF s, deep
    <3> QED BY <1>3, <2>1
  <2> HIDE DEF s, deep, cut
  <2> QED BY <2>2, <2>3, <2>4
<1> SUFFICES top.ok = TRUE /\ PushSegment(over, seg) = [ok |-> TRUE, segs |-> p \o next.segs]
  OBVIOUS
<1>8. s = top.segs /\ over = [ok |-> TRUE, segs |-> deep] /\ deep = p \o s
  OBVIOUS
<1> HIDE DEF s, deep, over, cut, more
<1>9. CASE seg \in {"", "."}
  BY <1>2, <1>5, <1>8, <1>9
<1>10. CASE seg = ".." /\ s = <<>>
  BY <1>2, <1>10
<1>11. CASE seg = ".." /\ s # <<>>
  <2>1. next = [ok |-> top.ok, segs |-> cut]
    BY <1>2, <1>11
  <2>2. top.ok = TRUE /\ next.segs = cut
    BY <2>1
  <2>3. PushSegment(over, seg) = [ok |-> TRUE, segs |-> p \o cut]
    BY <1>5, <1>7, <1>11
  <2> QED BY <2>2, <2>3
<1>12. CASE seg \notin {"", ".", ".."}
  <2>1. next = [ok |-> top.ok, segs |-> more]
    BY <1>2, <1>12
  <2>2. top.ok = TRUE /\ next.segs = more
    BY <2>1
  <2>3. PushSegment(over, seg) = [ok |-> TRUE, segs |-> p \o more]
    BY <1>5, <1>6, <1>12
  <2> QED BY <2>2, <2>3
<1> QED BY <1>9, <1>10, <1>11, <1>12

\* SegmentStack is the function its definition describes.
LEMMA StackUnfolds ==
    ASSUME NEW S, NEW body \in Seq(S)
    PROVE  /\ SegmentStack(body)[0] = NoSegments
           /\ \A i \in 1 .. Len(body) :
                 SegmentStack(body)[i] = PushSegment(SegmentStack(body)[i - 1], body[i])
<1> DEFINE n == Len(body)
           Unrolled(f) == [i \in 0 .. n |-> IF i = 0 THEN NoSegments
                                             ELSE PushSegment(f[i - 1], body[i])]
           F == [i \in Nat |-> [top \in Tops(S) |-> IF i + 1 \in 1 .. n
                                                    THEN PushSegment(top, body[i + 1]) ELSE top]]
           w == SegmentStack(body)
<1>1. n \in Nat /\ \A i \in 1 .. n : body[i] \in S
  OBVIOUS
<1>2. F \in [Nat -> [Tops(S) -> Tops(S)]]
  <2>1. ASSUME NEW i \in Nat, NEW top \in Tops(S), i + 1 \in 1 .. n
        PROVE  PushSegment(top, body[i + 1]) \in Tops(S)
    BY <1>1, <2>1, PushType
  <2> HIDE DEF n
  <2> QED BY <2>1
<1>3. NoSegments \in Tops(S)
  BY DEF NoSegments, Tops
<1>4. PICK f \in [Nat -> Tops(S)] : f[0] = NoSegments /\ \A i \in Nat : f[i + 1] = F[i][f[i]]
  <2>1. Iterations(Tops(S), F, NoSegments) # {}
    <3> HIDE DEF F
    <3> QED BY <1>2, <1>3, Iteration
  <2>2. PICK f : f \in Iterations(Tops(S), F, NoSegments)
    BY <2>1
  <2> HIDE DEF F
  <2> QED BY <2>2 DEF Iterations
<1> DEFINE g == [i \in 0 .. n |-> f[i]]
<1>5. g = Unrolled(g)
  <2>1. ASSUME NEW i \in 0 .. n PROVE g[i] = Unrolled(g)[i]
    <3>1. CASE i = 0
      BY <1>1, <1>4, <3>1
    <3>2. CASE i # 0
      <4>1. i - 1 \in Nat /\ i - 1 \in 0 .. n /\ (i - 1) + 1 = i /\ i \in 1 .. n
        BY <1>1, <3>2
      <4>2. f[i] = F[i - 1][f[i - 1]]
        <5> HIDE DEF F, n
        <5> QED BY <1>4, <4>1
      <4>3. F[i - 1][f[i - 1]] = PushSegment(f[i - 1], body[i])
        <5> HIDE DEF n
        <5> QED BY <1>4, <4>1
      <4>4. g[i] = f[i] /\ g[i - 1] = f[i - 1]
        <5> HIDE DEF n
        <5> QED BY <4>1
      <4> HIDE DEF F, g, n
      <4> QED BY <3>2, <4>2, <4>3, <4>4
    <3> QED BY <3>1, <3>2
  <2>2. g = [i \in 0 .. n |-> g[i]]
    BY Zenon
  <2> HIDE DEF g, F, n
  <2> QED BY <2>1, <2>2
<1>6. w = CHOOSE h : h = Unrolled(h)
  BY DEF SegmentStack, NoSegments
<1>7. w = Unrolled(w)
  <2> HIDE DEF Unrolled, w, g
  <2> QED BY <1>5, <1>6
<1>8. \A i \in 0 .. n : w[i] = IF i = 0 THEN NoSegments ELSE PushSegment(w[i - 1], body[i])
  <2> HIDE DEF w, n
  <2> QED BY <1>7
<1>9. w[0] = NoSegments /\ \A i \in 1 .. n : w[i] = PushSegment(w[i - 1], body[i])
  <2> HIDE DEF w, n
  <2> QED BY <1>1, <1>8
<1> QED BY <1>9

LEMMA StackType ==
    ASSUME NEW S, NEW body \in Seq(S)
    PROVE  \A i \in 0 .. Len(body) : SegmentStack(body)[i] \in Tops(S)
<1> DEFINE w == SegmentStack(body)
           n == Len(body)
           I == {i \in Nat : i <= n => w[i] \in Tops(S)}
<1>1. n \in Nat /\ \A i \in 1 .. n : body[i] \in S
  OBVIOUS
<1>2. w[0] = NoSegments /\ \A i \in 1 .. n : w[i] = PushSegment(w[i - 1], body[i])
  BY StackUnfolds
<1>3. NoSegments \in Tops(S)
  BY DEF NoSegments, Tops
<1> HIDE DEF w, n
<1>4. 0 \in I
  BY <1>2, <1>3
<1>5. ASSUME NEW i \in Nat, i \in I PROVE i + 1 \in I
  <2> SUFFICES ASSUME i + 1 <= n PROVE w[i + 1] \in Tops(S)
    OBVIOUS
  <2>1. i + 1 \in 1 .. n /\ (i + 1) - 1 = i /\ w[i] \in Tops(S)
    BY <1>1, <1>5
  <2>2. w[i + 1] = PushSegment(w[i], body[i + 1]) /\ body[i + 1] \in S
    BY <1>1, <1>2, <2>1
  <2> QED BY <2>1, <2>2, PushType
<1> HIDE DEF I
<1>6. \A i \in Nat : i \in I
  BY <1>4, <1>5, NatSetInduction
<1> QED BY <1>1, <1>6 DEF I, w, n

LEMMA OneMore ==
    ASSUME NEW S, NEW p \in Seq(S), NEW j \in Nat, j + 1 <= Len(p)
    PROVE  /\ SubSeq(p, 1, j) \in Seq(S) /\ p[j + 1] \in S
           /\ Append(SubSeq(p, 1, j), p[j + 1]) = SubSeq(p, 1, j + 1)
OBVIOUS

\* Plain segments are put on the stack one by one.
LEMMA StackOfPlain ==
    ASSUME NEW S, NEW p \in Seq(S), Plain(p), NEW body \in Seq(S)
    PROVE  SegmentStack(p \o body)[Len(p)] = [ok |-> TRUE, segs |-> p]
<1> DEFINE all == p \o body
           w == SegmentStack(all)
           m == Len(p)
           I == {j \in Nat : j <= m => w[j] = [ok |-> TRUE, segs |-> SubSeq(p, 1, j)]}
<1>1. all \in Seq(S) /\ Len(all) = m + Len(body) /\ m \in Nat /\ Len(body) \in Nat
      /\ \A j \in 1 .. m : all[j] = p[j]
  BY ConcatParts
<1>2. w[0] = NoSegments /\ \A j \in 1 .. Len(all) : w[j] = PushSegment(w[j - 1], all[j])
  <2> HIDE DEF all
  <2> QED BY <1>1, StackUnfolds
<1>3. SubSeq(p, 1, 0) = <<>> /\ SubSeq(p, 1, m) = p /\ DOMAIN p = 1 .. m
  OBVIOUS
<1> HIDE DEF all, w
<1>4. 0 \in I
  BY <1>2, <1>3 DEF NoSegments
<1>5. ASSUME NEW j \in Nat, j \in I PROVE j + 1 \in I
  <2> SUFFICES ASSUME j + 1 <= m
               PROVE  w[j + 1] = [ok |-> TRUE, segs |-> SubSeq(p, 1, j + 1)]
    OBVIOUS
  <2> DEFINE q == SubSeq(p, 1, j)
             top == [ok |-> TRUE, segs |-> q]
  <2>1. q \in Seq(S) /\ p[j + 1] \in S /\ Append(q, p[j + 1]) = SubSeq(p, 1, j + 1)
    BY OneMore
  <2>2. w[j] = top
    <3>1. j <= m
      BY <1>1
    <3> QED BY <1>5, <3>1
  <2> HIDE DEF q, m
  <2>3. j + 1 \in 1 .. m /\ j + 1 \in 1 .. Len(all) /\ (j + 1) - 1 = j
    BY <1>1
  <2>4. w[j + 1] = PushSegment(top, p[j + 1])
    BY <1>1, <1>2, <2>2, <2>3
  <2>5. top \in Tops(S) /\ top.ok = TRUE /\ top.segs = q
    BY <2>1 DEF Tops
  <2>6. p[j + 1] \notin {"", ".", ".."}
    BY <1>3, <2>3 DEF Plain
  <2> HIDE DEF top
  <2>7. PushSegment(top, p[j + 1]) = [ok |-> top.ok, segs |-> Append(top.segs, p[j + 1])]
    BY <2>5, <2>6, PushParts
  <2> QED BY <2>1, <2>4, <2>5, <2>7
<1> HIDE DEF I
<1>6. m \in I
  BY <1>1, <1>4, <1>5, NatSetInduction
<1>7. w[m] = [ok |-> TRUE, segs |-> SubSeq(p, 1, m)]
  <2> HIDE DEF m
  <2> QED BY <1>1, <1>6 DEF I
<1> QED BY <1>3, <1>7 DEF w, all

\* A body that normalises does so above any plain prefix, and leaves it whole.
LEMMA StackAbove ==
    ASSUME NEW S, NEW p \in Seq(S), Plain(p), NEW body \in Seq(S)
    PROVE  \A i \in 0 .. Len(body) : SegmentStack(body)[i].ok = TRUE =>
              SegmentStack(p \o body)[Len(p) + i]
                 = [ok |-> TRUE, segs |-> p \o SegmentStack(body)[i].segs]
<1> DEFINE all == p \o body
           u == SegmentStack(all)
           w == SegmentStack(body)
           m == Len(p)
           n == Len(body)
           Above(i) == u[m + i] = [ok |-> TRUE, segs |-> p \o w[i].segs]
           Good(i) == w[i].ok = TRUE
           I == {i \in Nat : i <= n /\ Good(i) => Above(i)}
<1>1. all \in Seq(S) /\ Len(all) = m + n /\ m \in Nat /\ n \in Nat
      /\ \A i \in 1 .. n : all[m + i] = body[i]
  BY ConcatParts
<1>2. \A i \in 1 .. Len(all) : u[i] = PushSegment(u[i - 1], all[i])
  <2> HIDE DEF all
  <2> QED BY <1>1, StackUnfolds
<1>3. w[0] = NoSegments /\ \A i \in 1 .. n : w[i] = PushSegment(w[i - 1], body[i])
  BY StackUnfolds
<1>4. \A i \in 0 .. n : w[i] \in Tops(S)
  BY StackType
<1>5. \A i \in 1 .. n : body[i] \in S
  OBVIOUS
<1>6. u[m] = [ok |-> TRUE, segs |-> p]
  BY StackOfPlain
<1>7. p \o <<>> = p
  OBVIOUS
<1> HIDE DEF all, u, w, m, n
<1>8. 0 \in I
  <2>1. m + 0 = m /\ w[0].segs = <<>>
    BY <1>1, <1>3 DEF NoSegments
  <2> QED BY <1>6, <1>7, <2>1
<1>9. ASSUME NEW i \in Nat, i \in I PROVE i + 1 \in I
  <2> SUFFICES ASSUME i + 1 <= n, Good(i + 1) PROVE Above(i + 1)
    <3> HIDE DEF Above, Good
    <3> QED OBVIOUS
  <2> DEFINE top == w[i]
             next == w[i + 1]
  <2>1. /\ i + 1 \in 1 .. n /\ (i + 1) - 1 = i /\ i \in 0 .. n /\ i <= n
        /\ m + (i + 1) \in 1 .. Len(all) /\ (m + (i + 1)) - 1 = m + i
    BY <1>1
  <2>2. next = PushSegment(top, body[i + 1]) /\ top \in Tops(S) /\ body[i + 1] \in S
    BY <1>3, <1>4, <1>5, <2>1
  <2>3. u[m + (i + 1)] = PushSegment(u[m + i], body[i + 1])
    BY <1>1, <1>2, <2>1
  <2>4. next.ok = TRUE
    OBVIOUS
  <2>5. i <= n /\ top.ok = TRUE => u[m + i] = [ok |-> TRUE, segs |-> p \o top.segs]
    <3>1. i <= n /\ Good(i) => Above(i)
      <4> HIDE DEF Above, Good
      <4> QED BY <1>9
    <3> QED BY <3>1
  <2> HIDE DEF top, next
  <2>6. /\ top.ok = TRUE
        /\ PushSegment([ok |-> TRUE, segs |-> p \o top.segs], body[i + 1])
              = [ok |-> TRUE, segs |-> p \o next.segs]
    <3>1. Shifts(p, top, body[i + 1], next)
      BY <2>2, PushAbove
    <3> QED BY <2>4, <3>1, Zenon DEF Shifts
  <2>7. u[m + (i + 1)] = [ok |-> TRUE, segs |-> p \o next.segs]
    <3>1. u[m + i] = [ok |-> TRUE, segs |-> p \o top.segs]
      BY <2>1, <2>5, <2>6
    <3> QED BY <2>3, <2>6, <3>1, Zenon
  <2> QED BY <2>7 DEF next
<1> HIDE DEF I
<1>10. \A i \in Nat : i \in I
  BY <1>8, <1>9, NatSetInduction
<1>11. \A i \in 0 .. n : Good(i) => Above(i)
  <2> HIDE DEF Above, Good
  <2> QED BY <1>1, <1>10 DEF I
<1> QED BY <1>11 DEF u, w, m, n, all

LEMMA NormalizeAbove ==
    ASSUME NEW S, NEW p \in Seq(S), Plain(p), NEW body \in Seq(S),
           NormalizeBody(body).ok = TRUE
    PROVE  /\ NormalizeBody(body).segs \in Seq(S)
           /\ NormalizeBody(p \o body) = [ok |-> TRUE, segs |-> p \o NormalizeBody(body).segs]
<1>1. Len(p \o body) = Len(p) + Len(body) /\ Len(body) \in 0 .. Len(body)
  OBVIOUS
<1>2. NormalizeBody(body) = SegmentStack(body)[Len(body)]
      /\ NormalizeBody(p \o body) = SegmentStack(p \o body)[Len(p) + Len(body)]
  BY <1>1 DEF NormalizeBody
<1>3. SegmentStack(body)[Len(body)] \in Tops(S)
  BY <1>1, StackType
<1>4. SegmentStack(p \o body)[Len(p) + Len(body)]
         = [ok |-> TRUE, segs |-> p \o SegmentStack(body)[Len(body)].segs]
  BY <1>1, <1>2, StackAbove
<1>5. SegmentStack(body)[Len(body)].segs \in Seq(S)
  BY <1>3, TopParts
<1> QED BY <1>2, <1>4, <1>5

----------------------------------------------------------------------------
(* Paths that move                                                         *)

Slash(segs) == [root |-> "slash", segs |-> segs]

\* A valid absolute path that normalises to the segments of p and then of segs.
Lies(path, p, segs) ==
    /\ path # Null /\ PathInvariants(path)
    /\ path.normalized = Slash(p \o segs) /\ path.absolute = TRUE

\* The segments of two valid paths, one after the other.
LEMMA CleanConcat ==
    ASSUME NEW p \in Seq(STRING), NEW rest \in Seq(STRING)
    PROVE  CleanSegments(p \o rest) <=> CleanSegments(p) /\ CleanSegments(rest)
<1> DEFINE all == p \o rest
           C == {t \in STRING : CleanOrEmpty(t)}
<1>1. CleanSegments(p) /\ CleanSegments(rest) => CleanSegments(all)
  BY DEF CleanSegments
<1>2. ASSUME CleanSegments(all) PROVE CleanSegments(p)
  <2>1. \A i \in DOMAIN p : i \in DOMAIN all /\ all[i] = p[i]
    OBVIOUS
  <2> HIDE DEF all
  <2> QED BY <1>2, <2>1 DEF CleanSegments
<1>3. ASSUME CleanSegments(all) PROVE CleanSegments(rest)
  <2>1. \A i \in DOMAIN rest : Len(p) + i \in DOMAIN all /\ all[Len(p) + i] = rest[i]
    OBVIOUS
  <2> HIDE DEF all
  <2> QED BY <1>3, <2>1 DEF CleanSegments
<1> QED BY <1>1, <1>2, <1>3

LEMMA PathAbove ==
    ASSUME NEW p \in Seq(STRING), Plain(p), NEW rest \in Seq(STRING),
           NormalizeBody(rest).ok = TRUE, CleanSegments(p), CleanSegments(rest)
    PROVE  Lies(NormalizedPath(Slash(p \o rest)), p, NormalizeBody(rest).segs)
<1> DEFINE raw == Slash(p \o rest)
           N == NormalizeBody(rest).segs
           path == NormalizedPath(raw)
<1>1. N \in Seq(STRING) /\ NormalizeBody(p \o rest) = [ok |-> TRUE, segs |-> p \o N]
  BY NormalizeAbove
<1>2. p \o rest \in Seq(STRING) /\ p \o N \in Seq(STRING)
  <2> HIDE DEF N
  <2> QED BY <1>1
<1>3. raw.root = "slash" /\ raw.segs = p \o rest
  BY DEF Slash
<1>4. NormalizeBody(p \o rest).ok = TRUE /\ NormalizeBody(p \o rest).segs = p \o N
  <2> HIDE DEF N
  <2> QED BY <1>1
<1> HIDE DEF raw, N
<1>5. NormalizeLexical(raw) = [ok |-> TRUE, path |-> Slash(p \o N)]
  <2>1. NormalizeBody(raw.segs).ok = TRUE /\ NormalizeBody(raw.segs).segs = p \o N
    BY <1>3, <1>4
  <2>2. raw.root # "backslash"
    BY <1>3
  <2> HIDE DEF N
  <2> QED BY <1>3, <2>1, <2>2, Zenon DEF NormalizeLexical, Slash
<1>6. path = [raw |-> raw, normalized |-> Slash(p \o N), absolute |-> TRUE]
  <2>1. NormalizeLexical(raw).path = Slash(p \o N)
    BY <1>5
  <2>2. (raw.root # "none") = TRUE
    BY <1>3
  <2> QED BY <2>1, <2>2, Zenon DEF NormalizedPath
<1>7. path.raw = raw /\ path.normalized = Slash(p \o N) /\ path.absolute = TRUE
  <2> HIDE DEF path
  <2> QED BY <1>6
<1>8. raw \in RawPaths /\ Slash(p \o N) \in RawPaths
  <2>1. "slash" \in Roots
    BY DEF Roots
  <2> HIDE DEF N
  <2> QED BY <1>2, <2>1 DEF RawPaths, Slash, raw
<1>9. path # Null
  <2>1. path \in [raw : RawPaths, normalized : RawPaths, absolute : BOOLEAN]
    <3> HIDE DEF path
    <3> QED BY <1>6, <1>8
  <2> QED BY <2>1, RequestAssumption
<1>10. PathInvariants(path)
  <2>1. raw # [root |-> "none", segs |-> <<>>]
    BY <1>3
  <2>2. NormalizeLexical(raw).ok
    BY <1>5
  <2>5. CleanSegments(p \o rest)
    BY CleanConcat
  <2>3. IsPath(path.raw)
    <3> HIDE DEF path
    <3> QED BY <1>3, <1>7, <2>1, <2>2, <2>5 DEF IsPath
  <2>4. path = NormalizedPath(path.raw)
    BY <1>7
  <2> HIDE DEF path
  <2> QED BY <2>3, <2>4 DEF PathInvariants
<1> QED BY <1>7, <1>9, <1>10 DEF Lies, N, raw

\* A path of the workspace and the same path where the workspace moves to.
LEMMA MovedLies ==
    ASSUME NEW from \in Workspaces, NEW to \in Workspaces, NEW path,
           path # Null, PathLike(path), Below(from, path)
    PROVE  \E segs \in Seq(STRING) : Lies(path, from, segs) /\ Lies(Moved(path, from, to), to, segs)
<1> DEFINE all == path.raw.segs
           rest == SubSeq(all, Len(from) + 1, Len(all))
           N == NormalizeBody(rest)
<1>1. /\ from \in Seq(STRING) /\ Plain(from) /\ to \in Seq(STRING) /\ Plain(to)
      /\ CleanSegments(from) /\ CleanSegments(to)
  BY WorkspaceAssumption
<1>2. path.raw \in RawPaths /\ path.raw.root = "slash" /\ path = NormalizedPath(path.raw)
      /\ IsPrefixOf(from, all) /\ N.ok /\ CleanSegments(all)
  BY DEF PathLike, Below, PathInvariants, IsPath
<1>3. all \in Seq(STRING) /\ path.raw = Slash(all)
  BY <1>2 DEF RawPaths, Slash
<1>4. rest \in Seq(STRING) /\ all = from \o rest
  <2> HIDE DEF all
  <2> QED BY <1>1, <1>2, <1>3, PrefixRest
<1>5. [path.raw EXCEPT !.segs = to \o SubSeq(@, Len(from) + 1, Len(@))] = Slash(to \o rest)
  <2> DEFINE raw == path.raw
  <2>1. raw = [root |-> "slash", segs |-> all] /\ raw.segs = all
    BY <1>3 DEF Slash
  <2>2. SubSeq(raw.segs, Len(from) + 1, Len(raw.segs)) = rest
    BY <2>1
  <2> HIDE DEF raw, all, rest
  <2>3. [raw EXCEPT !.segs = to \o SubSeq(@, Len(from) + 1, Len(@))]
           = [root |-> "slash", segs |-> to \o rest]
    <3>1. [raw EXCEPT !.segs = to \o SubSeq(@, Len(from) + 1, Len(@))]
             = [raw EXCEPT !.segs = to \o rest]
      BY <2>2, Zenon
    <3> DEFINE there == to \o rest
    <3> HIDE DEF there
    <3>2. [raw EXCEPT !.segs = there] = [root |-> "slash", segs |-> there]
      BY <2>1
    <3> QED BY <3>1, <3>2 DEF there
  <2> QED BY <2>3 DEF Slash, raw
<1>6. Moved(path, from, to) = NormalizedPath(Slash(to \o rest))
  BY <1>5, Zenon DEF Moved
<1>7. path = NormalizedPath(Slash(from \o rest))
  <2> HIDE DEF all, rest
  <2> QED BY <1>2, <1>3, <1>4
<1> HIDE DEF all, rest
<1>8. N \in Tops(STRING)
  <2>1. Len(rest) \in 0 .. Len(rest)
    BY <1>4
  <2> QED BY <1>4, <2>1, StackType DEF NormalizeBody
<1>9. N.ok = TRUE /\ N.segs \in Seq(STRING)
  <2>1. N.ok \in BOOLEAN /\ N.segs \in Seq(STRING)
    <3> HIDE DEF N
    <3> QED BY <1>8, TopParts
  <2> HIDE DEF N
  <2> QED BY <1>2, <2>1
<1>12. CleanSegments(rest)
  BY <1>1, <1>2, <1>4, CleanConcat
<1>10. Lies(path, from, N.segs)
  BY <1>1, <1>4, <1>7, <1>9, <1>12, PathAbove
<1>11. Lies(Moved(path, from, to), to, N.segs)
  BY <1>1, <1>4, <1>6, <1>9, <1>12, PathAbove
<1> QED BY <1>9, <1>10, <1>11

\* A list that begins with a shorter one, and what comes after that.
Begins(w, s) == Len(w) < Len(s) /\ SubSeq(s, 1, Len(w)) = w
After(w, s) == SubSeq(s, Len(w) + 1, Len(s))

\* A prefix comes off two lists of pieces that begin alike.
LEMMA UnderAbove ==
    ASSUME NEW S, NEW p \in Seq(S), NEW P \in Seq(S), NEW W \in Seq(S)
    PROVE  /\ Begins(p \o W, p \o P) <=> Begins(W, P)
           /\ Begins(W, P) => After(p \o W, p \o P) = After(W, P)
<1> DEFINE a == p \o P
           b == p \o W
<1>1. /\ a \in Seq(S) /\ b \in Seq(S) /\ Len(p) \in Nat /\ Len(P) \in Nat /\ Len(W) \in Nat
      /\ Len(a) = Len(p) + Len(P) /\ Len(b) = Len(p) + Len(W)
  BY ConcatParts
<1>3. Len(W) < Len(P) => /\ SubSeq(a, 1, Len(b)) = p \o SubSeq(P, 1, Len(W))
                         /\ SubSeq(a, Len(b) + 1, Len(a)) = SubSeq(P, Len(W) + 1, Len(P))
                         /\ SubSeq(P, 1, Len(W)) \in Seq(S)
  <2> SUFFICES ASSUME Len(W) < Len(P)
               PROVE  /\ SubSeq(a, 1, Len(b)) = p \o SubSeq(P, 1, Len(W))
                      /\ SubSeq(a, Len(b) + 1, Len(a)) = SubSeq(P, Len(W) + 1, Len(P))
                      /\ SubSeq(P, 1, Len(W)) \in Seq(S)
    OBVIOUS
  <2>1. Len(W) \in 0 .. Len(P)
    BY <1>1
  <2>2. SubSeq(a, 1, Len(p) + Len(W)) = p \o SubSeq(P, 1, Len(W))
    BY <2>1, ConcatCut
  <2>3. SubSeq(a, Len(p) + Len(W) + 1, Len(a)) = SubSeq(P, Len(W) + 1, Len(P))
    BY <2>1, ConcatRest
  <2>4. SubSeq(P, 1, Len(W)) \in Seq(S)
    BY <2>1
  <2> HIDE DEF a, b
  <2> QED BY <1>1, <2>2, <2>3, <2>4
<1>4. Len(W) < Len(P) =>
         (p \o SubSeq(P, 1, Len(W)) = b <=> SubSeq(P, 1, Len(W)) = W)
  <2> DEFINE c == SubSeq(P, 1, Len(W))
  <2> SUFFICES ASSUME Len(W) < Len(P) PROVE p \o c = b <=> c = W
    OBVIOUS
  <2>1. c \in Seq(S)
    BY <1>3
  <2> HIDE DEF c
  <2> QED BY <2>1, ConcatCancel
<1>5. Len(b) < Len(a) <=> Len(W) < Len(P)
  <2> HIDE DEF a, b
  <2> QED BY <1>1
<1> SUFFICES (Begins(b, a) <=> Begins(W, P)) /\ (Begins(W, P) => After(b, a) = After(W, P))
  OBVIOUS
<1> HIDE DEF a, b
<1> QED BY <1>3, <1>4, <1>5 DEF Begins, After

\* Patterns that begin with a name take no text that begins with a slash.
AnchoredGlobs(globs) == \A g \in Elements(globs) : BeginsWithName(g)

LEMMA NotWhole ==
    ASSUME NEW globs, AnchoredGlobs(globs), NEW text, text[1] = NoText
    PROVE  ~ MatcherMatches(globs, text)
<1> SUFFICES ASSUME NEW i \in DOMAIN globs PROVE ~ PiecesMatch(Pieces(globs[i]), text)
  BY DEF MatcherMatches
<1> DEFINE pat == globs[i].segs
<1>1. /\ globs[i].root = "none" /\ 1 \in DOMAIN pat
      /\ pat[1] # "*" /\ pat[1] # "**" /\ pat[1] # NoText
  BY DEF AnchoredGlobs, Elements, BeginsWithName, IsRelativePattern
<1>2. Pieces(globs[i]) = pat
  <2>1. pat # <<>>
    <3>1. DOMAIN << >> = 1 .. 0
      OBVIOUS
    <3>2. 1 \notin 1 .. 0
      OBVIOUS
    <3> HIDE DEF pat
    <3> QED BY <1>1, <3>1, <3>2, Zenon
  <2> QED BY <1>1, <2>1 DEF Pieces
<1> HIDE DEF pat
<1>3. ASSUME PiecesMatch(pat, text) PROVE FALSE
  <2>1. PICK cut : \A k \in DOMAIN pat :
              LET before == IF k = 1 THEN 0 ELSE cut[k - 1]
              IN  IF pat[k] = "**"
                  THEN before <= cut[k] /\ (k = Len(pat) /\ k > 1 => before < cut[k])
                  ELSE cut[k] = before + 1 /\ pat[k] \in {"*", text[cut[k]]}
    BY <1>3 DEF PiecesMatch
  <2>2. cut[1] = 0 + 1 /\ pat[1] \in {"*", text[cut[1]]}
    BY <1>1, <2>1, Zenon
  <2>3. cut[1] = 1
    BY <2>2
  <2> QED BY <1>1, <2>2, <2>3
<1> QED BY <1>2, <1>3

\* The pieces of a text, of which one is empty.
Texts == STRING \cup {NoText}

LEMMA SegmentsAreTexts == ASSUME NEW s \in Seq(STRING) PROVE s \in Seq(Texts)
  BY DEF Texts

\* A list of one and of two.
LEMMA ShortLists ==
    ASSUME NEW S, NEW x \in S
    PROVE  /\ <<x>> \in Seq(S) /\ Len(<<x>>) = 1 /\ <<x>>[1] = x
           /\ <<x, x>> \in Seq(S) /\ Len(<<x, x>>) = 2 /\ <<x, x>>[1] = x /\ <<x, x>>[2] = x
<1>1. <<x>> = Append(<<>>, x) /\ <<>> \in Seq(S)
  OBVIOUS
<1>2. <<x>> \in Seq(S) /\ Len(<<x>>) = 1 /\ <<x>>[1] = x
  BY <1>1, AppendProperties
<1>3. <<x, x>> = Append(<<x>>, x)
  OBVIOUS
<1>4. <<x, x>> \in Seq(S) /\ Len(<<x, x>>) = 2 /\ <<x, x>>[1] = x /\ <<x, x>>[2] = x
  BY <1>2, <1>3, AppendProperties
<1> QED BY <1>2, <1>4

\* Two lists, one after the other.
Joined(S, p, s) ==
    /\ p \o s \in Seq(S) /\ Len(p \o s) = Len(p) + Len(s) /\ Len(s) \in Nat
    /\ \A i \in 1 .. Len(p) : (p \o s)[i] = p[i]
    /\ \A i \in 1 .. Len(s) : (p \o s)[Len(p) + i] = s[i]

LEMMA ConcatJoins ==
    ASSUME NEW S, NEW p \in Seq(S), NEW s \in Seq(S)
    PROVE  Joined(S, p, s)
  BY ConcatParts DEF Joined

\* A list of one before another.
LEMMA ConcatOne ==
    ASSUME NEW S, NEW e \in Seq(S), Len(e) = 1, NEW s \in Seq(S)
    PROVE  /\ e \o s \in Seq(S) /\ Len(e \o s) = 1 + Len(s) /\ Len(s) \in Nat
           /\ (e \o s)[1] = e[1]
           /\ \A i \in 1 .. Len(s) : (e \o s)[1 + i] = s[i]
<1>1. Joined(S, e, s)
  BY ConcatJoins, Zenon
<1>2. 1 \in 1 .. Len(e)
  OBVIOUS
<1>3. (e \o s)[1] = e[1]
  BY <1>1, <1>2, Zenon DEF Joined
<1>4. \A i \in 1 .. Len(s) : (e \o s)[1 + i] = s[i]
  BY <1>1, Zenon DEF Joined
<1>5. e \o s \in Seq(S) /\ Len(e \o s) = 1 + Len(s) /\ Len(s) \in Nat
  BY <1>1, Zenon DEF Joined
<1> QED BY <1>3, <1>4, <1>5, Zenon

Regroups(s, t, u) == (s \o t) \o u = s \o (t \o u)

LEMMA ConcatRegroups ==
    ASSUME NEW S, NEW s \in Seq(S), NEW t \in Seq(S), NEW u \in Seq(S)
    PROVE  Regroups(s, t, u)
  BY ConcatAssociative DEF Regroups

\* The piece before the first slash.
LEMMA EmptyPiece ==
    /\ <<NoText>> \in Seq(Texts) /\ Len(<<NoText>>) = 1 /\ <<NoText>>[1] = NoText
    /\ <<NoText>> \o <<NoText>> = <<NoText, NoText>> /\ <<NoText>> \o << >> = <<NoText>>
    /\ <<NoText, NoText>> \in Seq(Texts) /\ Len(<<NoText, NoText>>) = 2
    /\ SubSeq(<<NoText, NoText>>, 2, 2)[1] = NoText
<1>0. NoText \in Texts
  BY DEF Texts
<1>1. <<NoText>> \in Seq(Texts) /\ Len(<<NoText>>) = 1 /\ <<NoText>>[1] = NoText
  BY <1>0, ShortLists
<1>2. <<NoText, NoText>> \in Seq(Texts) /\ Len(<<NoText, NoText>>) = 2
      /\ <<NoText, NoText>>[1] = NoText /\ <<NoText, NoText>>[2] = NoText
  BY <1>0, ShortLists
<1>3. <<NoText>> \o <<NoText>> = <<NoText, NoText>>
  <2> DEFINE e == <<NoText>>
             f == <<NoText, NoText>>
  <2>1. e \in Seq(Texts) /\ Len(e) = 1 /\ e[1] = NoText
    BY <1>1
  <2>2. f \in Seq(Texts) /\ Len(f) = 2 /\ f[1] = NoText /\ f[2] = NoText
    BY <1>2
  <2> HIDE DEF e, f
  <2>3. /\ e \o e \in Seq(Texts) /\ Len(e \o e) = 2
        /\ (e \o e)[1] = NoText /\ (e \o e)[2] = NoText
    BY <2>1, ConcatOne
  <2>4. \A i \in 1 .. 2 : (e \o e)[i] = f[i]
    <3>1. \A i \in 1 .. 2 : i = 1 \/ i = 2
      OBVIOUS
    <3> QED BY <2>2, <2>3, <3>1
  <2>5. e \o e = f
    BY <2>2, <2>3, <2>4, SeqEqual
  <2> QED BY <2>5 DEF e, f
<1>4. <<NoText>> \o << >> = <<NoText>>
  <2> DEFINE e == <<NoText>>
  <2>1. e \in Seq(Texts)
    BY <1>1
  <2> HIDE DEF e
  <2>2. e \o << >> = e
    BY <2>1
  <2> QED BY <2>2 DEF e
<1>5. SubSeq(<<NoText, NoText>>, 2, 2)[1] = NoText
  <2> DEFINE f == <<NoText, NoText>>
  <2>1. f \in Seq(Texts) /\ Len(f) = 2 /\ f[2] = NoText
    BY <1>2
  <2> HIDE DEF f
  <2>2. SubSeq(f, 2, 2)[1] = f[2]
    BY <2>1
  <2> QED BY <2>1, <2>2 DEF f
<1> QED BY <1>1, <1>2, <1>3, <1>4, <1>5

\* The pieces of an absolute path and of a working directory.
LEMMA SlashPieces ==
    ASSUME NEW a \in Seq(Texts)
    PROVE  /\ WorkspacePrefix(Slash(a)) = <<NoText>> \o a
           /\ a # <<>> => Pieces(Slash(a)) = <<NoText>> \o a
           /\ a = <<>> => Pieces(Slash(a)) = <<NoText, NoText>>
           /\ Pieces(Slash(a))[1] = NoText
<1>1. Slash(a).root = "slash" /\ Slash(a).segs = a
  BY DEF Slash
<1>2. /\ a # <<>> => Pieces(Slash(a)) = <<NoText>> \o a
      /\ a = <<>> => Pieces(Slash(a)) = <<NoText>> \o <<NoText>>
  BY <1>1 DEF Pieces
<1>3. <<NoText>> \o <<NoText>> = <<NoText, NoText>> /\ (a = <<>> => <<NoText>> \o a = <<NoText>>)
  BY EmptyPiece
<1>4. WorkspacePrefix(Slash(a)) = <<NoText>> \o a
  BY <1>1, <1>2, <1>3 DEF WorkspacePrefix
<1>5. (<<NoText>> \o a)[1] = NoText /\ (<<NoText>> \o <<NoText>>)[1] = NoText
  <2> DEFINE e == <<NoText>>
  <2>1. e \in Seq(Texts) /\ Len(e) = 1 /\ e[1] = NoText
    BY EmptyPiece
  <2> HIDE DEF e
  <2>2. (e \o a)[1] = e[1] /\ (e \o e)[1] = e[1]
    BY <2>1, ConcatOne
  <2> QED BY <2>1, <2>2 DEF e
<1> QED BY <1>2, <1>3, <1>4, <1>5

\* path_matches_with_cwd answers the same before and after the move.
LEMMA SameMatch ==
    ASSUME NEW globs, AnchoredGlobs(globs), NEW relative,
           NEW p \in Seq(STRING), NEW q \in Seq(STRING),
           NEW P \in Seq(STRING), NEW W \in Seq(STRING),
           NEW path, NEW path2, NEW wd, NEW wd2,
           Lies(path, p, P), Lies(path2, q, P), Lies(wd, p, W), Lies(wd2, q, W)
    PROVE  PathMatches(globs, relative, path, wd) <=> PathMatches(globs, relative, path2, wd2)
<1> DEFINE under == Begins(W, P)
           rest == After(W, P)
<1>1. ASSUME NEW r \in Seq(STRING), NEW x, NEW d, Lies(x, r, P), Lies(d, r, W)
      PROVE  PathMatches(globs, relative, x, d) <=>
                relative /\ under /\ MatcherMatches(globs, rest)
  <2> DEFINE e == <<NoText>>
             a == r \o P
             b == r \o W
             s == e \o r
  <2>1. x.normalized = Slash(a) /\ d.normalized = Slash(b) /\ d # Null
        /\ x.absolute = TRUE
    BY <1>1 DEF Lies
  <2>8. e \in Seq(Texts) /\ Len(e) = 1
    BY EmptyPiece
  <2>9. r \in Seq(Texts) /\ P \in Seq(Texts) /\ W \in Seq(Texts)
    BY SegmentsAreTexts
  <2>2. a \in Seq(Texts) /\ b \in Seq(Texts) /\ s \in Seq(Texts)
    <3> HIDE DEF e
    <3> QED BY <2>8, <2>9
  <2>3. s \o P = <<NoText>> \o a /\ s \o W = <<NoText>> \o b
    <3>1. Regroups(e, r, P) /\ Regroups(e, r, W)
      <4> HIDE DEF e
      <4> QED BY <2>8, <2>9, ConcatRegroups, Zenon
    <3> QED BY <3>1 DEF Regroups
  <2>4. d.normalized.root = "slash"
    BY <2>1 DEF Slash
  <2>5. ~ MatcherMatches(globs, Pieces(x.normalized))
    <3> HIDE DEF a
    <3> QED BY <2>1, <2>2, SlashPieces, NotWhole
  <2>6. CASE a # <<>>
    <3>1. Pieces(x.normalized) = s \o P /\ WorkspacePrefix(d.normalized) = s \o W
      <4> HIDE DEF a, b, s
      <4> QED BY <2>1, <2>2, <2>3, <2>6, SlashPieces
    <3> HIDE DEF s, a, b
    <3>2. UnderWorkspace(x.normalized, d.normalized) <=> under
      <4>1. Begins(s \o W, s \o P) <=> under
        BY <2>2, <2>9, UnderAbove
      <4> HIDE DEF under
      <4> QED BY <2>4, <3>1, <4>1, Zenon DEF UnderWorkspace, Begins
    <3>3. under => RelativeTo(x.normalized, d.normalized) = rest
      <4>1. under => After(s \o W, s \o P) = rest
        BY <2>2, <2>9, UnderAbove
      <4> HIDE DEF under, rest
      <4> QED BY <3>1, <4>1, Zenon DEF RelativeTo, After
    <3> HIDE DEF under, rest
    <3> QED BY <2>1, <2>5, <3>2, <3>3 DEF PathMatches
  <2>7. CASE a = <<>>
    <3>1. P = <<>>
      BY <2>7
    <3>2. ~ under
      BY <3>1 DEF Begins
    <3>3. Pieces(x.normalized) = <<NoText, NoText>>
      <4> HIDE DEF a
      <4> QED BY <2>1, <2>2, <2>7, SlashPieces
    <3>4. WorkspacePrefix(d.normalized) = <<NoText>> \o b
      <4> HIDE DEF b
      <4> QED BY <2>1, <2>2, SlashPieces
    <3>5. Len(e \o b) = 1 + Len(b) /\ Len(b) \in Nat
      <4> HIDE DEF b, e
      <4> QED BY <2>2, <2>8, ConcatOne
    <3>6. UnderWorkspace(x.normalized, d.normalized) => Len(WorkspacePrefix(d.normalized)) = 1
      <4>1. Len(Pieces(x.normalized)) = 2
        BY <3>3, EmptyPiece
      <4>2. Len(WorkspacePrefix(d.normalized)) = 1 + Len(b)
        BY <3>4, <3>5
      <4>3. UnderWorkspace(x.normalized, d.normalized) =>
               Len(WorkspacePrefix(d.normalized)) < Len(Pieces(x.normalized))
        BY DEF UnderWorkspace
      <4> HIDE DEF b
      <4> QED BY <3>5, <4>1, <4>2, <4>3
    <3>7. UnderWorkspace(x.normalized, d.normalized) =>
             RelativeTo(x.normalized, d.normalized) = SubSeq(<<NoText, NoText>>, 2, 2)
      <4>1. Len(Pieces(x.normalized)) = 2
        BY <3>3, EmptyPiece
      <4>2. RelativeTo(x.normalized, d.normalized)
              = SubSeq(<<NoText, NoText>>, Len(WorkspacePrefix(d.normalized)) + 1, 2)
        BY <3>3, <4>1, Zenon DEF RelativeTo
      <4>3. 1 + 1 = 2
        OBVIOUS
      <4> QED BY <3>6, <4>2, <4>3, Zenon
    <3>8. SubSeq(<<NoText, NoText>>, 2, 2)[1] = NoText
      BY EmptyPiece
    <3>9. UnderWorkspace(x.normalized, d.normalized) =>
             ~ MatcherMatches(globs, RelativeTo(x.normalized, d.normalized))
      BY <3>7, <3>8, NotWhole
    <3> HIDE DEF under, rest
    <3> QED BY <2>5, <3>2, <3>9 DEF PathMatches
  <2> QED BY <2>6, <2>7
<1>2. PathMatches(globs, relative, path, wd) <=> relative /\ under /\ MatcherMatches(globs, rest)
  BY <1>1
<1>3. PathMatches(globs, relative, path2, wd2) <=> relative /\ under /\ MatcherMatches(globs, rest)
  BY <1>1
<1> HIDE DEF under, rest
<1> QED BY <1>2, <1>3

----------------------------------------------------------------------------
(* Requests that move                                                      *)

\* The second request is the first one with another path and working directory.
Twins(req, req2) ==
    /\ req2.request_id = req.request_id /\ req2.subject = req.subject
    /\ req2.operation = req.operation
    /\ \A f \in DOMAIN NoResource \ {"path"} : req2.resource[f] = req.resource[f]
    /\ \A f \in {"intent", "parent", "metadata", "dry_run"} : req2.context[f] = req.context[f]

LEMMA RelocatedParts ==
    ASSUME NEW req, RequestLike(req), NEW from, NEW to
    PROVE  /\ Twins(req, Relocated(req, from, to))
           /\ Relocated(req, from, to).resource.path = Moved(req.resource.path, from, to)
           /\ Relocated(req, from, to).context.working_directory
                = Moved(req.context.working_directory, from, to)
<1> DEFINE wd == Moved(req.context.working_directory, from, to)
           path == Moved(req.resource.path, from, to)
           r == req.resource
           c == req.context
           r2 == [r EXCEPT !.path = path]
           c2 == [c EXCEPT !.working_directory = wd]
           req2 == Relocated(req, from, to)
<1>1. req2 = [[req EXCEPT !.context = c2] EXCEPT !.resource = r2]
  <2>1. req2 = [req EXCEPT !.context.working_directory = wd, !.resource.path = path]
    BY DEF Relocated
  <2> HIDE DEF wd, path, req2
  <2> QED BY <2>1 DEF RequestLike
<1>2. /\ req = [f \in {"request_id", "subject", "operation", "resource", "context"} |-> req[f]]
      /\ r = [f \in DOMAIN NoResource |-> r[f]]
      /\ c = [f \in {"working_directory", "intent", "parent", "metadata", "dry_run"} |-> c[f]]
  BY DEF RequestLike
<1>3. DOMAIN NoResource = {"kind", "path", "executable", "arguments", "scheme", "host",
                           "port", "identifier"}
  BY DEF NoResource
<1> HIDE DEF wd, path, req2
<1>4. c2.working_directory = wd
      /\ \A f \in {"intent", "parent", "metadata", "dry_run"} : c2[f] = c[f]
  <2> HIDE DEF c
  <2> QED BY <1>2
<1>5. r2.path = path /\ \A f \in DOMAIN NoResource \ {"path"} : r2[f] = r[f]
  <2> HIDE DEF r
  <2> QED BY <1>2, <1>3
<1>6. /\ req2.request_id = req.request_id /\ req2.subject = req.subject
      /\ req2.operation = req.operation /\ req2.resource = r2 /\ req2.context = c2
  <2> HIDE DEF r2, c2
  <2> QED BY <1>1, <1>2
<1> HIDE DEF r2, c2
<1> SUFFICES Twins(req, req2) /\ req2.resource.path = path /\ req2.context.working_directory = wd
  BY DEF req2, path, wd
<1> QED BY <1>4, <1>5, <1>6 DEF Twins

\* A rule with anchored patterns answers both alike.
LEMMA SameConditions ==
    ASSUME NEW req, NEW req2, Twins(req, req2), req.resource.kind = "file",
           NEW p \in Seq(STRING), NEW q \in Seq(STRING),
           NEW P \in Seq(STRING), NEW W \in Seq(STRING),
           Lies(req.resource.path, p, P), Lies(req2.resource.path, q, P),
           Lies(req.context.working_directory, p, W),
           Lies(req2.context.working_directory, q, W),
           NEW cr, Anchored(cr), NEW d \in Dimensions
    PROVE  Holds(d, cr, req2) <=> Holds(d, cr, req)
<1> DEFINE c == cr.rule.conditions
           r == req.resource
           r2 == req2.resource
<1>1. /\ req2.subject = req.subject /\ req2.operation = req.operation
      /\ r2.kind = r.kind /\ r2.executable = r.executable /\ r2.arguments = r.arguments
      /\ r2.scheme = r.scheme /\ r2.host = r.host /\ r2.port = r.port
      /\ r2.identifier = r.identifier /\ req2.context.intent = req.context.intent
  <2>1. {"kind", "executable", "arguments", "scheme", "host", "port", "identifier"}
           \subseteq DOMAIN NoResource \ {"path"}
    BY DEF NoResource
  <2> HIDE DEF r, r2
  <2> QED BY <2>1 DEF Twins, r, r2
<1>2. CASE d = "path_globs"
  <2> DEFINE globs == c.path_globs
  <2>1. ResourcePath(r) = r.path /\ ResourcePath(r2) = r2.path
    BY <1>1 DEF ResourcePath
  <2>2. r.path # Null /\ r2.path # Null
    BY DEF Lies
  <2>3. Listed(globs) => AnchoredGlobs(globs)
    BY DEF Anchored, AnchoredGlobs, Listed
  <2>4. Listed(globs) =>
          (PathMatches(globs, cr.relative, r.path, req.context.working_directory) <=>
           PathMatches(globs, cr.relative, r2.path, req2.context.working_directory))
    BY <2>3, SameMatch
  <2>5. Holds(d, cr, req) <=>
          ~ Listed(globs) \/ (ResourcePath(r) # Null /\
             PathMatches(globs, cr.relative, ResourcePath(r), req.context.working_directory))
    BY <1>2, Zenon DEF Holds
  <2>6. Holds(d, cr, req2) <=>
          ~ Listed(globs) \/ (ResourcePath(r2) # Null /\
             PathMatches(globs, cr.relative, ResourcePath(r2), req2.context.working_directory))
    BY <1>2, Zenon DEF Holds
  <2> HIDE DEF globs, r, r2
  <2> QED BY <2>1, <2>2, <2>4, <2>5, <2>6
<1>3. CASE d # "path_globs"
  BY <1>1, <1>3 DEF Holds, Dimensions, DimensionOrder, OneOf, ArgumentsHold, PortsHold
<1> QED BY <1>2, <1>3

\* Both are valid, or both have the same first fault.
LEMMA SameFault ==
    ASSUME NEW req, NEW req2, Twins(req, req2), req.resource.kind = "file",
           PathInvariants(req.resource.path), PathInvariants(req2.resource.path),
           PathInvariants(req.context.working_directory),
           PathInvariants(req2.context.working_directory)
    PROVE  Validate(req2) = Validate(req) /\ Baseline(req2.resource) = Baseline(req.resource)
<1>1. /\ req2.request_id = req.request_id /\ req2.subject = req.subject
      /\ req2.operation = req.operation /\ req2.resource.kind = "file"
      /\ req2.context.intent = req.context.intent /\ req2.context.parent = req.context.parent
      /\ req2.context.metadata = req.context.metadata
  <2>1. "kind" \in DOMAIN NoResource \ {"path"}
    BY DEF NoResource
  <2> QED BY <2>1 DEF Twins
<1>2. ResourceInvariants(req.resource) /\ ResourceInvariants(req2.resource)
  BY <1>1 DEF ResourceInvariants
<1>3. Compatible(req2.operation.label, req2.resource) <=> Compatible(req.operation.label, req.resource)
  BY <1>1 DEF Compatible
<1>4. ContextInvariants(req2.context) <=> ContextInvariants(req.context)
  BY <1>1 DEF ContextInvariants
<1>5. /\ Unless(Clean(req2.request_id), "request_id") = Unless(Clean(req.request_id), "request_id")
      /\ Unless(SubjectInvariants(req2.subject), "request.subject")
            = Unless(SubjectInvariants(req.subject), "request.subject")
      /\ Unless(OperationInvariants(req2.operation), "request.operation")
            = Unless(OperationInvariants(req.operation), "request.operation")
  BY <1>1
<1>6. /\ Unless(ResourceInvariants(req2.resource), "request.resource")
            = Unless(ResourceInvariants(req.resource), "request.resource")
      /\ Unless(req2.resource.kind # "unknown", "request.resource")
            = Unless(req.resource.kind # "unknown", "request.resource")
      /\ Unless(Compatible(req2.operation.label, req2.resource), "request.operation")
            = Unless(Compatible(req.operation.label, req.resource), "request.operation")
      /\ Unless(ContextInvariants(req2.context), "request.context")
            = Unless(ContextInvariants(req.context), "request.context")
  BY <1>1, <1>2, <1>3, <1>4 DEF Unless
<1>7. Validate(req2) = Validate(req)
  BY <1>5, <1>6, Zenon DEF Validate
<1>8. Baseline(req2.resource) = Baseline(req.resource)
  BY <1>1 DEF Baseline
<1> QED BY <1>7, <1>8

\* Moving the working directory and the path together changes no decision.
LEMMA MovedMeaning ==
    ASSUME NEW e, \A q \in A!Positions(e) : Anchored(A!RuleAt(e, q)),
           NEW req \in Requests, NEW from \in Workspaces, NEW to \in Workspaces,
           req.resource.kind = "file", req.context.working_directory # Null,
           Below(from, req.resource.path), Below(from, req.context.working_directory)
    PROVE  A!Meaning(e, Relocated(req, from, to)) = A!Meaning(e, req)
<1> DEFINE req2 == Relocated(req, from, to)
<1>1. RequestLike(req)
  BY RequestAssumption
<1>2. req.resource.path # Null /\ PathLike(req.resource.path)
      /\ PathLike(req.context.working_directory)
  BY <1>1 DEF RequestLike
<1>3. /\ Twins(req, req2) /\ req2.resource.path = Moved(req.resource.path, from, to)
      /\ req2.context.working_directory = Moved(req.context.working_directory, from, to)
  BY <1>1, RelocatedParts
<1> HIDE DEF req2
<1>4. from \in Seq(STRING) /\ to \in Seq(STRING)
  BY WorkspaceAssumption
<1>5. PICK P \in Seq(STRING) : Lies(req.resource.path, from, P) /\ Lies(req2.resource.path, to, P)
  BY <1>2, <1>3, MovedLies
<1>6. PICK W \in Seq(STRING) : /\ Lies(req.context.working_directory, from, W)
                               /\ Lies(req2.context.working_directory, to, W)
  BY <1>2, <1>3, MovedLies
<1>7. Validate(req2) = Validate(req) /\ Baseline(req2.resource) = Baseline(req.resource)
  BY <1>3, <1>5, <1>6, SameFault DEF Lies
<1>8. ASSUME NEW q \in A!Positions(e)
      PROVE  A!Applies(A!RuleAt(e, q), req2) <=> A!Applies(A!RuleAt(e, q), req)
  <2> DEFINE cr == A!RuleAt(e, q)
  <2>1. Anchored(cr)
    OBVIOUS
  <2> HIDE DEF cr
  <2>2. \A d \in Dimensions : Holds(d, cr, req2) <=> Holds(d, cr, req)
    BY <1>3, <1>4, <1>5, <1>6, <2>1, SameConditions
  <2>3. A!Applies(cr, req2) <=> A!Applies(cr, req)
    BY <2>2, SameHolds, SameDimensions DEF A!Applies
  <2> QED BY <2>3 DEF cr
<1>9. ASSUME NEW effect PROVE A!Winners(e, req2, effect) = A!Winners(e, req, effect)
  BY <1>8 DEF A!Winners
<1>10. A!Validate(req2) = A!Validate(req) /\ A!Baseline(req2.resource) = A!Baseline(req.resource)
  BY <1>7, SameValidate, SameBaseline
<1>11. A!Meaning(e, req2) = A!Meaning(e, req)
  BY <1>9, <1>10 DEF A!Meaning
<1> QED BY <1>11 DEF req2

\* Relative patterns that begin with a name mean the same wherever the workspace
\* lies, for every engine, request and pair of workspaces (RelocationInvariant).
THEOREM WorkspacesMove == Spec => []RelocationInvariant
<1>1. RelocationInvariant
  BY MovedMeaning DEF RelocationInvariant
<1> QED BY <1>1, PTL
============================================================================
