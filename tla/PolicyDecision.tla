--------------------------- MODULE PolicyDecision ---------------------------
(***************************************************************************)
(* What the policy engine promises: the decision on a request is a         *)
(* function of the request and of the set of rules in force, and neither   *)
(* the order of the rules nor the way they are visited matters.            *)
(***************************************************************************)
EXTENDS PolicyRules

CONSTANTS Requests, NoEngine, NoAnswer

VARIABLES
    engine,   \* the compiled policies, in order, or NoEngine
    answer    \* the decision that is returned and its request, or NoAnswer

\* Every condition of the rule holds.
Applies(cr, req) == \A d \in Dimensions : Holds(d, cr, req)

Positions(e) == UNION {{<<p, r>> : r \in DOMAIN e[p].rules} : p \in DOMAIN e}
RuleAt(e, q) == e[q[1]].rules[q[2]]

Winners(e, req, effect) ==
    {RuleAt(e, q).rule.id : q \in {x \in Positions(e) :
        RuleAt(e, x).rule.effect = effect /\ Applies(RuleAt(e, x), req)}}

Decision(effect, reason, ids) == [effect |-> effect, reason |-> reason, ids |-> ids]

DefaultDecision(e) ==
    LET default == IF e = <<>> THEN "deny" ELSE e[1].default_effect
    IN  Decision(default, IF default = "deny" THEN "deny_default" ELSE "approval_required", {})

\* Invalid request, baseline, deny, approval, allow, default: in this order.
Meaning(e, req) ==
    CASE Validate(req) # "ok" -> Decision("deny", "deny_invalid_request", {})
      [] Validate(req) = "ok" /\ Baseline(req.resource) # Null ->
            Decision("deny", "deny_explicit_rule", {Baseline(req.resource)})
      [] OTHER ->
            IF Winners(e, req, "deny") # {}
            THEN Decision("deny", "deny_explicit_rule", Winners(e, req, "deny"))
            ELSE IF Winners(e, req, "require_approval") # {}
            THEN Decision("require_approval", "approval_required",
                          Winners(e, req, "require_approval"))
            ELSE IF Winners(e, req, "allow") # {}
            THEN Decision("allow", "allow_policy_match", Winners(e, req, "allow"))
            ELSE DefaultDecision(e)

Init == engine = NoEngine /\ answer = NoAnswer

\* A new engine takes the place of the old one; its rule ids are distinct.
Install ==
    /\ engine' # NoEngine
    /\ \A q1, q2 \in Positions(engine') :
            RuleAt(engine', q1).rule.id = RuleAt(engine', q2).rule.id => q1 = q2
    /\ UNCHANGED answer

Decide(req) ==
    /\ engine # NoEngine /\ answer = NoAnswer
    /\ answer' = [req |-> req, decision |-> Meaning(engine, req)]
    /\ UNCHANGED engine

Return ==
    /\ answer # NoAnswer
    /\ answer' = NoAnswer
    /\ UNCHANGED engine

Next == Install \/ Return \/ (\E req \in Requests : Decide(req))

Spec == Init /\ [][Next]_<<engine, answer>>
=============================================================================
