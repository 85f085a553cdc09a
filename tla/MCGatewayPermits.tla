-------------------------- MODULE MCGatewayPermits --------------------------
(***************************************************************************)
(* Instances of GatewayPermits for TLC.                                    *)
(***************************************************************************)
EXTENDS GatewayPermits, TLC

CONSTANTS h1, h2, h3, p1, p2

(* Configurations: the defaults of RuntimeConfig, with one flag changed.   *)
Default == [dry_run |-> FALSE, audit_fail_closed |-> TRUE,
            redaction_enabled |-> TRUE]
OnlyDefault == {Default}
EveryFlag == {Default,
              [Default EXCEPT !.dry_run = TRUE],
              [Default EXCEPT !.audit_fail_closed = FALSE],
              [Default EXCEPT !.redaction_enabled = FALSE]}

(* Who serves what.                                                        *)
Endpoints == (h1 :> {"evaluate", "execute"}) @@ (h2 :> {"evaluate", "execute"})
                 @@ (h3 :> {"reload"})

(* Policies are reloaded under the default flags; the others are left to   *)
(* the two agents.                                                         *)
ReloadsByDefault == config = Default \/ hnd'[h3].pc = "idle"
PermitsSpec == Init /\ [][Next /\ ReloadsByDefault]_vars

Symmetry == Permutations({h1, h2}) \cup Permutations(Permits)
=============================================================================
