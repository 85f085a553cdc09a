--------------------------- MODULE GatewayConfig ---------------------------
(***************************************************************************)
(* The layered configuration (crates/kavach-config) and the checks of      *)
(* `kavach serve` and of GatewayBuilder::start before the gateway listens. *)
(*                                                                         *)
(* The file and the environment are partial functions from the keys to     *)
(* values; "" is an empty string and Unreadable a value that does not      *)
(* parse as what its key needs.                                            *)
(***************************************************************************)
EXTENDS Integers, Sequences

CONSTANTS
    Loopback,      \* addresses that is_loopback accepts
    NotAddresses,  \* strings that are no socket address
    Unreadable,
    MaxTtl, MaxPendingApprovals, PlatformMax

ASSUME ConfigAssumption ==
    /\ MaxTtl \in Nat
    /\ MaxPendingApprovals \in Nat
    /\ PlatformMax \in Nat

Defaults == [bind |-> "127.0.0.1:7421", allow_non_loopback |-> FALSE,
             request_body_limit |-> 1, request_timeout_seconds |-> 1,
             fail_closed |-> TRUE, policy_files |-> <<"default-policy.toml">>,
             verify_on_startup |-> TRUE, approval_database |-> "approvals.db",
             default_ttl_seconds |-> 1, max_pending |-> 1, redaction_enabled |-> TRUE]

\* The keys apply_env_overrides reads; the list of policy files is none of them.
EnvKeys == DOMAIN Defaults \ {"policy_files"}

Unusable(layer) == \E k \in DOMAIN layer : layer[k] = Unreadable

\* merge_option and apply_env_overrides: a key that a layer does not give keeps its value.
Layer(upper, lower) ==
    [k \in DOMAIN upper \cup DOMAIN lower |-> IF k \in DOMAIN upper THEN upper[k] ELSE lower[k]]

\* validate.
Validate(cfg) ==
    /\ cfg.fail_closed
    /\ cfg.redaction_enabled
    /\ ~ cfg.allow_non_loopback
    /\ cfg.bind # ""
    /\ cfg.request_body_limit # 0
    /\ cfg.request_timeout_seconds # 0
    /\ cfg.default_ttl_seconds \in 1 .. MaxTtl
    /\ cfg.max_pending \in 1 .. MaxPendingApprovals
    /\ cfg.approval_database # ""

\* Validates what the file says, before the environment has its turn.
LoadConfig_ValidateFile(file, env) ==
    IF file.missing \/ Unusable(file.keys) \/ Unusable(env)
    THEN [err |-> "parse", cfg |-> Defaults]
    ELSE IF ~ Validate(Layer(file.keys, Defaults)) THEN [err |-> "validation", cfg |-> Defaults]
    ELSE [err |-> "ok", cfg |-> Layer(env, Layer(file.keys, Defaults))]

\* load_config: the environment wins over the file, the file over the defaults,
\* and the result is validated.
LoadConfig(file, env) ==
    LET cfg == Layer(env, Layer(file.keys, Defaults))
    IN  IF file.missing THEN [err |-> "io", cfg |-> Defaults]
        ELSE IF Unusable(file.keys) THEN [err |-> "parse", cfg |-> Defaults]
        ELSE IF "max_pending" \in DOMAIN file.keys /\ file.keys.max_pending > PlatformMax
        THEN [err |-> "validation", cfg |-> Defaults]
        ELSE IF Unusable(env) THEN [err |-> "env", cfg |-> Defaults]
        ELSE IF ~ Validate(cfg) THEN [err |-> "validation", cfg |-> Defaults]
        ELSE [err |-> "ok", cfg |-> cfg]

\* A token as the environment or a header gives it: [len, hex, raw].
IsToken(token) == token.len = 64 /\ token.hex

\* validate_bind and is_loopback.
ValidateBind(bind, allow_non_loopback) ==
    bind \notin NotAddresses /\ (bind \in Loopback \/ allow_non_loopback)

\* serve::run and start, up to the listener: the first check that fails ends
\* the program, and the token is looked at before a database is opened.  world
\* says what succeeds: loading the policies, building the runtime, verifying the
\* chain and binding the port.
Serve(file, env, token, world) ==
    LET loaded == LoadConfig(file, env)
        cfg == loaded.cfg
    IN  IF loaded.err # "ok" THEN "invalid_input"
        ELSE IF token = Unreadable THEN "invalid_input"
        ELSE IF ~ IsToken(token) THEN "invalid_input"
        ELSE IF ~ world.policies THEN "policy_error"
        ELSE IF ~ world.runtime THEN "internal_error"
        ELSE IF cfg.verify_on_startup /\ ~ world.chain_valid THEN "audit_error"
        ELSE IF cfg.request_body_limit > PlatformMax THEN "invalid_input"
        ELSE IF ~ ValidateBind(cfg.bind, cfg.allow_non_loopback) THEN "internal_error"
        ELSE IF ~ world.port THEN "internal_error"
        ELSE "listening"
=============================================================================
