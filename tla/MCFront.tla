------------------------------- MODULE MCFront -------------------------------
(***************************************************************************)
(* What stands between the runtime and the outside: the MCP proxy, the     *)
(* layers of the gateway, the redactor and the two sources of the          *)
(* dashboard.  A behaviour exercises one of them.  Clients are             *)
(* interchangeable, so the kinds of their requests come in order.          *)
(***************************************************************************)
EXTENDS Redactor, McpProxy, GatewayFront, DashboardFeed, TLC

CONSTANT Components

VARIABLE component

MCWords == [w \in {"bearer", "pwd", "short", "long", "ghp", "eyJ", "dense"} |->
                IF w = "short" THEN 4 ELSE 9]
MCTokens == [c \in {"jwt", "github_token", "aws_key_id", "entropy_candidate"} |->
                CASE c = "jwt" -> {"eyJ"} [] c = "github_token" -> {"ghp"}
                  [] c = "aws_key_id" -> {} [] OTHER -> {"dense"}]
MCSecrets == {<<"short">>, <<"long", " ", "short">>, <<>>, <<"long", " ", "long", " ">>}
MCDetectorSets == {DefaultDetectors, Detectors}

\* Two words are never adjacent, and a PEM delimiter is not part of a bearer token.
WellFormed(text) ==
    \A i \in 1 .. Len(text) - 1 :
        ~ (IsWord(text[i]) /\ IsWord(text[i + 1]))
MCInputs ==
    {text \in UNION {[1 .. n -> {"bearer", "pwd", "short", "long", "ghp", "dense",
                                 " ", "=", ":", "'", "BEGIN", "END"}] : n \in 0 .. 3} :
        WellFormed(text)}
    \cup {text \in [1 .. 6 -> {"bearer", "pwd", "long", " ", "="}] : WellFormed(text)}
    \cup {text \in [1 .. 5 -> {"BEGIN", "END", "short", "long", " "}] : WellFormed(text)}
    \cup {[i \in 1 .. 7 |-> "="]}

\* Documents of the two sides of the proxy.
Doc == [json |-> TRUE, keys |-> {"id", "method"}, jsonrpc |-> "2.0", fits |-> TRUE, lines |-> 1,
        method |-> "initialize", tool |-> "none", params |-> "ok",
        value |-> [p \in {} |-> <<>>], tools |-> {}, source |-> 0]
ToolCall == [Doc EXCEPT !.method = "tools/call", !.tool = "echo"]
MCClientDocs ==
    {[Doc EXCEPT !.method = "tools/list"], [Doc EXCEPT !.lines = 2], ToolCall,
     [ToolCall EXCEPT !.tool = "other"], [ToolCall EXCEPT !.params = "bad"],
     [ToolCall EXCEPT !.keys = {"method"}], [Doc EXCEPT !.keys = {"id", "result"}],
     [Doc EXCEPT !.jsonrpc = "1.0"]}
Result == [Doc EXCEPT !.keys = {"id", "result"}, !.tools = {"echo"},
                      !.value = [p \in {<<"text">>, <<"token", "a">>} |-> <<"ghp">>]]
MCReplies == {Result, [Result EXCEPT !.lines = 2], [Result EXCEPT !.keys = {"id", "error"}]}
MCChatter == {[Doc EXCEPT !.keys = {"method"}], [Doc EXCEPT !.json = FALSE], Result}

\* Files, environments, tokens and requests of the gateway.
Key(k, v) == [x \in {k} |-> v]
NoKeys == [x \in {} |-> 0]
File(keys) == [missing |-> FALSE, keys |-> keys]
MCFiles ==
    {File(NoKeys), [missing |-> TRUE, keys |-> NoKeys], File(Key("bind", "0.0.0.0:80")),
     File(Key("fail_closed", FALSE)), File(Key("max_pending", 9)),
     File(Key("request_body_limit", 9)), File(Key("bind", Unreadable))}
MCEnvironments ==
    {NoKeys, Key("request_timeout_seconds", 0), Key("bind", "no"),
     Key("bind", "[::1]:80") @@ Key("verify_on_startup", FALSE),
     Key("redaction_enabled", FALSE), Key("allow_non_loopback", TRUE),
     Key("default_ttl_seconds", Unreadable)}
Token == [len |-> 64, hex |-> TRUE, raw |-> "good"]
MCCredentials == {Token, [Token EXCEPT !.len = 63], Unreadable}
Fine == [policies |-> TRUE, runtime |-> TRUE, chain_valid |-> TRUE, port |-> TRUE]
MCWorlds == {Fine, [Fine EXCEPT !.chain_valid = FALSE], [Fine EXCEPT !.policies = FALSE],
             [Fine EXCEPT !.runtime = FALSE], [Fine EXCEPT !.port = FALSE]}
Ask == [api |-> TRUE, preflight |-> FALSE, auth |-> Token, body |-> 1, sized |-> TRUE,
        handler |-> "prompt"]
MCKinds == {Ask, [Ask EXCEPT !.handler = "stalled"],
            [Ask EXCEPT !.auth = Unreadable, !.body = 2],
            [Ask EXCEPT !.body = 3, !.sized = FALSE],
            [Ask EXCEPT !.auth = Unreadable, !.body = 0, !.preflight = TRUE]}
Rank(kind) == kind.body + (IF kind.handler = "stalled" THEN 4 ELSE 0)

Init ==
    /\ ProxyInit /\ FrontInit /\ FeedInit /\ RedactorInit
    /\ component \in Components
    /\ IF component # "http" THEN http = [c \in Clients |-> Fresh(Ask)]
       ELSE /\ \A b, c \in Clients : b < c => Rank(http[b].kind) <= Rank(http[c].kind)
            /\ \E c \in Clients : http[c].kind.handler = "stalled"
            /\ Cardinality({c \in Clients : http[c].kind.body # 1}) < 2
Next ==
    /\ \/ component = "mcp" /\ ProxyNext /\ UNCHANGED <<frontVars, feedVars, redactorVars>>
       \/ component = "http" /\ FrontNext /\ UNCHANGED <<proxyVars, feedVars, redactorVars>>
       \/ component = "feed" /\ FeedNext /\ events' = 0
             /\ UNCHANGED <<proxyVars, frontVars, redactorVars>>
       \/ component = "audit" /\ FeedNext /\ file' = <<>>
             /\ UNCHANGED <<proxyVars, frontVars, redactorVars>>
       \/ component = "redaction" /\ RedactorNext /\ UNCHANGED <<proxyVars, frontVars, feedVars>>
    /\ UNCHANGED component
Spec == /\ Init /\ [][Next]_<<proxyVars, frontVars, feedVars, redactorVars, component>>
        /\ FrontFairness /\ FeedFairness
=============================================================================
