--------------------------- MODULE MCPolicyEngine ---------------------------
(***************************************************************************)
(* Documents and requests for TLC: every condition of a rule occurs in a   *)
(* document and is met by one request and missed by another; every check   *)
(* of validate refuses a request or a document.                            *)
(***************************************************************************)
EXTENDS PolicyEngine

MCOversized == {"long"}
MCDirty == {"nul"}
MCIdents == {"HOME"}
MCLowerCase == [t \in {"API"} |-> "api"]
MCBasenames == [t \in {"/usr/bin/Python3.EXE"} |-> "python3"]
MCMaxPatterns == [n \in ListNames |-> 1]
MCBadGlobs == {[root |-> "none", segs |-> <<"[">>]}
MCBadArguments == {<<"[">>}
MCSlashed == {"/etc"}

With(c) == [d \in DOMAIN NoConditions |-> IF d \in DOMAIN c THEN c[d] ELSE NoConditions[d]]
R(id, effect, c) == [id |-> id, effect |-> effect, conditions |-> With(c)]
Doc(id, default, rules) == [large |-> FALSE, parses |-> TRUE, schema_version |-> 1,
                            id |-> id, default_effect |-> default, rules |-> rules]
Rel(segs) == [root |-> "none", segs |-> segs]
Abs(segs) == [root |-> "slash", segs |-> segs]

Sources == [path_globs |-> <<Rel(<<"src", "**">>)>>]
Tools == Doc("tools", "require_approval",
    <<R("r1", "allow", [executables |-> <<"ls">>,
          argument_rules |-> [deny_if_matches |-> <<<<"-R">>>>, require_match |-> <<<<"*">>>>]]),
      R("r2", "deny", [agent_ids |-> {"mallory"}]),
      R("r3", "require_approval", [network_hosts |-> <<"api">>, network_ports |-> <<0>>])>>)
Code == Doc("code", "deny",
    <<R("r4", "allow", Sources),
      R("r5", "require_approval", [operations |-> {"file_write"}, path_globs |->
            <<Rel(<<"src", "*">>)>>, min_trust_level |-> "standard"]),
      R("r1", "deny", [intent_prefix |-> <<"drop">>, resource_kinds |-> {"file"},
            required_capabilities |-> {"files"}])>>)
Secrets == Doc("secrets", "deny",
    <<R("r6", "allow", [secret_identifiers |-> <<"key">>]),
      R("r7", "allow", [tool_identifiers |-> <<"lint">>]),
      R("r8", "deny", [path_globs |-> <<Rel(<<"*", "env">>)>>]),
      R("r9", "allow", [network_schemes |-> <<"https">>])>>)

MCWorkspaces == {<<>>, <<"w">>, <<"v", "w">>}

MCDocuments ==
    {Tools, Code, Secrets,
     [Code EXCEPT !.large = TRUE],
     [Tools EXCEPT !.parses = FALSE],
     Doc("v", "deny", <<R("r0", "allow", [argument_rules |->
            [deny_if_matches |-> <<>>, require_match |-> Null]])>>),
     Doc("x", "deny", <<R("r0", "allow", [argument_rules |->
            [deny_if_matches |-> <<<<"[">>>>, require_match |-> Null]])>>),
     Doc("w", "deny", <<R("r0", "allow", [path_globs |-> <<Rel(<<"[">>)>>])>>)}

Agent(id, trust, caps) == [agent_id |-> id, session_id |-> "s", display_name |-> Null,
                           trust_level |-> trust, capabilities |-> caps]
Alice == Agent("alice", "standard", {"files"})
Op(label) == [label |-> label, tool_id |-> "lint", destination |-> Null]
NoMetadata == [k \in {} |-> ""]
In(wd) == [working_directory |-> wd, intent |-> Null, parent |-> Null,
           metadata |-> NoMetadata, dry_run |-> FALSE]
Req(subject, op, resource, context) ==
    [request_id |-> "q", subject |-> subject, operation |-> Op(op),
     resource |-> resource, context |-> context]

W == NormalizedPath(Abs(<<"w">>))
VW == NormalizedPath(Abs(<<"v", "w">>))
SrcFile == File(Abs(<<"w", "x", "..", "src", "a">>))
Untracked == File(Abs(<<"v", "w", "src", "d", "a">>))

MCRequests ==
    {Req(Alice, "file_read", SrcFile, In(W)),
     Req(Alice, "file_write", Untracked, In(VW)),
     Req(Alice, "file_write", SrcFile, In(W)),
     Req(Agent("alice", "untrusted", {}), "file_write", SrcFile, In(W)),
     Req(Alice, "file_read", SrcFile, [In(W) EXCEPT !.intent = <<"drop", "all">>]),
     Req(Alice, "file_read", File(Rel(<<"src", "a">>)), In(Null)),
     Req(Alice, "directory_list", SrcFile, In(W)),
     Req(Alice, "file_delete", File(Abs(<<"env">>)), In(W)),
     Req(Alice, "command_execute", Command("ls", <<<<"-l">>>>), In(W)),
     Req(Alice, "command_execute", Command("ls", <<<<"-R">>>>), In(W)),
     Req(Alice, "command_execute", Command("ls", <<<<"/etc">>>>), In(W)),
     Req(Alice, "file_read", File(Abs(<<>>)), In(NormalizedPath(Abs(<<>>)))),
     Req(Alice, "file_read", File(Abs(<<"w", "nul">>)), In(W)),
     Req(Alice, "command_execute", Command("ls", <<<<"$", "HOME">>>>), In(W)),
     Req(Alice, "command_execute", Command("ls", <<<<"x", ">", "y">>>>), In(W)),
     Req(Alice, "command_execute", Command("/usr/bin/Python3.EXE", <<<<"-c">>>>), In(W)),
     Req(Agent("mallory", "system", {}), "command_execute", Command("ls", <<>>), In(Null)),
     Req(Alice, "network_request", NetworkEndpoint("https", "API", Null, Abs(<<>>)), In(W)),
     Req(Alice, "secret_access", Secret("key"), In(W)),
     Req(Alice, "secret_access", Secret("nul"), In(W)),
     Req(Alice, "tool_invoke", ExternalTool("lint"), In(W)),
     Req(Alice, "tool_invoke", NoResource, In(W)),
     Req(Alice, "secret_access", Secret("key"),
         [In(W) EXCEPT !.metadata = [k \in {"a", "b"} |-> "v"]])}
=============================================================================
