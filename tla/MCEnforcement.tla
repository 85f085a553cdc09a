---------------------------- MODULE MCEnforcement ----------------------------
(***************************************************************************)
(* The three adapters of the runtime.  They share no state, so a behaviour *)
(* exercises one of them; the file system has two sets of requests.        *)
(***************************************************************************)
EXTENDS FilesystemEnforcer, CommandEnforcer, NetworkEnforcer, TLC

VARIABLE adapter   \* what a behaviour exercises

MCOversized == {"long"}
MCDirty == {"nul"}
MCIdents == {"HOME"}
MCLowerCase == [t \in {"RM", "-RF", "Cookie"} |->
                    CASE t = "RM" -> "rm" [] t = "-RF" -> "-rf" [] OTHER -> "cookie"]
MCFileNames == [t \in {"/bin/SH.exe"} |-> "sh"]
MCOutputLimit == [s \in Streams |-> IF s = "stdout" THEN 3 ELSE 1]

Cmd(exe, args) == [valid |-> TRUE, operation |-> "command_execute", executable |-> exe,
                   arguments |-> args, working_directory |-> "none", env_vars |-> <<>>,
                   dry_run |-> FALSE, timeout_seconds |-> 60]
Ls == Cmd("ls", <<<<"-l">>>>)
MCCommands ==
    {Ls, [Ls EXCEPT !.timeout_seconds = 0], [Ls EXCEPT !.dry_run = TRUE],
     [Ls EXCEPT !.valid = FALSE], [Ls EXCEPT !.operation = "file_read"],
     [Ls EXCEPT !.working_directory = "outside"], [Ls EXCEPT !.working_directory = "missing"],
     [Ls EXCEPT !.env_vars = <<"A", "A">>], [Ls EXCEPT !.env_vars = <<"nul">>],
     Cmd("/bin/SH.exe", <<>>), Cmd("a b", <<>>), Cmd("mkfs", <<>>), Cmd("npm", <<>>),
     Cmd("RM", <<<<"-RF">>>>), Cmd("git", <<<<"push">>, <<"clean">>>>),
     Cmd("git", <<<<"reset">>, <<"--hard">>>>), Cmd("kill", <<<<"-KILL">>>>),
     Cmd("ls", <<<<"a", ">", "b">>>>), Cmd("ls", <<<<>>>>), Cmd("ls", <<<<"-enc">>>>),
     Cmd("ls", <<<<"a">>, <<"b">>, <<"c">>>>)}

Public == V4(<<8, 8, 8, 8>>)
Local == V4(<<127, 0, 0, 1>>)
Mapped == V6(<<0, 0, 0, 0, 0, 65535, 169 * 256 + 254, 169 * 256 + 254>>)
MCAnswers == {<<>>, <<Public>>, <<Local>>, <<Public, V4(<<172, 31, 0, 1>>)>>,
              <<V4(<<100, 128, 0, 1>>)>>, <<V4(<<172, 32, 0, 1>>), Public>>, <<Mapped>>,
              <<V6(<<0, 0, 0, 0, 0, 0, 0, 1>>)>>, <<V6(<<8193, 0, 0, 0, 0, 0, 0, 1>>)>>}
Url(scheme, host) == [scheme |-> scheme, host |-> host]
Loc == [form |-> "absolute", scheme |-> "https", userinfo |-> <<>>, host |-> "b"]
MCLocations == {Loc, [Loc EXCEPT !.scheme = "http"], [Loc EXCEPT !.host = "metadata"],
                [Loc EXCEPT !.userinfo = <<"b">>], [Loc EXCEPT !.form = "relative"],
                [Loc EXCEPT !.userinfo = <<"b", "x">>, !.host = "metadata"],
                [Loc EXCEPT !.userinfo = <<"metadata", "x">>]}
Get == [valid |-> TRUE, operation |-> "network_request", url |-> Url("https", "a"),
        headers |-> {}, body |-> 0, no_redirect |-> FALSE, body_limit |-> 2]
MCEndpoints ==
    {Get, [Get EXCEPT !.no_redirect = TRUE], [Get EXCEPT !.body = 2],
     [Get EXCEPT !.valid = FALSE], [Get EXCEPT !.operation = "file_read"],
     [Get EXCEPT !.headers = {"Cookie"}], [Get EXCEPT !.headers = {"x", "y"}],
     [Get EXCEPT !.url = Url("http", "a")], [Get EXCEPT !.url = Url("ftp", "a")],
     [Get EXCEPT !.url = Url("https", "nul")], [Get EXCEPT !.url = Url("https", "metadata")]}

(***************************************************************************)
(* A workspace "w" with a file, a directory, a link to the directory "o"   *)
(* outside, a link to a file there and a dangling link to a name there.    *)
(***************************************************************************)
MCNames == {"w", "a", "d", "b", "l", "f", "m", "o", "s", "n"}
MCRoot == <<"w">>
MCSuffixes == {"t"}
MCGrowth == {<<"g", "g", "g">>}

Tree ==
    {<< <<>>, Folder>>, << <<"w">>, Folder>>,
     << <<"w", "a">>, Regular(<<"a">>)>>, << <<"w", "t">>, Absent>>,
     << <<"w", "a", "n">>, Absent>>, << <<"w", "a", "t">>, Absent>>,
     << <<"w", "d", "b", "n">>, Absent>>, << <<"w", "d", "b", "t">>, Absent>>,
     << <<"w", "d">>, Folder>>, << <<"w", "d", "b">>, Absent>>,
     << <<"w", "d", "t">>, Absent>>,
     << <<"w", "l">>, LinkTo(<<"o">>)>>, << <<"w", "f">>, LinkTo(<<"o", "s">>)>>,
     << <<"w", "m">>, LinkTo(<<"o", "n">>)>>,
     << <<"o">>, Folder>>, << <<"o", "s">>, Regular(<<"s">>)>>,
     << <<"o", "n">>, Absent>>, << <<"o", "t">>, Absent>>}
MCStart == [p \in {e[1] : e \in Tree} |-> (CHOOSE e \in Tree : e[1] = p)[2]]

In(segs) == [absolute |-> FALSE, segs |-> segs]
Req(op, path) == [valid |-> TRUE, op |-> op, path |-> path, dest |-> Null,
                  max_bytes |-> Null, payload |-> Null]
Write(path, payload) == [Req("file_write", path) EXCEPT !.payload = payload]
MoveTo(path, dest) == [Req("file_move", path) EXCEPT !.dest = dest]

A == In(<<"a">>)
B == In(<<"d", "b">>)
D == In(<<"d">>)

MCFileRequests ==
    {Req("file_read", A), [Req("file_read", A) EXCEPT !.max_bytes = 1],
     Write(A, <<"x", "x">>), Write(A, <<"y", "y">>), Write(A, <<"z", "z", "z">>),
     Req("file_create", B), Req("file_create", In(<<"l", "n">>)),
     Req("file_create", In(<<"m">>)),
     Req("file_delete", A), Req("file_delete", In(<<"f">>)),
     MoveTo(A, B), MoveTo(A, In(<<"l", "n">>)), MoveTo(A, In(<<"m">>)),
     Req("directory_list", D), Req("directory_list", In(<<>>)),
     Req("directory_create", B), Req("directory_delete", D),
     Write(In(<<"f">>), <<"x", "x">>),
     Req("file_read", [absolute |-> TRUE, segs |-> <<"a">>]),
     Req("file_write", A), Write(A, <<>>), [Req("file_read", A) EXCEPT !.payload = <<"x">>],
     Req("file_move", A), Req("command_execute", A),
     [Req("file_read", A) EXCEPT !.valid = FALSE]}

\* What it takes for a directory with a file in it to take the place of the
\* source of a move, and to be removed.
MCMoveRequests ==
    {MoveTo(A, B), Req("file_delete", A), Req("directory_create", A),
     Req("file_create", In(<<"a", "n">>)), Write(In(<<"a", "n">>), <<"x", "x">>),
     Req("file_create", B), Req("directory_delete", A), Req("directory_delete", D),
     Req("directory_create", B)}

MCRequests == MCFileRequests \cup MCMoveRequests

\* Permits are interchangeable, so they are used in their order; a crash takes
\* all of them.  The requests of "file" use two, those of "move" four.
Scenario ==
    /\ consumed' \in {1 .. n : n \in IF adapter = "move" THEN 0 .. 4 ELSE {0, 1, 2, 4}}
    /\ \A w \in Workers :
          job'[w].req \in {Null} \cup (IF adapter = "move" THEN MCMoveRequests
                                       ELSE MCFileRequests)

Init == /\ FileInit /\ CommandInit /\ NetworkInit
        /\ adapter \in {"file", "move", "command", "network"}
Next == /\ \/ /\ adapter \in {"file", "move"} /\ FileNext /\ Scenario
              /\ UNCHANGED <<commandVars, networkVars>>
           \/ adapter = "command" /\ CommandNext /\ UNCHANGED <<fileVars, networkVars>>
           \/ adapter = "network" /\ NetworkNext /\ UNCHANGED <<fileVars, commandVars>>
        /\ UNCHANGED adapter
Spec == /\ Init /\ [][Next]_<<fileVars, commandVars, networkVars, adapter>>
        /\ CommandFairness /\ NetworkFairness
=============================================================================
