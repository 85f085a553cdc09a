--------------------------- MODULE CommandEnforcer ---------------------------
(***************************************************************************)
(* The command adapter (crates/kavach-enforcement/src/command.rs): the     *)
(* checks before a process is spawned, and the three threads, the child    *)
(* and its descendants that run after it.                                  *)
(*                                                                         *)
(* Executables and argument words are atoms; an argument is the sequence   *)
(* of its words and shell metacharacters.  A flag is in an argument when   *)
(* it is one of the words in lower case; the code looks for it as a part   *)
(* of the text, and so finds it inside longer words too.                   *)
(***************************************************************************)
EXTENDS CoreRequest

CONSTANTS
    Commands,        \* inputs: a command with its CommandInput
    FileNames,       \* [executable -> file name in lower case, without ".exe"]
    BadExecutables,  \* executables with a blank, '|', ';' or "&&" inside
    Encoded,         \* words with "-enc" or "-e " in them
    ParentEnv,       \* names in the environment of the gateway
    AllowedVars,     \* DEFAULT_ALLOWED_VARS, in any case
    DangerousVars,   \* names is_dangerous_var accepts
    MaxArguments, MaxEnvironment,
    CommandPermits,
    OutputLimit,     \* [stream -> limit in bytes]
    Chunk,           \* bytes a reader asks for at a time
    PipeCapacity,    \* bytes a pipe holds
    MaxOutput        \* bound on the bytes a child writes to a stream

ASSUME CommandAssumption ==
    /\ MaxArguments \in Nat /\ MaxEnvironment \in Nat
    /\ Chunk \in Nat \ {0} /\ PipeCapacity \in Nat \ {0} /\ MaxOutput \in Nat
    /\ OutputLimit \in [{"stdout", "stderr"} -> Nat]

VARIABLES
    command,    \* the execution: step of the main thread, input, outcome
    child,      \* "none", "running", "exited" (not waited for) or "reaped"
    descendant, \* a process the child left behind holds the pipes
    pipe,       \* [stream -> bytes queued and written, the reader's bytes]
    deadline,   \* the time is up
    spent       \* permits consumed by this adapter

commandVars == <<command, child, descendant, pipe, deadline, spent>>

Streams == {"stdout", "stderr"}
NewPipe == [queued |-> 0, written |-> 0, got |-> 0, reader |-> "off"]
Ended(outcome) == [step |-> "returned", input |-> Null, outcome |-> outcome]

CommandInit ==
    /\ command = Ended("none")
    /\ child = "none"
    /\ descendant = FALSE
    /\ pipe = [s \in Streams |-> NewPipe]
    /\ deadline = FALSE
    /\ spent = {}

-----------------------------------------------------------------------------
(***************************************************************************)
(* The checks.                                                             *)
(***************************************************************************)
FileName(exe) == IF exe \in DOMAIN FileNames THEN FileNames[exe] ELSE Lower(exe)

ShellExecutables == {"cmd", "powershell", "pwsh", "sh", "bash", "zsh", "fish", "dash", "ksh"}
ForbiddenExecutables == {"format", "mkfs", "diskpart", "fdisk"}
ElevatedExecutables == {"npm", "yarn", "pip", "pip3", "docker", "kubectl"}

\* validate_executable.
ExecutableFault(exe) ==
    FirstFault(<<Unless(Clean(exe) /\ exe \notin BadExecutables, "invalid_executable"),
                 Unless(FileName(exe) \notin ShellExecutables, "shell_execution_rejected")>>)

\* validate_arguments: the fault of one argument.
ArgumentFault(arg) ==
    LET words == {arg[i] : i \in DOMAIN arg}
    IN  FirstFault(<<Unless(words \cap Oversized = {} /\ arg # <<>>, "invalid_request"),
                     Unless(words \cap Dirty = {}, "shell_execution_rejected"),
                     Unless(ScanShell(arg) = <<>>, "shell_execution_rejected"),
                     Unless({Lower(x) : x \in words} \cap Encoded = {},
                            "shell_execution_rejected")>>)

ArgumentsFault(args) ==
    IF Len(args) > MaxArguments THEN "invalid_request"
    ELSE FirstFault([i \in DOMAIN args |-> ArgumentFault(args[i])])

HasFlag(args, flag) == \E i \in DOMAIN args : \E j \in DOMAIN args[i] : Lower(args[i][j]) = flag
Exactly(args, i, word) == i \in DOMAIN args /\ args[i] = <<word>>
Anywhere(args, words) == \E i \in DOMAIN args : \E x \in words : args[i] = <<x>>

\* DESTRUCTIVE_PATTERNS: the names and the flags of each; no flag means that
\* the name alone is enough.  The arguments are put in lower case and the
\* flags are not, so those with capitals are never found.
DestructivePatterns ==
    {<<{"rm"}, {"-r", "-f", "-rf", "-fr", "--recursive", "--force"}>>,
     <<{"rmdir"}, {"/s", "/S", "-r", "--recursive"}>>,
     <<{"del"}, {"/f", "/F", "/s", "/S", "/q", "/Q"}>>,
     <<{"Remove-Item"}, {"-Recurse", "-Force", "-recurse", "-force"}>>,
     <<{"dd"}, {"of=/dev/", "if=/dev/"}>>,
     <<{"shutdown", "reboot"}, {}>>,
     <<{"chmod", "chown"}, {"777", "-R", "-r", "--recursive"}>>,
     <<{"kill", "pkill", "taskkill"}, {"-9", "-KILL", "/f", "/F"}>>,
     <<{"sudo", "su", "runas"}, {}>>,
     <<{"git"}, {"reset", "checkout", "clean", "branch", "push"}>>,
     <<{"curl", "wget"}, {"|", "sh", "bash", "cmd"}>>,
     <<{"powershell", "pwsh"}, {"Invoke-Expression", "iex", "Invoke-WebRequest", "iwr",
                                "DownloadString", "DownloadFile"}>>,
     <<{"netsh", "iptables"}, {}>>,
     <<{"reg", "regedit"}, {"add", "delete", "/d", "/f"}>>,
     <<{"sc", "systemctl"}, {"stop", "disable", "delete"}>>}

\* is_destructive_git: the first word that decides; "push" always does.
DestructiveGit(args) ==
    LET decides(i) ==
            \/ Exactly(args, i, "reset") /\ Exactly(args, i + 1, "--hard")
            \/ Exactly(args, i, "clean") /\ Anywhere(args, {"-f", "-fd", "-df"})
            \/ /\ Exactly(args, i, "checkout") /\ Exactly(args, i + 1, "--")
               /\ Exactly(args, i + 2, ".")
            \/ Exactly(args, i, "branch") /\ Anywhere(args, {"-D"})
            \/ Exactly(args, i, "push") /\ Anywhere(args, {"--force", "-f"})
    IN  \E i \in DOMAIN args : /\ decides(i)
                               /\ \A j \in 1..(i - 1) : ~ Exactly(args, j, "push")

\* classify_risk.
ClassifyRisk(exe, args) ==
    LET name == FileName(exe)
        flagged(pat) == /\ name \in pat[1]
                        /\ \/ pat[2] = {}
                           \/ \E flag \in pat[2] : HasFlag(args, flag)
                        /\ name = "git" => DestructiveGit(args)
    IN  CASE name \in ForbiddenExecutables -> "forbidden"
          [] \E pat \in DestructivePatterns : flagged(pat) -> "destructive"
          [] name \in ElevatedExecutables -> "elevated"
          [] OTHER -> "low"

\* resolve_working_directory, by where the directory leads.
WorkingDirectoryFault(wd) ==
    CASE wd \in {"absolute", "outside"} -> "workspace_escape"
      [] wd \in {"missing", "not_a_directory"} -> "invalid_working_directory"
      [] wd \in {"none", "inside"} -> "ok"

\* build_environment: what the gateway has is filtered, what the caller gives
\* is checked for its form only, and a name that comes twice counts twice.
Inherited == {v \in ParentEnv : v \in AllowedVars /\ v \notin DangerousVars}
EnvironmentFault(extra) ==
    IF \/ \E i \in DOMAIN extra : ~ Clean(extra[i])
       \/ Cardinality(Inherited) + Len(extra) > MaxEnvironment
    THEN "invalid_environment" ELSE "ok"

\* execute, steps 4 to 9: the first check that fails.
CommandFault(in) ==
    LET risk == ClassifyRisk(in.executable, in.arguments)
    IN  FirstFault(<<ExecutableFault(in.executable), ArgumentsFault(in.arguments),
                     WorkingDirectoryFault(in.working_directory),
                     Unless(risk # "forbidden", "forbidden_command"),
                     Unless(risk # "destructive", "destructive_approval_required"),
                     Unless(~ in.dry_run, "dry_run"),
                     EnvironmentFault(in.env_vars)>>)

-----------------------------------------------------------------------------
(***************************************************************************)
(* Execution.                                                              *)
(***************************************************************************)
CommandReturn(outcome) ==
    command' = Ended(outcome) /\ UNCHANGED <<child, descendant, pipe, deadline>>

\* execute: the permit is consumed before the command is looked at.
ExecuteCommand(in, p, expired, matches) ==
    /\ command.step = "returned"
    /\ IF ~ in.valid THEN CommandReturn("invalid_request") /\ UNCHANGED spent
       ELSE IF in.operation # "command_execute"
       THEN CommandReturn("unsupported_operation") /\ UNCHANGED spent
       ELSE IF expired THEN CommandReturn("permit_expired") /\ UNCHANGED spent
       ELSE IF p \in spent THEN CommandReturn("permit_consumed") /\ UNCHANGED spent
       ELSE IF ~ matches THEN CommandReturn("invalid_permit") /\ UNCHANGED spent
       ELSE /\ spent' = spent \cup {p}
            /\ IF CommandFault(in) # "ok" THEN CommandReturn(CommandFault(in))
               ELSE /\ command' = [step |-> "spawn", input |-> in, outcome |-> "none"]
                    /\ UNCHANGED <<child, descendant, pipe, deadline>>

\* spawn, then one reader thread for each stream; a timeout of zero is up at
\* once.
Spawn(fails) ==
    /\ command.step = "spawn"
    /\ IF fails THEN CommandReturn("spawn_failed")
       ELSE /\ command' = [command EXCEPT !.step = "wait"]
            /\ child' = "running"
            /\ pipe' = [s \in Streams |-> [NewPipe EXCEPT !.reader = "open"]]
            /\ deadline' = (command.input.timeout_seconds = 0)
            /\ descendant' = FALSE
    /\ UNCHANGED spent

ReadersDone == \A s \in Streams : pipe[s].reader # "open"

\* The output is collected before the child is waited for.
WaitTimeout_JoinFirst(fails) ==
    /\ command.step = "wait" /\ ReadersDone
    /\ \/ fails /\ command' = [command EXCEPT !.step = "kill", !.outcome = "process_failed"]
                /\ UNCHANGED child
       \/ ~ fails /\ child = "exited"
            /\ command' = [command EXCEPT !.step = "join", !.outcome = "ok"]
            /\ child' = "reaped"
       \/ ~ fails /\ child = "running" /\ deadline
            /\ command' = [command EXCEPT !.step = "kill", !.outcome = "timeout"]
            /\ UNCHANGED child
    /\ UNCHANGED <<descendant, pipe, deadline, spent>>

\* wait_timeout: try_wait reaps a child that has ended, even after the
\* deadline; an error of try_wait ends in the same kill.
WaitTimeout(fails) ==
    /\ command.step = "wait"
    /\ \/ fails /\ command' = [command EXCEPT !.step = "kill", !.outcome = "process_failed"]
                /\ UNCHANGED child
       \/ ~ fails /\ child = "exited"
            /\ command' = [command EXCEPT !.step = "join", !.outcome = "ok"]
            /\ child' = "reaped"
       \/ ~ fails /\ child = "running" /\ deadline
            /\ command' = [command EXCEPT !.step = "kill", !.outcome = "timeout"]
            /\ UNCHANGED child
    /\ UNCHANGED <<descendant, pipe, deadline, spent>>

\* A child that has ended by itself makes kill fail and is then not waited for.
KillAndReap_NoWait ==
    /\ command.step = "kill"
    /\ child' = IF child = "exited" THEN "exited" ELSE "reaped"
    /\ command' = [command EXCEPT !.step = "join"]
    /\ UNCHANGED <<descendant, pipe, deadline, spent>>

\* kill may fail because the child has just ended; wait reaps it anyway.
\* Descendants are not killed.
KillAndReap ==
    /\ command.step = "kill"
    /\ child' = "reaped"
    /\ command' = [command EXCEPT !.step = "join"]
    /\ UNCHANGED <<descendant, pipe, deadline, spent>>

\* Takes what the readers have so far.
Join_NoWait ==
    /\ command.step = "join"
    /\ command' = Ended(IF command.outcome = "ok"
                           /\ \E s \in Streams : pipe[s].reader = "failed" THEN "io"
                        ELSE command.outcome)
    /\ UNCHANGED <<child, descendant, pipe, deadline, spent>>

\* The scope ends when both readers have; a timeout wins over their errors.
Join ==
    /\ command.step = "join" /\ ReadersDone
    /\ command' = Ended(IF command.outcome = "ok"
                           /\ \E s \in Streams : pipe[s].reader = "failed" THEN "io"
                        ELSE command.outcome)
    /\ UNCHANGED <<child, descendant, pipe, deadline, spent>>

Writers == child = "running" \/ descendant
Least(a, b) == IF a < b THEN a ELSE b

\* read_stream: what one read of n bytes leaves.  What comes after the limit
\* is dropped and ends the loop, which closes the pipe.
AfterRead(q, n, limit) ==
    IF q.got = limit THEN [q EXCEPT !.reader = "closed", !.queued = @ - n]
    ELSE [q EXCEPT !.got = @ + Least(n, limit - q.got), !.queued = @ - n,
                   !.reader = IF n = 0 THEN "closed" ELSE "open"]

\* A read waits for bytes or for the last writer to go, and may fail.
ReadStream(s, fails) ==
    LET n == Least(pipe[s].queued, Chunk)
    IN  /\ pipe[s].reader = "open"
        /\ fails \/ n > 0 \/ ~ Writers
        /\ pipe' = [pipe EXCEPT ![s] = IF fails THEN [@ EXCEPT !.reader = "failed"]
                                       ELSE AfterRead(@, n, OutputLimit[s])]
        /\ UNCHANGED <<command, child, descendant, deadline, spent>>

\* The child: writes when the pipe has room, leaves a descendant that has
\* inherited the pipes, ends.
ChildWrites(s) ==
    /\ child = "running" /\ pipe[s].reader = "open"
    /\ pipe[s].queued < PipeCapacity /\ pipe[s].written < MaxOutput
    /\ pipe' = [pipe EXCEPT ![s].queued = @ + 1, ![s].written = @ + 1]
    /\ UNCHANGED <<command, child, descendant, deadline, spent>>

ChildForks ==
    /\ child = "running" /\ ~ descendant
    /\ descendant' = TRUE
    /\ UNCHANGED <<command, child, pipe, deadline, spent>>

ChildExits ==
    /\ child = "running"
    /\ child' = "exited"
    /\ UNCHANGED <<command, descendant, pipe, deadline, spent>>

DescendantExits ==
    /\ descendant
    /\ descendant' = FALSE
    /\ UNCHANGED <<command, child, pipe, deadline, spent>>

TimePasses ==
    /\ command.step = "wait" /\ ~ deadline
    /\ deadline' = TRUE
    /\ UNCHANGED <<command, child, descendant, pipe, spent>>

CommandNext ==
    \/ \E in \in Commands, p \in CommandPermits, expired, matches \in BOOLEAN :
            ExecuteCommand(in, p, expired, matches)
    \/ \E fails \in BOOLEAN : Spawn(fails) \/ WaitTimeout(fails)
    \/ KillAndReap
    \/ Join
    \/ \E s \in Streams, fails \in BOOLEAN : ReadStream(s, fails)
    \/ \E s \in Streams : ChildWrites(s)
    \/ ChildForks
    \/ ChildExits
    \/ DescendantExits
    \/ TimePasses

CommandSpec == CommandInit /\ [][CommandNext]_commandVars

\* The threads of the gateway and the clock go on; the child and what it leaves
\* behind may run for ever.
CommandFairness ==
    /\ WF_commandVars(\E fails \in BOOLEAN : Spawn(fails))
    /\ WF_commandVars(WaitTimeout(FALSE))
    /\ WF_commandVars(KillAndReap)
    /\ WF_commandVars(Join)
    /\ \A s \in Streams : WF_commandVars(ReadStream(s, FALSE))
    /\ WF_commandVars(TimePasses)

-----------------------------------------------------------------------------
(***************************************************************************)
(* Properties.                                                             *)
(***************************************************************************)

\* When execute returns, the child has been waited for, whether it ended by
\* itself, at the deadline or in the moment before the kill.
ChildReaped == command.step = "returned" => child \in {"none", "reaped"}

\* A command that ends by itself has its output returned up to the limit and
\* nothing of it is lost in the pipe.
OutputComplete ==
    command.step = "returned" /\ command.outcome = "ok" =>
        \A s \in Streams : pipe[s].got = Least(pipe[s].written, OutputLimit[s])

\* A spawned command returns although its child never ends, is quiet, or
\* blocks on a full pipe: the readers drain while the main thread waits.  The one
\* thing that may hold it for ever is a process the child left behind with its
\* end of the pipes, after the child itself is reaped (the comment at
\* command.rs:865 takes the pipes to be closed by then).
CommandReturns ==
    <>[](command.step = "join" /\ descendant)
        \/ (command.step = "wait" ~> command.step = "returned")
=============================================================================
