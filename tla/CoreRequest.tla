---------------------------- MODULE CoreRequest ----------------------------
(***************************************************************************)
(* The request envelope of crates/kavach-core: resources, lexically        *)
(* normalised paths, the shell-hazard scanner and the deep validation of a *)
(* request that came through serde.                                        *)
(*                                                                         *)
(* Texts are atoms.  What the length and control-byte checks tell apart is *)
(* membership in Oversized and Dirty.  A path is its root and the segments *)
(* between its separators; a command argument is the sequence of its shell *)
(* metacharacters and of the words between them.                           *)
(***************************************************************************)
EXTENDS Naturals, Sequences, FiniteSets

CONSTANTS
    Oversized,    \* texts longer than the limit of their field
    Dirty,        \* texts with a NUL or another control byte
    Idents,       \* words that begin with a letter, a digit or '_'
    LowerCase,    \* [text -> text] for the texts to_lowercase changes
    MaxMetadata,  \* RequestMetadata::MAX_METADATA_ENTRIES
    Null

ASSUME CoreAssumption == MaxMetadata \in Nat

Lower(t) == IF t \in DOMAIN LowerCase THEN LowerCase[t] ELSE t

TrustLevels == <<"untrusted", "restricted", "standard", "trusted", "system">>

FileOps == {"file_read", "file_write", "file_create", "file_delete", "file_move"}
DirectoryOps == {"directory_list", "directory_create", "directory_delete"}
Operations == FileOps \cup DirectoryOps \cup
    {"command_execute", "network_request", "secret_access", "tool_invoke"}

ResourceKinds == {"file", "directory", "command", "network_endpoint", "secret",
                  "external_tool", "unknown"}

\* Non-empty, within its limit, no control bytes: identifiers, tool ids,
\* executables, and the texts that may also be empty.
CleanOrEmpty(t) == t \notin Oversized \cup Dirty
Clean(t) == t # "" /\ CleanOrEmpty(t)

\* The result of a sequence of checks that stop at the first one that fails.
FirstFault(checks) ==
    LET failing == {i \in DOMAIN checks : checks[i] # "ok"}
    IN  IF failing = {} THEN "ok"
        ELSE checks[CHOOSE i \in failing : \A j \in failing : i <= j]
Unless(holds, fault) == IF holds THEN "ok" ELSE fault

-----------------------------------------------------------------------------
(***************************************************************************)
(* Paths.  A raw path is [root, segs]; root is "none" for a relative one,  *)
(* "slash", "backslash" (a leading '\' that is no verbatim marker),        *)
(* "drive", "verbatim" or "unc".                                           *)
(***************************************************************************)
Roots == {"none", "slash", "backslash", "drive", "verbatim", "unc"}

\* One segment of a path on top of the stack of segments before it; a ".." that
\* pops the empty stack is a fault.
PushSegment(top, seg) ==
    CASE seg \in {"", "."} -> top
      [] seg = ".." /\ top.segs = <<>> -> [top EXCEPT !.ok = FALSE]
      [] seg = ".." /\ top.segs # <<>> -> [top EXCEPT !.segs = SubSeq(@, 1, Len(@) - 1)]
      [] OTHER -> [top EXCEPT !.segs = Append(@, seg)]

\* The stack after the first i segments of body.
SegmentStack(body) ==
    LET stack[i \in 0..Len(body)] == IF i = 0 THEN [ok |-> TRUE, segs |-> <<>>]
                                     ELSE PushSegment(stack[i - 1], body[i])
    IN  stack
NormalizeBody(body) == SegmentStack(body)[Len(body)]

\* normalize_lexical keeps the label of a drive, verbatim or UNC prefix and a
\* leading '/'; a leading '\' is one more separator of the body and is lost.
NormalizeLexical(raw) ==
    LET body == NormalizeBody(raw.segs)
    IN  [ok |-> body.ok,
         path |-> [root |-> IF raw.root = "backslash" THEN "none" ELSE raw.root,
                   segs |-> body.segs]]

\* NormalizedPath::new, for a text that passes its checks, which IsPath states.
NormalizedPath(raw) == [raw |-> raw, normalized |-> NormalizeLexical(raw).path,
                        absolute |-> raw.root # "none"]
\* A path is too long or has control bytes when one of its segments has.
CleanSegments(segs) == \A i \in DOMAIN segs : CleanOrEmpty(segs[i])
IsPath(raw) == /\ raw # [root |-> "none", segs |-> <<>>]
               /\ CleanSegments(raw.segs)
               /\ NormalizeLexical(raw).ok

\* validate_invariants: the checks again, and the stored forms are raw's.
PathInvariants(p) == IsPath(p.raw) /\ p = NormalizedPath(p.raw)

-----------------------------------------------------------------------------
(***************************************************************************)
(* The shell-hazard scanner: the constructs of a text in order of          *)
(* appearance, each occurrence once.                                       *)
(***************************************************************************)
Expansions == {"command_substitution", "backtick", "env_var_braced", "env_var"}
ShellHazards == Expansions \cup
    {"subshell_open", "subshell_close", "shell_and", "shell_or", "pipe",
     "semicolon", "redirect_out", "redirect_in"}

\* The construct that begins at position i and how many characters it takes.
HazardAt(arg, i) ==
    LET next == IF i < Len(arg) THEN arg[i + 1] ELSE ""
        one(h) == [hazard |-> <<h>>, len |-> 1]
        two(h) == [hazard |-> <<h>>, len |-> 2]
    IN  CASE arg[i] = "$" /\ next = "(" -> two("command_substitution")
          [] arg[i] = "$" /\ next = "{" -> two("env_var_braced")
          [] arg[i] = "$" /\ next \in Idents -> two("env_var")
          [] arg[i] = "backtick" -> one("backtick")
          [] arg[i] = "(" -> one("subshell_open")
          [] arg[i] = ")" -> one("subshell_close")
          [] arg[i] = "&" -> IF next = "&" THEN two("shell_and") ELSE one("shell_and")
          [] arg[i] = "|" -> IF next = "|" THEN two("shell_or") ELSE one("pipe")
          [] arg[i] = ";" -> one("semicolon")
          [] arg[i] = ">" -> one("redirect_out")
          [] arg[i] = "<" -> one("redirect_in")
          [] OTHER -> [hazard |-> <<>>, len |-> 1]

ScanShell(arg) ==
    LET scan[i \in 1..(Len(arg) + 2)] ==
            IF i > Len(arg) THEN <<>>
            ELSE HazardAt(arg, i).hazard \o scan[i + HazardAt(arg, i).len]
    IN  scan[1]

HazardsOf(arg) == {ScanShell(arg)[i] : i \in DOMAIN ScanShell(arg)}
HasSubstitutionHazard(arg) == HazardsOf(arg) \cap Expansions # {}

-----------------------------------------------------------------------------
(***************************************************************************)
(* Resources and requests.  A resource is a record with its kind and, by   *)
(* kind, path; executable and arguments; scheme, host and port; or         *)
(* identifier; a field its kind does not have is Null.                     *)
(***************************************************************************)
NoResource == [kind |-> "unknown", path |-> Null, executable |-> Null,
               arguments |-> <<>>, scheme |-> Null, host |-> Null,
               port |-> Null, identifier |-> Null]
File(raw) == [NoResource EXCEPT !.kind = "file", !.path = NormalizedPath(raw)]
Directory(raw) == [NoResource EXCEPT !.kind = "directory", !.path = NormalizedPath(raw)]
Command(exe, args) == [NoResource EXCEPT !.kind = "command", !.executable = exe,
                                         !.arguments = args]

\* Labels are compared in lower case.  A request with a label that its type
\* refuses does not come into being.
NetworkScheme(label) == Lower(label)
NetworkHost(label) == Lower(label)
NetworkEndpoint(scheme, host, port, raw) ==
    [NoResource EXCEPT !.kind = "network_endpoint", !.scheme = NetworkScheme(scheme),
                       !.host = NetworkHost(host), !.port = port,
                       !.path = NormalizedPath(raw)]
Secret(id) == [NoResource EXCEPT !.kind = "secret", !.identifier = id]
ExternalTool(id) == [NoResource EXCEPT !.kind = "external_tool", !.identifier = id]

\* Resource::path: the path of a file or a directory, never a network path.
ResourcePath(r) == IF r.kind \in {"file", "directory"} THEN r.path ELSE Null

\* Argument texts are checked like an executable, but may be empty.
CommandInvariants(r) ==
    /\ Clean(r.executable)
    /\ \A i \in DOMAIN r.arguments : \A j \in DOMAIN r.arguments[i] :
            CleanOrEmpty(r.arguments[i][j])

ResourceInvariants(r) ==
    CASE r.kind \in {"file", "directory", "network_endpoint"} -> PathInvariants(r.path)
      [] r.kind = "command" -> CommandInvariants(r)
      [] r.kind \in {"secret", "external_tool"} -> Clean(r.identifier)
      [] r.kind = "unknown" -> TRUE

\* check_operation_resource_compatibility: one resource kind per operation.
Compatible(op, r) ==
    \/ op \in FileOps /\ r.kind = "file"
    \/ op \in DirectoryOps /\ r.kind = "directory"
    \/ op = "command_execute" /\ r.kind = "command"
    \/ op = "network_request" /\ r.kind = "network_endpoint"
    \/ op = "secret_access" /\ r.kind = "secret"
    \/ op = "tool_invoke" /\ r.kind = "external_tool"

\* The bounds serde does not re-check on a plain map.
MetadataInvariants(map) ==
    /\ Cardinality(DOMAIN map) <= MaxMetadata
    /\ \A k \in DOMAIN map : Clean(k) /\ CleanOrEmpty(map[k])

SubjectInvariants(s) ==
    /\ Clean(s.agent_id) /\ Clean(s.session_id)
    /\ s.display_name # Null => CleanOrEmpty(s.display_name)

OperationInvariants(o) ==
    /\ o.label = "tool_invoke" => Clean(o.tool_id)
    /\ o.label = "file_move" /\ o.destination # Null => PathInvariants(o.destination)

ContextInvariants(c) ==
    /\ c.working_directory # Null => PathInvariants(c.working_directory)
    /\ c.intent # Null => \A i \in DOMAIN c.intent : CleanOrEmpty(c.intent[i])
    /\ c.parent # Null => Clean(c.parent)
    /\ MetadataInvariants(c.metadata)

\* ToolRequest::validate: the field of the first violation, or "ok".
Validate(req) ==
    FirstFault(<<Unless(Clean(req.request_id), "request_id"),
                 Unless(SubjectInvariants(req.subject), "request.subject"),
                 Unless(OperationInvariants(req.operation), "request.operation"),
                 Unless(ResourceInvariants(req.resource), "request.resource"),
                 Unless(req.resource.kind # "unknown", "request.resource"),
                 Unless(Compatible(req.operation.label, req.resource), "request.operation"),
                 Unless(ContextInvariants(req.context), "request.context")>>)
=============================================================================
