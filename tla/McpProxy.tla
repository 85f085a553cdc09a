------------------------------ MODULE McpProxy ------------------------------
(***************************************************************************)
(* The MCP proxy (crates/kavach-mcp): one thread reads a message of the    *)
(* client, decides about it, forwards it to the server process and waits   *)
(* for the next message the server writes.                                 *)
(*                                                                         *)
(* A document is what one JSON text says; a line holds a document or a     *)
(* part of one.  The server is external: it answers each request once and  *)
(* in order, may write anything else in between, a response nobody asked   *)
(* for included, and may die.                                              *)
(***************************************************************************)
EXTENDS Redaction

CONSTANTS
    ClientDocs,      \* documents the client sends
    Chatter,         \* documents the server writes unasked
    Replies,         \* the kinds and payloads of the server's answers
    Outcomes,        \* what the runtime says of a tool call
    MaxLines,        \* MAX_MESSAGE_SIZE, in lines
    SensitiveKeys,   \* is_sensitive_key
    MaxAsked,        \* bound on the messages of the client
    MaxChatter       \* bound on the unasked messages

VARIABLES
    stage,      \* "ready": reads the client; "waiting": reads the server; "ended"
    current,    \* the request that is being handled
    asked,      \* how many documents the client has sent
    buffers,    \* the unparsed lines of receive, of each side
    tools,      \* names the server listed
    server,     \* "up" or "down"
    inbox,      \* forwarded to the server and not yet read by it
    outbox,     \* lines of the server not yet read by the proxy
    chatted,    \* how many unasked messages the server wrote
    permitted,  \* ids of the tool calls the runtime permitted
    received,   \* every request the server got
    answers,    \* what the client got, in order
    honest      \* history: the server has written no response unasked

proxyVars == <<stage, current, asked, buffers, tools, server, inbox, outbox, chatted,
               permitted, received, answers, honest>>

NoRequest == [id |-> 0, method |-> "none", tool |-> "none", params |-> "none"]

ProxyInit ==
    /\ stage = "ready" /\ current = NoRequest /\ asked = 0
    /\ buffers = [side \in {"client", "server"} |-> <<>>]
    /\ tools = {} /\ server = "up" /\ inbox = <<>> /\ outbox = <<>> /\ chatted = 0
    /\ permitted = {} /\ received = {} /\ answers = <<>> /\ honest = TRUE

-----------------------------------------------------------------------------
(***************************************************************************)
(* Messages.                                                               *)
(***************************************************************************)

\* parse_message: what kind of message a document is, "invalid" for none.
ParseMessage(doc) ==
    IF \/ ~ doc.json \/ doc.keys \cap {"method", "result", "error"} = {}
       \/ doc.jsonrpc # "2.0" \/ ~ doc.fits
    THEN "invalid"
    ELSE IF "error" \in doc.keys THEN "error"
    ELSE IF "result" \in doc.keys THEN "response"
    ELSE IF "id" \in doc.keys THEN "request" ELSE "notification"

Answering(doc) == ParseMessage(doc) \in {"response", "error"}

\* What the model assumes of the documents: they have the same fields and at
\* least one line.
Fields == {"json", "keys", "jsonrpc", "fits", "lines", "method", "tool", "params",
           "value", "tools", "source"}

ASSUME ProxyAssumption ==
    /\ MaxAsked \in Nat /\ MaxLines \in Nat /\ MaxChatter \in Nat
    /\ \A doc \in ClientDocs \cup Chatter \cup Replies :
          DOMAIN doc = Fields /\ doc.lines \in Nat \ {0}

Lines(doc) == [i \in 1 .. doc.lines |-> [doc |-> doc, part |-> i]]

\* receive, for one line that is not blank: lines are collected until they
\* parse as a message; what does not parse stays in the way of what follows.
Received(side, line) ==
    LET buffer == Append(buffers[side], line)
        whole == buffer = Lines(buffer[1].doc)
    IN  [buffer |-> buffer,
         kind |-> IF Len(buffer) > MaxLines THEN "too_large"
                  ELSE IF whole THEN ParseMessage(line.doc) ELSE "invalid"]

\* redact_response: a value is a function from the paths of its leaves to
\* strings (texts).  A sensitive key hides everything below it; JSON within a
\* string continues the path, which stands for redact_text's order: the string
\* is redacted, parsed, and kept as it is when it does not parse.
Hidden(path) == {i \in DOMAIN path : path[i] \in SensitiveKeys}
Visible(path) == IF Hidden(path) = {} THEN path ELSE SubSeq(path, 1, Min(Hidden(path)))
RedactResponse(value) ==
    [path \in {Visible(p) : p \in DOMAIN value} |->
        IF Hidden(path) # {} THEN <<Marker("sensitive_field")>>
        ELSE LET r == RedactText(value[path], DefaultDetectors, {})
             IN  IF r.err = "ok" THEN r.redacted ELSE <<"[REDACTION FAILED]">>]

-----------------------------------------------------------------------------
(***************************************************************************)
(* The proxy.                                                              *)
(***************************************************************************)
Ends == stage' = "ended" /\ current' = NoRequest
Answer(id, kind, body, source) ==
    answers' = Append(answers, [id |-> id, kind |-> kind, body |-> body, source |-> source])
Refuse(code) == /\ Answer(asked', code, [p \in {} |-> <<>>], asked') /\ stage' = "ready"
                /\ UNCHANGED <<current, inbox, received, permitted>>

\* McpTransport::send to the server: a broken pipe ends the proxy.  A
\* notification has no id and nobody waits for an answer.
Forward(req) ==
    /\ IF server = "up"
       THEN /\ inbox' = Append(inbox, req)
            /\ IF req.id = 0
               THEN stage' = "ready" /\ UNCHANGED <<current, received>>
               ELSE /\ stage' = "waiting" /\ current' = req
                    /\ received' = received \cup {req}
       ELSE Ends /\ UNCHANGED <<inbox, received>>
    /\ UNCHANGED answers

\* Asks the server before the runtime has spoken.
HandleToolCall_Forward(req, outcome) ==
    IF req.params = "bad" \/ outcome = "failed"
    THEN Ends /\ UNCHANGED <<answers, inbox, received, permitted>>
    ELSE IF req.tool \notin tools THEN Refuse("tool_not_found")
    ELSE Forward(req) /\ permitted' = permitted

\* handle_tool_call: the errors of params, of build_tool_request and of
\* evaluate leave run_proxy by `?`, with their answer unsent.
HandleToolCall(req, outcome) ==
    IF req.params = "bad" \/ (req.tool \in tools /\ outcome = "failed")
    THEN Ends /\ UNCHANGED <<answers, inbox, received, permitted>>
    ELSE IF req.tool \notin tools THEN Refuse("tool_not_found")
    ELSE IF outcome # "permitted" THEN Refuse(outcome)
    ELSE Forward(req) /\ permitted' = permitted \cup {req.id}

\* handle_message, for a message of the client.  A notification is forwarded as
\* it is, one that names tools/call too.
HandleMessage(kind, doc, outcome) ==
    LET req == [id |-> IF kind = "notification" THEN 0 ELSE asked + 1,
                method |-> doc.method, tool |-> doc.tool, params |-> doc.params]
    IN  CASE kind = "request" /\ doc.method = "tools/call" -> HandleToolCall(req, outcome)
          [] \/ kind = "request" /\ doc.method # "tools/call"
             \/ kind = "notification" -> Forward(req) /\ UNCHANGED permitted
          [] OTHER -> Ends /\ UNCHANGED <<answers, inbox, received, permitted>>

\* run_proxy reads a line of the client.
ClientLine(doc, part, outcome) ==
    LET got == Received("client", [doc |-> doc, part |-> part])
    IN  /\ stage = "ready" /\ asked < MaxAsked
        /\ asked' = asked + 1
        /\ IF got.kind = "invalid"
           THEN /\ buffers' = [buffers EXCEPT !["client"] = got.buffer]
                /\ UNCHANGED <<stage, current, inbox, received, permitted, answers>>
           ELSE /\ buffers' = [buffers EXCEPT !["client"] = <<>>]
                /\ HandleMessage(got.kind, doc, outcome)
        /\ UNCHANGED <<tools, server, outbox, chatted, honest>>

ClientCloses ==
    /\ stage = "ready" /\ Ends
    /\ UNCHANGED <<asked, buffers, tools, server, inbox, outbox, chatted, permitted, received,
                   answers, honest>>

\* An unexpected message is reported to the client as an error.
Reply_Tolerant(kind, doc) ==
    /\ Answer(current.id, "error", RedactResponse(doc.value), doc.source)
    /\ stage' = "ready" /\ current' = NoRequest

\* The answer to the pending request is the next message, whatever its id; a
\* request or a notification of the server ends the proxy.
Reply(kind, doc) ==
    IF kind \in {"response", "error"}
    THEN /\ Answer(current.id, kind, RedactResponse(doc.value), doc.source)
         /\ stage' = "ready" /\ current' = NoRequest
    ELSE Ends /\ UNCHANGED answers

\* receive on the server's side; tools/list remembers the tools it names.
ServerLine ==
    LET got == Received("server", Head(outbox))
        doc == Head(outbox).doc
    IN  /\ stage = "waiting" /\ outbox # <<>>
        /\ outbox' = Tail(outbox)
        /\ IF got.kind = "invalid"
           THEN /\ buffers' = [buffers EXCEPT !["server"] = got.buffer]
                /\ UNCHANGED <<stage, current, answers, tools>>
           ELSE /\ buffers' = [buffers EXCEPT !["server"] = <<>>]
                /\ Reply(got.kind, doc)
                /\ tools' = IF current.method = "tools/list" /\ got.kind = "response"
                            THEN tools \cup doc.tools ELSE tools
        /\ UNCHANGED <<asked, server, inbox, chatted, permitted, received, honest>>

ServerEof ==
    /\ stage = "waiting" /\ server = "down" /\ outbox = <<>>
    /\ Ends
    /\ UNCHANGED <<asked, buffers, tools, server, inbox, outbox, chatted, permitted, received,
                   answers, honest>>

-----------------------------------------------------------------------------
(***************************************************************************)
(* The server process.                                                     *)
(***************************************************************************)
ServerAnswers(reply) ==
    /\ server = "up" /\ inbox # <<>>
    /\ inbox' = Tail(inbox)
    /\ outbox' = IF Head(inbox).id = 0 THEN outbox
                 ELSE outbox \o Lines([reply EXCEPT !.source = Head(inbox).id])
    /\ UNCHANGED <<stage, current, asked, buffers, tools, server, chatted, permitted, received,
                   answers, honest>>

ServerChats(doc) ==
    /\ server = "up" /\ chatted < MaxChatter
    /\ chatted' = chatted + 1
    /\ outbox' = outbox \o Lines(doc)
    /\ honest' = (honest /\ ~ Answering(doc))
    /\ UNCHANGED <<stage, current, asked, buffers, tools, server, inbox, permitted, received,
                   answers>>

ServerDies ==
    /\ server = "up" /\ server' = "down" /\ inbox' = <<>>
    /\ UNCHANGED <<stage, current, asked, buffers, tools, outbox, chatted, permitted, received,
                   answers, honest>>

ProxyNext ==
    \/ \E doc \in ClientDocs, outcome \in Outcomes :
            \E part \in 1 .. doc.lines : ClientLine(doc, part, outcome)
    \/ ClientCloses \/ ServerLine \/ ServerEof \/ ServerDies
    \/ \E reply \in Replies : ServerAnswers(reply)
    \/ \E doc \in Chatter : ServerChats(doc)

ProxySpec == ProxyInit /\ [][ProxyNext]_proxyVars

-----------------------------------------------------------------------------
(***************************************************************************)
(* Properties.                                                             *)
(***************************************************************************)

\* Every tool call the server got as a request was permitted by the runtime and
\* names a tool the server had listed.
ToolCallsVetted ==
    \A req \in received : req.method = "tools/call" =>
        req.id \in permitted /\ req.tool \in tools

\* What the client gets as the answer to a request is the server's reply to it.
AnswersAsked == \A i \in DOMAIN answers : answers[i].source = answers[i].id

\* The proxy never compares ids, and yet no answer carries the reply to another
\* request until the server writes a response nobody asked for, whatever else
\* it writes in between; the answers come in the order of the requests, at most
\* one for each, also after that.
AnswersMatch ==
    /\ honest => AnswersAsked
    /\ \A i, j \in DOMAIN answers : i < j => answers[i].id < answers[j].id
=============================================================================
