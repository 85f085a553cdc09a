---------------------------- MODULE Front_proof ----------------------------
(***************************************************************************)
(* Proofs about what stands before the runtime.  The MCP proxy, for any    *)
(* documents of the two sides and any bounds: tool calls are vetted, and   *)
(* answers match while the server is honest.  The layers of the gateway,   *)
(* for any files, environments and requests: it listens safely and the     *)
(* limiter keeps its bound.  The redactor, for any text, detectors and     *)
(* secrets: nothing it has to hide is in what it returns.                  *)
(***************************************************************************)
EXTENDS Redactor, McpProxy, GatewayFront, Iteration, FiniteSetTheorems, TLAPS

----------------------------------------------------------------------------
(* The invariant                                                           *)

\* What the server may be sent, and the lines it may write.
Sent == {[id |-> n, method |-> doc.method, tool |-> doc.tool, params |-> doc.params] :
            n \in Nat, doc \in ClientDocs}
ServerDocs == Chatter \cup {[reply EXCEPT !.source = n] : reply \in Replies, n \in Nat}
ServerLines == {[doc |-> doc, part |-> i] : doc \in ServerDocs, i \in Nat}

\* A line of a document that answers a request.
AnswerLine(line) == Answering(line.doc)
Quiet(lines) == \A i \in DOMAIN lines : ~ AnswerLine(lines[i])

\* Everything the server wrote that the proxy has not made a message of.
Stream == buffers["server"] \o outbox

\* The lines of d are in the stream after place k, and no other answer is.
Holding(s, d, k) ==
    \A i \in DOMAIN s :
        IF k < i /\ i <= k + d.lines THEN s[i] = [doc |-> d, part |-> i - k]
        ELSE ~ AnswerLine(s[i])

\* The stream has no answer, or one to the request with this id.
AtMostOne(s, id) ==
    \/ Quiet(s)
    \/ \E d \in ServerDocs, k \in Nat :
          d.source = id /\ k + d.lines <= Len(s) /\ Holding(s, d, k)

NoticesBut(i) == \A j \in DOMAIN inbox : j # i => inbox[j].id = 0

\* A request is with the server or its answer is in the stream; when none is
\* pending there is neither.
Waiting ==
    \/ NoticesBut(0) /\ AtMostOne(Stream, current.id)
    \/ \E i \in DOMAIN inbox : NoticesBut(i) /\ inbox[i].id = current.id /\ Quiet(Stream)
InTurn ==
    /\ stage = "ready" => NoticesBut(0) /\ Quiet(Stream)
    /\ stage = "waiting" => Waiting

\* So it is as long as the server writes no response unasked.
Pending == honest => InTurn

AnswersTyped ==
    /\ \E S : answers \in Seq(S)
    /\ \A i \in DOMAIN answers : answers[i].id \in Nat

ProxyType ==
    /\ stage \in {"ready", "waiting", "ended"}
    /\ asked \in Nat
    /\ DOMAIN buffers = {"client", "server"} /\ buffers["server"] \in Seq(ServerLines)
    /\ outbox \in Seq(ServerLines)
    /\ inbox \in Seq(Sent)
    /\ stage = "waiting" => current \in Sent
    /\ AnswersTyped

\* The ids of the answers are behind the request that is pending or to come.
Ordered ==
    /\ \A i \in DOMAIN answers : answers[i].id <= asked
    /\ stage = "waiting" => /\ current.id <= asked
                            /\ \A i \in DOMAIN answers : answers[i].id < current.id

ProxyInv == ProxyType /\ Pending /\ Ordered /\ AnswersMatch /\ ToolCallsVetted

----------------------------------------------------------------------------
(* Sequences                                                               *)

\* Append, whatever the elements are.
LEMMA AppendAny ==
    ASSUME NEW S, NEW s \in Seq(S), NEW x
    PROVE  /\ Append(s, x) \in Seq(S \cup {x}) /\ Len(Append(s, x)) = Len(s) + 1
           /\ DOMAIN Append(s, x) = 1 .. (Len(s) + 1) /\ DOMAIN s = 1 .. Len(s) /\ Len(s) \in Nat
           /\ \A i \in DOMAIN s : Append(s, x)[i] = s[i]
           /\ Append(s, x)[Len(s) + 1] = x
<1>1. s \in Seq(S \cup {x}) /\ x \in S \cup {x}
  OBVIOUS
<1> QED
  BY <1>1

\* Tail, place by place.
LEMMA TailOf ==
    ASSUME NEW S, NEW s \in Seq(S), s # <<>>
    PROVE  /\ Tail(s) \in Seq(S) /\ DOMAIN Tail(s) = 1 .. (Len(s) - 1)
           /\ \A i \in 1 .. (Len(s) - 1) : Tail(s)[i] = s[i + 1] /\ i + 1 \in DOMAIN s
           /\ Head(s) = s[1] /\ 1 \in DOMAIN s /\ Len(s) \in Nat /\ Len(s) >= 1
           /\ DOMAIN s = 1 .. Len(s) /\ Head(s) \in S
  OBVIOUS

\* A line that moves from one part of the stream to the other changes nothing.
LEMMA ShiftStream ==
    ASSUME NEW S, NEW a \in Seq(S), NEW b \in Seq(S), b # <<>>
    PROVE  Append(a, Head(b)) \o Tail(b) = a \o b
<1>1. Head(b) \in S /\ Tail(b) \in Seq(S)
  OBVIOUS
<1>2. Append(a, Head(b)) \in Seq(S)
  BY <1>1
<1>3. Len(Append(a, Head(b)) \o Tail(b)) = Len(a \o b)
  BY <1>1, <1>2
<1>4. \A i \in 1 .. Len(a \o b) : (Append(a, Head(b)) \o Tail(b))[i] = (a \o b)[i]
  BY <1>1, <1>2
<1>5. Append(a, Head(b)) \o Tail(b) \in Seq(S) /\ a \o b \in Seq(S)
  BY <1>1, <1>2
<1> QED
  BY <1>3, <1>4, <1>5

\* The lines of a document.
LEMMA LinesOf ==
    ASSUME NEW d \in ServerDocs
    PROVE  /\ d.lines \in Nat \ {0} /\ Lines(d) \in Seq(ServerLines) /\ Len(Lines(d)) = d.lines
           /\ \A i \in 1 .. d.lines : Lines(d)[i] = [doc |-> d, part |-> i]
<1>1. d.lines \in Nat \ {0}
  <2>1. CASE d \in Chatter
    BY <2>1, ProxyAssumption
  <2>2. ASSUME NEW reply \in Replies, NEW n \in Nat, d = [reply EXCEPT !.source = n]
        PROVE  d.lines \in Nat \ {0}
    BY <2>2, ProxyAssumption DEF Fields
  <2> QED
    BY <2>1, <2>2 DEF ServerDocs
<1>2. \A i \in 1 .. d.lines : [doc |-> d, part |-> i] \in ServerLines
  BY <1>1 DEF ServerLines
<1>3. Lines(d) \in [1 .. d.lines -> ServerLines]
  BY <1>2 DEF Lines
<1>4. Lines(d) \in Seq(ServerLines) /\ Len(Lines(d)) = d.lines
  BY <1>1, <1>3
<1> QED
  BY <1>1, <1>4 DEF Lines

\* A reply says which request it answers.
LEMMA ReplyDoc ==
    ASSUME NEW reply \in Replies, NEW n \in Nat
    PROVE  /\ [reply EXCEPT !.source = n] \in ServerDocs
           /\ [reply EXCEPT !.source = n].source = n
<1>1. "source" \in DOMAIN reply
  BY ProxyAssumption DEF Fields
<1> QED
  BY <1>1 DEF ServerDocs

\* What a concatenation holds.
LEMMA Concat ==
    ASSUME NEW S, NEW a \in Seq(S), NEW b \in Seq(S)
    PROVE  /\ a \o b \in Seq(S) /\ Len(a) \in Nat /\ Len(b) \in Nat
           /\ Len(a \o b) = Len(a) + Len(b) /\ DOMAIN (a \o b) = 1 .. (Len(a) + Len(b))
           /\ DOMAIN a = 1 .. Len(a) /\ DOMAIN b = 1 .. Len(b)
           /\ \A i \in 1 .. Len(a) : (a \o b)[i] = a[i]
           /\ \A i \in 1 .. Len(b) : (a \o b)[Len(a) + i] = b[i] /\ Len(a) + i \in DOMAIN (a \o b)
           /\ \A i \in DOMAIN (a \o b) : i <= Len(a) \/ (i - Len(a) \in 1 .. Len(b)
                                                        /\ (a \o b)[i] = b[i - Len(a)])
  OBVIOUS

\* Concatenation is associative.
LEMMA Associative ==
    ASSUME NEW S, NEW a \in Seq(S), NEW b \in Seq(S), NEW c \in Seq(S)
    PROVE  a \o (b \o c) = (a \o b) \o c
<1>1. /\ a \o b \in Seq(S) /\ b \o c \in Seq(S)
      /\ Len(a \o b) = Len(a) + Len(b) /\ Len(b \o c) = Len(b) + Len(c)
      /\ Len(a) \in Nat /\ Len(b) \in Nat /\ Len(c) \in Nat
  OBVIOUS
<1>2. a \o (b \o c) \in Seq(S) /\ (a \o b) \o c \in Seq(S)
      /\ Len(a \o (b \o c)) = Len(a) + Len(b) + Len(c)
      /\ Len((a \o b) \o c) = Len(a) + Len(b) + Len(c)
  BY <1>1
<1>3. ASSUME NEW i \in 1 .. (Len(a) + Len(b) + Len(c))
      PROVE  (a \o (b \o c))[i] = ((a \o b) \o c)[i]
  BY <1>1
<1> QED
  BY <1>2, <1>3

----------------------------------------------------------------------------
(* The stream                                                              *)

\* Lines that answer nothing may be added.
LEMMA QuietAdded ==
    ASSUME NEW s \in Seq(ServerLines), NEW t \in Seq(ServerLines), Quiet(t), NEW id
    PROVE  /\ Quiet(s) => Quiet(s \o t)
           /\ AtMostOne(s, id) => AtMostOne(s \o t, id)
<1>c. /\ Len(s \o t) = Len(s) + Len(t) /\ DOMAIN (s \o t) = 1 .. (Len(s) + Len(t))
      /\ DOMAIN s = 1 .. Len(s) /\ DOMAIN t = 1 .. Len(t) /\ Len(s) \in Nat /\ Len(t) \in Nat
      /\ \A i \in 1 .. Len(s) : (s \o t)[i] = s[i]
      /\ \A i \in DOMAIN (s \o t) : i <= Len(s) \/ (i - Len(s) \in 1 .. Len(t)
                                                   /\ (s \o t)[i] = t[i - Len(s)])
  BY Concat
<1>1. Quiet(s) => Quiet(s \o t)
  BY <1>c DEF Quiet
<1>2. ASSUME NEW d \in ServerDocs, NEW k \in Nat, k + d.lines <= Len(s), Holding(s, d, k)
      PROVE  k + d.lines <= Len(s \o t) /\ Holding(s \o t, d, k)
  <2>1. d.lines \in Nat
    BY LinesOf
  <2>2. ASSUME NEW i \in DOMAIN (s \o t), i <= Len(s)
        PROVE  IF k < i /\ i <= k + d.lines THEN (s \o t)[i] = [doc |-> d, part |-> i - k]
               ELSE ~ AnswerLine((s \o t)[i])
    BY <1>2, <1>c, <2>2 DEF Holding
  <2>3. ASSUME NEW i \in DOMAIN (s \o t), ~ (i <= Len(s))
        PROVE  ~ (i <= k + d.lines) /\ ~ AnswerLine((s \o t)[i])
    BY <1>2, <1>c, <2>1, <2>3 DEF Quiet
  <2> QED
    BY <1>2, <1>c, <2>1, <2>2, <2>3 DEF Holding
<1> QED
  BY <1>1, <1>2 DEF AtMostOne

\* A quiet stream with the lines of one answer.
LEMMA AnswerWritten ==
    ASSUME NEW s \in Seq(ServerLines), Quiet(s), NEW d \in ServerDocs
    PROVE  AtMostOne(s \o Lines(d), d.source)
<1>l. /\ d.lines \in Nat \ {0} /\ Lines(d) \in Seq(ServerLines) /\ Len(Lines(d)) = d.lines
      /\ \A i \in 1 .. d.lines : Lines(d)[i] = [doc |-> d, part |-> i]
  BY LinesOf
<1> DEFINE t == Lines(d)
<1>c. /\ Len(s \o t) = Len(s) + Len(t) /\ DOMAIN (s \o t) = 1 .. (Len(s) + Len(t))
      /\ DOMAIN s = 1 .. Len(s) /\ Len(s) \in Nat
      /\ \A i \in 1 .. Len(s) : (s \o t)[i] = s[i]
      /\ \A i \in DOMAIN (s \o t) : i <= Len(s) \/ (i - Len(s) \in 1 .. Len(t)
                                                   /\ (s \o t)[i] = t[i - Len(s)])
  BY <1>l, Concat
<1> HIDE DEF t
<1>t. t = Lines(d)
  BY DEF t
<1>1. Holding(s \o t, d, Len(s))
  BY <1>l, <1>c, <1>t DEF Holding, Quiet
<1>2. Len(s) + d.lines <= Len(s \o t)
  BY <1>l, <1>c, <1>t
<1> QED
  BY <1>1, <1>2, <1>c, <1>t DEF AtMostOne

\* When the lines at the head of the stream are a whole answer, it is the one
\* answer of the stream, and nothing after it answers.
LEMMA AnswerTaken ==
    ASSUME NEW a \in Seq(ServerLines), NEW b \in Seq(ServerLines), NEW id,
           AtMostOne(a \o b, id), a # <<>>, a = Lines(a[1].doc), AnswerLine(a[Len(a)])
    PROVE  a[Len(a)].doc.source = id /\ Quiet(b)
<1> DEFINE s == a \o b
<1>c. /\ Len(s) = Len(a) + Len(b) /\ DOMAIN s = 1 .. (Len(a) + Len(b))
      /\ Len(a) \in Nat /\ Len(b) \in Nat /\ DOMAIN b = 1 .. Len(b)
      /\ \A i \in 1 .. Len(a) : s[i] = a[i]
      /\ \A i \in 1 .. Len(b) : s[Len(a) + i] = b[i] /\ Len(a) + i \in DOMAIN s
  BY Concat
<1> HIDE DEF s
<1>s. s = a \o b
  BY DEF s
<1>n. Len(a) >= 1 /\ a[1] \in ServerLines /\ 1 \in DOMAIN s
  BY <1>c
<1>d. a[1].doc \in ServerDocs
  BY <1>n DEF ServerLines
<1>l. /\ a[1].doc.lines \in Nat \ {0} /\ Len(a) = a[1].doc.lines
      /\ \A i \in 1 .. Len(a) : a[i] = [doc |-> a[1].doc, part |-> i]
  BY <1>d, LinesOf
<1>1. a[Len(a)].doc = a[1].doc
  <2>1. Len(a) \in 1 .. Len(a)
    BY <1>c, <1>n
  <2>2. a[Len(a)] = [doc |-> a[1].doc, part |-> Len(a)]
    BY <2>1, <1>l
  <2> QED
    BY <2>2
<1>2. AnswerLine(s[1])
  BY <1>1, <1>c, <1>n DEF AnswerLine, Answering
<1>3. PICK d \in ServerDocs, k \in Nat :
          d.source = id /\ k + d.lines <= Len(s) /\ Holding(s, d, k)
  <2>1. ~ Quiet(s)
    BY <1>2, <1>n DEF Quiet
  <2> QED
    BY <2>1, <1>s DEF AtMostOne
<1>4. k = 0 /\ s[1] = [doc |-> d, part |-> 1]
  BY <1>2, <1>3, <1>n DEF Holding
<1>5. d = a[1].doc
  BY <1>4, <1>c, <1>n
<1>6. ASSUME NEW i \in 1 .. Len(b)
      PROVE  ~ AnswerLine(b[i])
  <2>1. d.lines = Len(a)
    BY <1>5, <1>l
  <2>2. s[Len(a) + i] = b[i] /\ Len(a) + i \in DOMAIN s
    BY <1>c
  <2>3. ~ (Len(a) + i <= k + d.lines)
    BY <1>4, <1>c, <2>1
  <2> QED
    BY <1>3, <2>2, <2>3 DEF Holding
<1> QED
  BY <1>1, <1>3, <1>5, <1>6, <1>c DEF Quiet

\* The stream is a sequence of lines.
LEMMA StreamType ==
    ASSUME ProxyType
    PROVE  Stream \in Seq(ServerLines)
  BY Concat DEF ProxyType, Stream

\* One more answer, with an id above all the others.
LEMMA AnswerAdded ==
    ASSUME AnswersTyped, AnswersMatch, NEW id \in Nat, NEW kind, NEW body, NEW source,
           \A i \in DOMAIN answers : answers[i].id < id,
           honest' => honest, honest => source = id,
           answers' = Append(answers, [id |-> id, kind |-> kind, body |-> body, source |-> source])
    PROVE  AnswersTyped' /\ AnswersMatch' /\ \A i \in DOMAIN answers' : answers'[i].id <= id
<1> DEFINE x == [id |-> id, kind |-> kind, body |-> body, source |-> source]
<1>1. PICK S : answers \in Seq(S)
  BY DEF AnswersTyped
<1>2. /\ Append(answers, x) \in Seq(S \cup {x})
      /\ DOMAIN Append(answers, x) = 1 .. (Len(answers) + 1) /\ DOMAIN answers = 1 .. Len(answers)
      /\ Len(answers) \in Nat
      /\ \A i \in DOMAIN answers : Append(answers, x)[i] = answers[i]
      /\ Append(answers, x)[Len(answers) + 1] = x
  BY <1>1, AppendAny
<1>x. x.id = id /\ x.source = source
  OBVIOUS
<1> HIDE DEF x
<1>3. answers' = Append(answers, x)
  BY DEF x
<1>4. AnswersTyped'
  BY <1>2, <1>3, <1>x DEF AnswersTyped
<1>5. ASSUME NEW i \in DOMAIN answers', NEW j \in DOMAIN answers', i < j
      PROVE  answers'[i].id < answers'[j].id
  BY <1>2, <1>3, <1>5, <1>x DEF AnswersMatch, AnswersTyped
<1>6. ASSUME honest'
      PROVE  AnswersAsked'
  <2>1. source = id /\ AnswersAsked
    BY <1>6 DEF AnswersMatch
  <2> QED
    BY <1>2, <1>3, <1>x, <2>1 DEF AnswersAsked
<1>7. AnswersMatch'
  BY <1>5, <1>6 DEF AnswersMatch
<1> QED
  BY <1>2, <1>3, <1>4, <1>7, <1>x DEF AnswersTyped

\* Nothing is answered and the server is not less honest than it was.
LEMMA AnswersKept ==
    ASSUME AnswersTyped, AnswersMatch, answers' = answers, honest' => honest
    PROVE  AnswersTyped' /\ AnswersMatch'
  BY DEF AnswersTyped, AnswersMatch, AnswersAsked

----------------------------------------------------------------------------
(* The steps of the proxy                                                  *)

\* What reading a line of the client leaves alone.
AtClient ==
    /\ stage = "ready" /\ asked' = asked + 1 /\ outbox' = outbox /\ tools' = tools
    /\ honest' = honest
    /\ DOMAIN buffers' = {"client", "server"} /\ buffers'["server"] = buffers["server"]

\* An end of the proxy asks nothing of the server's lines.
LEMMA Ending ==
    ASSUME ProxyInv, stage' = "ended", asked' \in {asked, asked + 1},
           outbox' \in Seq(ServerLines), DOMAIN buffers' = {"client", "server"},
           buffers'["server"] \in Seq(ServerLines), inbox' = inbox,
           UNCHANGED <<answers, received, honest>>, tools \subseteq tools', permitted \subseteq permitted'
    PROVE  ProxyInv'
<1>1. AnswersTyped' /\ AnswersMatch'
  BY AnswersKept DEF ProxyInv, ProxyType
<1>2. ProxyType'
  BY <1>1 DEF ProxyInv, ProxyType, Sent
<1>3. Pending'
  BY DEF Pending, InTurn
<1>4. Ordered'
  BY DEF ProxyInv, ProxyType, AnswersTyped, Ordered
<1>6. ToolCallsVetted'
  BY DEF ProxyInv, ToolCallsVetted
<1> QED
  BY <1>1, <1>2, <1>3, <1>4, <1>6 DEF ProxyInv

\* A forwarded request is the one that is pending.
LEMMA Forwarding ==
    ASSUME ProxyInv, AtClient, NEW req \in Sent, Forward(req),
           req.id = 0 \/ req.id = asked + 1,
           permitted \subseteq permitted',
           req.id # 0 /\ req.method = "tools/call" => req.id \in permitted' /\ req.tool \in tools
    PROVE  ProxyInv'
<1>i. /\ inbox \in Seq(Sent) /\ Stream \in Seq(ServerLines)
      /\ honest => Quiet(Stream) /\ \A j \in DOMAIN inbox : inbox[j].id = 0
  <2>1. inbox \in Seq(Sent) /\ \A j \in DOMAIN inbox : j # 0
    BY DEF ProxyInv, ProxyType
  <2>2. Stream \in Seq(ServerLines)
    BY StreamType DEF ProxyInv
  <2>3. ASSUME honest
        PROVE  Quiet(Stream) /\ NoticesBut(0)
    BY <2>3 DEF ProxyInv, Pending, InTurn, AtClient
  <2> QED
    BY <2>1, <2>2, <2>3 DEF NoticesBut
<1>s. Stream' = Stream
  BY DEF Stream, AtClient
<1>a. /\ AnswersTyped' /\ AnswersMatch' /\ asked \in Nat /\ asked' = asked + 1 /\ answers' = answers
      /\ \A i \in DOMAIN answers : answers[i].id \in Nat /\ answers[i].id <= asked
  <2>1. answers' = answers /\ honest' = honest /\ asked' = asked + 1
    BY DEF Forward, AtClient
  <2>2. AnswersTyped' /\ AnswersMatch'
    BY <2>1, AnswersKept DEF ProxyInv, ProxyType
  <2> QED
    BY <2>1, <2>2 DEF ProxyInv, ProxyType, AnswersTyped, Ordered
<1>h. honest' = honest
  BY DEF AtClient
<1>d. outbox' \in Seq(ServerLines) /\ DOMAIN buffers' = {"client", "server"}
      /\ buffers'["server"] \in Seq(ServerLines)
  BY DEF ProxyInv, ProxyType, AtClient
<1>1. CASE server # "up"
  BY <1>1, <1>d, Ending DEF Forward, Ends, AtClient
<1>2. CASE server = "up"
  <2>1. inbox' = Append(inbox, req)
    BY <1>2 DEF Forward
  <2>2. /\ inbox' \in Seq(Sent) /\ DOMAIN inbox' = 1 .. (Len(inbox) + 1)
        /\ DOMAIN inbox = 1 .. Len(inbox) /\ Len(inbox) \in Nat
        /\ \A j \in DOMAIN inbox : inbox'[j] = inbox[j]
        /\ inbox'[Len(inbox) + 1] = req
    <3>1. Append(inbox, req) \in Seq(Sent)
      BY <1>i
    <3> QED
      BY <1>i, <2>1, <3>1, AppendAny
  <2>3. CASE req.id = 0
    <3>1. stage' = "ready" /\ received' = received
      BY <1>2, <2>3 DEF Forward
    <3>2. honest => \A j \in DOMAIN inbox' : inbox'[j].id = 0
      BY <1>i, <2>2, <2>3
    <3>3. Pending'
      BY <1>h, <1>i, <1>s, <3>1, <3>2 DEF Pending, InTurn, NoticesBut
    <3>4. ProxyType'
      BY <1>a, <1>d, <2>2, <3>1 DEF ProxyType, Sent
    <3>5. Ordered'
      BY <1>a, <3>1 DEF Ordered
    <3>6. ToolCallsVetted'
      BY <3>1 DEF ToolCallsVetted, ProxyInv, AtClient
    <3> QED
      BY <1>a, <3>3, <3>4, <3>5, <3>6 DEF ProxyInv
  <2>4. CASE req.id # 0
    <3>1. stage' = "waiting" /\ current' = req /\ received' = received \cup {req}
      BY <1>2, <2>4 DEF Forward
    <3>2. /\ Len(inbox) + 1 \in DOMAIN inbox'
          /\ honest => \A j \in DOMAIN inbox' : j # Len(inbox) + 1 => inbox'[j].id = 0
          /\ inbox'[Len(inbox) + 1].id = current'.id
      BY <1>i, <2>2, <3>1
    <3>3. Pending'
      BY <1>h, <1>i, <1>s, <3>1, <3>2 DEF Pending, InTurn, Waiting, NoticesBut
    <3>4. ProxyType'
      BY <1>a, <1>d, <2>2, <3>1 DEF ProxyType, Sent
    <3>5. Ordered'
      BY <1>a, <2>4, <3>1 DEF Ordered
    <3>6. ToolCallsVetted'
      BY <2>4, <3>1 DEF ToolCallsVetted, ProxyInv, AtClient
    <3> QED
      BY <1>a, <3>3, <3>4, <3>5, <3>6 DEF ProxyInv
  <2> QED
    BY <2>3, <2>4
<1> QED
  BY <1>1, <1>2

\* A refusal answers the request that was just read.
LEMMA Refusing ==
    ASSUME ProxyInv, AtClient, NEW code, Refuse(code)
    PROVE  ProxyInv'
<1>1. /\ asked + 1 \in Nat /\ \A i \in DOMAIN answers : answers[i].id < asked + 1
  BY DEF ProxyInv, ProxyType, AnswersTyped, Ordered
<1>2. answers' = Append(answers, [id |-> asked + 1, kind |-> code,
                                  body |-> [p \in {} |-> <<>>], source |-> asked + 1])
  BY DEF Refuse, Answer, AtClient
<1>3. AnswersTyped' /\ AnswersMatch' /\ \A i \in DOMAIN answers' : answers'[i].id <= asked + 1
  BY <1>1, <1>2, AnswerAdded DEF ProxyInv, ProxyType, AtClient
<1>4. stage' = "ready" /\ stage = "ready" /\ asked' = asked + 1 /\ UNCHANGED <<inbox, received, permitted>>
  BY DEF Refuse, AtClient
<1>5. ProxyType'
  BY <1>1, <1>3, <1>4 DEF ProxyInv, ProxyType, AtClient, Sent
<1>6. Stream' = Stream
  BY DEF Stream, AtClient
<1>7. Pending'
  BY <1>4, <1>6 DEF ProxyInv, Pending, InTurn, NoticesBut, AtClient
<1>8. Ordered'
  BY <1>3, <1>4 DEF Ordered
<1>9. ToolCallsVetted'
  BY <1>4 DEF ProxyInv, ToolCallsVetted, AtClient
<1> QED
  BY <1>3, <1>5, <1>7, <1>8, <1>9 DEF ProxyInv

\* A line that completes no message.
LEMMA Unread ==
    ASSUME ProxyInv, AtClient, UNCHANGED <<stage, current, inbox, received, permitted, answers>>
    PROVE  ProxyInv'
<1>1. AnswersTyped' /\ AnswersMatch'
  BY AnswersKept DEF ProxyInv, ProxyType, AtClient
<1>5. ProxyType'
  BY <1>1 DEF ProxyInv, ProxyType, AtClient, Sent
<1>6. Stream' = Stream
  BY DEF Stream, AtClient
<1>7. Pending'
  BY <1>6 DEF ProxyInv, Pending, InTurn, NoticesBut, AtClient
<1>8. Ordered'
  BY DEF ProxyInv, ProxyType, AnswersTyped, Ordered, AtClient
<1>9. ToolCallsVetted'
  BY DEF ProxyInv, ToolCallsVetted, AtClient
<1> QED
  BY <1>1, <1>5, <1>7, <1>8, <1>9 DEF ProxyInv

\* run_proxy reads a line of the client.
LEMMA ClientLineStep ==
    ASSUME ProxyInv, NEW doc \in ClientDocs, NEW part, NEW outcome, ClientLine(doc, part, outcome)
    PROVE  ProxyInv'
<1> DEFINE got == Received("client", [doc |-> doc, part |-> part])
           req == [id |-> asked + 1, method |-> doc.method, tool |-> doc.tool,
                   params |-> doc.params]
           notice == [id |-> 0, method |-> doc.method, tool |-> doc.tool,
                      params |-> doc.params]
<1>1. AtClient
  <2>1. \/ buffers' = [buffers EXCEPT !["client"] = got.buffer]
        \/ buffers' = [buffers EXCEPT !["client"] = <<>>]
    BY DEF ClientLine
  <2>2. DOMAIN buffers' = {"client", "server"} /\ buffers'["server"] = buffers["server"]
    BY <2>1 DEF ProxyInv, ProxyType
  <2> QED
    BY <2>2 DEF ClientLine, AtClient
<1>e. ASSUME Ends, UNCHANGED <<answers, inbox, received, permitted>>
      PROVE  ProxyInv'
  BY <1>1, <1>e, Ending DEF AtClient, ProxyInv, ProxyType, Ends
<1>r. /\ req \in Sent /\ req.id = asked + 1 /\ req.method = doc.method /\ req.tool = doc.tool
      /\ notice \in Sent /\ notice.id = 0
  <2>1. asked + 1 \in Nat
    BY DEF ProxyInv, ProxyType
  <2>2. req \in {[id |-> n, method |-> d.method, tool |-> d.tool, params |-> d.params] :
                    n \in Nat, d \in ClientDocs}
    BY <2>1
  <2>3. /\ notice.id = 0
        /\ notice \in {[id |-> n, method |-> d.method, tool |-> d.tool, params |-> d.params] :
                          n \in Nat, d \in ClientDocs}
    OBVIOUS
  <2> QED
    BY <2>2, <2>3 DEF Sent
<1>2. CASE got.kind = "invalid"
  BY <1>1, <1>2, Unread DEF ClientLine
<1>3. CASE got.kind # "invalid"
  <2> HIDE DEF notice
  <2>1. HandleMessage(got.kind, doc, outcome)
    BY <1>3 DEF ClientLine
  <2> HIDE DEF got
  <2>2. \/ doc.method = "tools/call" /\ HandleToolCall(req, outcome)
        \/ doc.method # "tools/call" /\ Forward(req) /\ UNCHANGED permitted
        \/ Forward(notice) /\ UNCHANGED permitted
        \/ Ends /\ UNCHANGED <<answers, inbox, received, permitted>>
    <3>1. CASE got.kind = "request" /\ doc.method = "tools/call"
      BY <2>1, <3>1 DEF HandleMessage
    <3>2. CASE got.kind = "request" /\ doc.method # "tools/call"
      BY <2>1, <3>2 DEF HandleMessage
    <3>3. CASE got.kind = "notification"
      BY <2>1, <3>3 DEF HandleMessage, notice
    <3>4. CASE got.kind # "request" /\ got.kind # "notification"
      BY <2>1, <3>4 DEF HandleMessage
    <3> QED
      BY <3>1, <3>2, <3>3, <3>4
  <2> HIDE DEF req
  <2>3. CASE doc.method = "tools/call" /\ HandleToolCall(req, outcome)
    <3>1. \/ Ends /\ UNCHANGED <<answers, inbox, received, permitted>>
          \/ Refuse("tool_not_found") \/ Refuse(outcome)
          \/ Forward(req) /\ permitted' = permitted \cup {req.id} /\ req.tool \in tools
      BY <2>3 DEF HandleToolCall
    <3>2. CASE Forward(req) /\ permitted' = permitted \cup {req.id} /\ req.tool \in tools
      BY <1>1, <1>r, <3>2, Forwarding
    <3> QED
      BY <1>1, <1>e, <3>1, <3>2, Refusing
  <2>4. CASE doc.method # "tools/call" /\ Forward(req) /\ UNCHANGED permitted
    BY <1>1, <1>r, <2>4, Forwarding
  <2>5. CASE Forward(notice) /\ UNCHANGED permitted
    BY <1>1, <1>r, <2>5, Forwarding
  <2> QED
    BY <1>e, <2>2, <2>3, <2>4, <2>5
<1> QED
  BY <1>2, <1>3

\* The client closes its side.
LEMMA ClientClosesStep ==
    ASSUME ProxyInv, ClientCloses
    PROVE  ProxyInv'
  BY Ending DEF ClientCloses, Ends, ProxyInv, ProxyType

\* The server's output ends.
LEMMA ServerEofStep ==
    ASSUME ProxyInv, ServerEof
    PROVE  ProxyInv'
  BY Ending DEF ServerEof, Ends, ProxyInv, ProxyType

\* receive on the server's side.
LEMMA ServerLineStep ==
    ASSUME ProxyInv, ServerLine
    PROVE  ProxyInv'
<1> DEFINE line == Head(outbox)
           buffer == Append(buffers["server"], line)
           got == Received("server", line)
<1>0. /\ stage = "waiting" /\ outbox # <<>> /\ outbox' = Tail(outbox)
      /\ UNCHANGED <<asked, inbox, permitted, received, honest>>
  BY DEF ServerLine
<1>t. /\ buffers["server"] \in Seq(ServerLines) /\ outbox \in Seq(ServerLines)
      /\ DOMAIN buffers = {"client", "server"} /\ inbox \in Seq(Sent)
      /\ current \in Sent /\ asked \in Nat
  BY <1>0 DEF ProxyInv, ProxyType
<1>1. line \in ServerLines /\ outbox' \in Seq(ServerLines)
  BY <1>0, <1>t
<1>2. /\ buffer \in Seq(ServerLines) /\ buffer # <<>> /\ buffer[Len(buffer)] = line
      /\ buffer \o Tail(outbox) = Stream
  <2>1. buffer \in Seq(ServerLines) /\ buffer # <<>> /\ buffer[Len(buffer)] = line
    <3> HIDE DEF line
    <3>1. buffers["server"] \in Seq(ServerLines) /\ line \in ServerLines
      BY <1>1, <1>t
    <3>2. /\ Len(buffer) = Len(buffers["server"]) + 1 /\ Len(buffers["server"]) \in Nat
          /\ buffer[Len(buffers["server"]) + 1] = line /\ buffer \in Seq(ServerLines)
      BY <3>1
    <3> QED
      BY <3>2
  <2> QED
    BY <2>1, <1>0, <1>t, ShiftStream DEF Stream
<1>g. /\ got.buffer = buffer
      /\ got.kind \in {"response", "error"} =>
            buffer = Lines(buffer[1].doc) /\ got.kind = ParseMessage(line.doc)
  BY DEF Received
<1> HIDE DEF buffer, got, line
<1>3. CASE got.kind = "invalid"
  <2>1. /\ buffers' = [buffers EXCEPT !["server"] = buffer]
        /\ UNCHANGED <<stage, current, answers, tools>>
    BY <1>3, <1>g DEF ServerLine, got, line
  <2>2. DOMAIN buffers' = {"client", "server"} /\ buffers'["server"] = buffer
    BY <1>t, <2>1
  <2>3. Stream' = Stream
    BY <1>0, <1>2, <2>2 DEF Stream
  <2>4. AnswersTyped' /\ AnswersMatch'
    BY <1>0, <2>1, AnswersKept DEF ProxyInv, ProxyType
  <2>5. ProxyType'
    BY <1>0, <1>1, <1>2, <1>t, <2>1, <2>2, <2>4 DEF ProxyType, Sent
  <2>6. Pending'
    BY <1>0, <2>1, <2>3 DEF ProxyInv, Pending, InTurn, Waiting, NoticesBut, AtMostOne
  <2>7. Ordered'
    BY <1>0, <2>1 DEF ProxyInv, Ordered
  <2>8. ToolCallsVetted'
    BY <1>0, <2>1 DEF ProxyInv, ToolCallsVetted
  <2> QED
    BY <2>4, <2>5, <2>6, <2>7, <2>8 DEF ProxyInv
<1>4. CASE got.kind # "invalid"
  <2>1. /\ buffers' = [buffers EXCEPT !["server"] = <<>>]
        /\ Reply(got.kind, line.doc)
        /\ tools \subseteq tools'
    BY <1>4 DEF ServerLine, got, line
  <2>2. DOMAIN buffers' = {"client", "server"} /\ buffers'["server"] = <<>>
    BY <1>t, <2>1
  <2>3. CASE got.kind \notin {"response", "error"}
    <3>1. stage' = "ended" /\ answers' = answers
      BY <2>1, <2>3 DEF Reply, Ends
    <3>2. buffers'["server"] \in Seq(ServerLines)
      BY <2>2
    <3> QED
      BY <1>0, <1>1, <2>1, <2>2, <3>1, <3>2, Ending
  <2>4. CASE got.kind \in {"response", "error"}
    <3>1. AnswerLine(line)
      BY <1>g, <2>4 DEF AnswerLine, Answering
    <3>2. ASSUME honest
          PROVE  /\ \A j \in DOMAIN inbox : inbox[j].id = 0
                 /\ AtMostOne(Stream, current.id)
      <4>1. ~ Quiet(Stream)
        <5>1. Stream[Len(buffer)] = line /\ Len(buffer) \in DOMAIN Stream
          <6>1. Tail(outbox) \in Seq(ServerLines)
            BY <1>0, <1>1
          <6>2. Len(buffer) \in Nat /\ Len(buffer) >= 1
            BY <1>2
          <6> QED
            BY <1>2, <6>1, <6>2, Concat, SMTT(30)
        <5> QED
          BY <3>1, <5>1 DEF Quiet
      <4>2. \A j \in DOMAIN inbox : j # 0
        BY <1>t
      <4> QED
        BY <1>0, <3>2, <4>1, <4>2 DEF ProxyInv, Pending, InTurn, Waiting, NoticesBut
    <3>3. ASSUME honest
          PROVE  line.doc.source = current.id /\ Quiet(Tail(outbox))
      <4>1. AtMostOne(buffer \o Tail(outbox), current.id)
        BY <1>2, <3>2, <3>3
      <4>2. Tail(outbox) \in Seq(ServerLines)
        BY <1>0, <1>1
      <4> QED
        BY <1>2, <1>g, <2>4, <3>1, <4>1, <4>2, AnswerTaken
    <3>4. /\ answers' = Append(answers, [id |-> current.id, kind |-> got.kind,
                                        body |-> RedactResponse(line.doc.value),
                                        source |-> line.doc.source])
          /\ stage' = "ready"
      BY <2>1, <2>4 DEF Reply, Answer
    <3>5. /\ current.id <= asked /\ \A i \in DOMAIN answers : answers[i].id < current.id
          /\ AnswersTyped /\ AnswersMatch
      BY <1>0 DEF ProxyInv, ProxyType, Ordered
    <3>6. current.id \in Nat
      BY <1>t DEF Sent
    <3>7. /\ AnswersTyped' /\ AnswersMatch'
          /\ \A i \in DOMAIN answers' : answers'[i].id <= current.id
      BY <1>0, <3>3, <3>4, <3>5, <3>6, AnswerAdded
    <3>8. ProxyType'
      BY <1>0, <1>1, <1>t, <2>2, <3>4, <3>7 DEF ProxyType, Sent
    <3>9. Stream' = Tail(outbox)
      BY <1>0, <1>1, <2>2 DEF Stream
    <3>10. Pending'
      BY <1>0, <3>2, <3>3, <3>4, <3>9 DEF Pending, InTurn, NoticesBut
    <3>11. Ordered'
      BY <1>0, <1>t, <3>4, <3>5, <3>6, <3>7 DEF Ordered, AnswersTyped
    <3>12. ToolCallsVetted'
      BY <1>0, <2>1 DEF ProxyInv, ToolCallsVetted
    <3> QED
      BY <3>7, <3>8, <3>10, <3>11, <3>12 DEF ProxyInv
  <2> QED
    BY <2>3, <2>4
<1> QED
  BY <1>3, <1>4

----------------------------------------------------------------------------
(* The steps of the server                                                 *)

\* What the steps of the server leave alone.
AtServer ==
    /\ UNCHANGED <<stage, current, asked, buffers, tools, permitted, received, answers>>
    /\ honest' => honest

\* A step of the server concerns what is on the way and nothing else.
LEMMA ServerStep ==
    ASSUME ProxyInv, AtServer, outbox' \in Seq(ServerLines), inbox' \in Seq(Sent), Pending'
    PROVE  ProxyInv'
<1>1. AnswersTyped' /\ AnswersMatch'
  BY AnswersKept DEF AtServer, ProxyInv, ProxyType
<1>2. ProxyType'
  BY <1>1 DEF ProxyInv, ProxyType, AtServer, Sent
<1>3. Ordered'
  BY DEF ProxyInv, Ordered, AtServer
<1>4. ToolCallsVetted'
  BY DEF ProxyInv, ToolCallsVetted, AtServer
<1> QED
  BY <1>1, <1>2, <1>3, <1>4 DEF ProxyInv

\* Lines are added at the end of the stream.
LEMMA StreamGrows ==
    ASSUME ProxyInv, AtServer, NEW t \in Seq(ServerLines), outbox' = outbox \o t
    PROVE  outbox' \in Seq(ServerLines) /\ Stream' = Stream \o t /\ Stream \in Seq(ServerLines)
<1>1. buffers["server"] \in Seq(ServerLines) /\ outbox \in Seq(ServerLines)
  BY DEF ProxyInv, ProxyType
<1>2. outbox' \in Seq(ServerLines) /\ Stream \in Seq(ServerLines)
  BY <1>1, StreamType, Concat DEF ProxyInv
<1>3. buffers["server"] \o (outbox \o t) = (buffers["server"] \o outbox) \o t
  <2> DEFINE a == buffers["server"]
             b == outbox
  <2>1. a \in Seq(ServerLines) /\ b \in Seq(ServerLines)
    BY <1>1
  <2> HIDE DEF a, b
  <2>2. a \o (b \o t) = (a \o b) \o t
    BY <2>1, Associative
  <2> QED
    BY <2>2 DEF a, b
<1> QED
  BY <1>2, <1>3 DEF Stream, AtServer

\* The server reads a message and answers it when it is a request.
LEMMA ServerAnswersStep ==
    ASSUME ProxyInv, NEW reply \in Replies, ServerAnswers(reply)
    PROVE  ProxyInv'
<1>1. /\ AtServer /\ inbox # <<>> /\ inbox' = Tail(inbox) /\ honest' = honest
  BY DEF ServerAnswers, AtServer
<1>2. /\ inbox \in Seq(Sent) /\ Stream \in Seq(ServerLines) /\ outbox \in Seq(ServerLines)
      /\ stage \in {"ready", "waiting", "ended"}
  BY StreamType DEF ProxyInv, ProxyType
<1>3. /\ inbox' \in Seq(Sent) /\ DOMAIN inbox' = 1 .. (Len(inbox) - 1)
      /\ \A i \in 1 .. (Len(inbox) - 1) : inbox'[i] = inbox[i + 1] /\ i + 1 \in DOMAIN inbox
      /\ Head(inbox) = inbox[1] /\ 1 \in DOMAIN inbox /\ Len(inbox) \in Nat
      /\ DOMAIN inbox = 1 .. Len(inbox) /\ Head(inbox) \in Sent
  BY <1>1, <1>2, TailOf
<1>4. CASE Head(inbox).id = 0
  <2>1. outbox' = outbox /\ Stream' = Stream
    BY <1>1, <1>4 DEF ServerAnswers, Stream, AtServer
  <2>2. NoticesBut(0) => NoticesBut(0)'
    BY <1>3 DEF NoticesBut
  <2>3. ASSUME NEW i \in DOMAIN inbox, NoticesBut(i), inbox[i].id = current.id
        PROVE  \/ NoticesBut(0)'
               \/ i - 1 \in DOMAIN inbox' /\ NoticesBut(i - 1)' /\ inbox'[i - 1].id = current.id
    <3>1. CASE i = 1
      <4>1. ASSUME NEW j \in DOMAIN inbox'
            PROVE  inbox'[j].id = 0
        <5>1. inbox'[j] = inbox[j + 1] /\ j + 1 \in DOMAIN inbox /\ j + 1 # i
          BY <1>3, <3>1, <4>1
        <5> QED
          BY <2>3, <5>1 DEF NoticesBut
      <4> QED
        BY <4>1 DEF NoticesBut
    <3>2. CASE i # 1
      <4>1. i - 1 \in DOMAIN inbox' /\ i - 1 \in 1 .. (Len(inbox) - 1) /\ (i - 1) + 1 = i
        BY <1>3, <3>2
      <4>2. inbox'[i - 1].id = current.id
        BY <1>3, <2>3, <4>1
      <4>3. ASSUME NEW j \in DOMAIN inbox', j # i - 1
            PROVE  inbox'[j].id = 0
        <5>1. inbox'[j] = inbox[j + 1] /\ j + 1 \in DOMAIN inbox /\ j + 1 # i
          BY <1>3, <4>3
        <5> QED
          BY <2>3, <5>1 DEF NoticesBut
      <4> QED
        BY <4>1, <4>2, <4>3 DEF NoticesBut
    <3> QED
      BY <3>1, <3>2
  <2>4. stage = "ready" => Pending'
    BY <1>1, <2>1, <2>2 DEF ProxyInv, Pending, InTurn, AtServer
  <2>5. stage = "waiting" => Pending'
    BY <1>1, <2>1, <2>2, <2>3 DEF ProxyInv, Pending, InTurn, Waiting, AtServer, AtMostOne
  <2>6. stage = "ended" => Pending'
    BY <1>1 DEF Pending, InTurn, AtServer
  <2> QED
    BY <1>1, <1>2, <1>3, <2>1, <2>4, <2>5, <2>6, ServerStep
<1>5. CASE Head(inbox).id # 0
  <2> DEFINE d == [reply EXCEPT !.source = Head(inbox).id]
  <2>1. Head(inbox).id \in Nat
    BY <1>3 DEF Sent
  <2>2. d \in ServerDocs /\ d.source = Head(inbox).id
    BY <2>1, ReplyDoc
  <2>3. outbox' = outbox \o Lines(d)
    BY <1>5 DEF ServerAnswers
  <2> HIDE DEF d
  <2>4. Lines(d) \in Seq(ServerLines)
    BY <2>2, LinesOf
  <2>5. outbox' \in Seq(ServerLines) /\ Stream' = Stream \o Lines(d)
    BY <1>1, <2>3, <2>4, StreamGrows
  <2>6. honest => stage # "ready"
    BY <1>3, <1>5 DEF ProxyInv, Pending, InTurn, NoticesBut
  <2>7. ASSUME honest, stage = "waiting"
        PROVE  Pending'
    <3>1. PICK i \in DOMAIN inbox : NoticesBut(i) /\ inbox[i].id = current.id /\ Quiet(Stream)
      BY <1>3, <1>5, <2>7 DEF ProxyInv, Pending, InTurn, Waiting, NoticesBut
    <3>2. i = 1
      BY <1>3, <1>5, <3>1 DEF NoticesBut
    <3>3. NoticesBut(0)'
      BY <1>3, <3>1, <3>2, SMTT(30) DEF NoticesBut
    <3>4. AtMostOne(Stream \o Lines(d), current.id)
      BY <1>2, <1>3, <2>2, <3>1, <3>2, AnswerWritten
    <3> QED
      BY <1>1, <2>5, <2>7, <3>3, <3>4 DEF Pending, InTurn, Waiting, AtServer, AtMostOne
  <2>8. ASSUME stage = "ended"
        PROVE  Pending'
    BY <1>1, <2>8 DEF Pending, InTurn, AtServer
  <2>9. ~ honest => Pending'
    BY <1>1 DEF Pending
  <2> QED
    BY <1>1, <1>2, <1>3, <2>5, <2>6, <2>7, <2>8, <2>9, ServerStep
<1> QED
  BY <1>4, <1>5

\* The server writes a message nobody asked for.
LEMMA ServerChatsStep ==
    ASSUME ProxyInv, NEW doc \in Chatter, ServerChats(doc)
    PROVE  ProxyInv'
<1>1. AtServer /\ outbox' = outbox \o Lines(doc) /\ inbox' = inbox
  BY DEF ServerChats, AtServer
<1>2. doc \in ServerDocs
  BY DEF ServerDocs
<1>3. Lines(doc) \in Seq(ServerLines) /\ Len(Lines(doc)) = doc.lines
      /\ \A i \in 1 .. doc.lines : Lines(doc)[i] = [doc |-> doc, part |-> i]
  BY <1>2, LinesOf
<1>4. ASSUME ~ Answering(doc)
      PROVE  Quiet(Lines(doc))
  <2>1. DOMAIN Lines(doc) = 1 .. doc.lines
    BY <1>3
  <2>2. ASSUME NEW i \in 1 .. doc.lines
        PROVE  Lines(doc)[i].doc = doc
    <3>1. Lines(doc)[i] = [doc |-> doc, part |-> i]
      BY <1>3
    <3> QED
      BY <3>1
  <2> QED
    BY <1>4, <2>1, <2>2 DEF Quiet, AnswerLine
<1>5. outbox' \in Seq(ServerLines) /\ Stream' = Stream \o Lines(doc) /\ Stream \in Seq(ServerLines)
  BY <1>1, <1>3, StreamGrows
<1>6. ASSUME ~ Answering(doc)
      PROVE  /\ Quiet(Stream) => Quiet(Stream \o Lines(doc))
             /\ AtMostOne(Stream, current.id) => AtMostOne(Stream \o Lines(doc), current.id)
  BY <1>3, <1>4, <1>5, <1>6, QuietAdded
<1>7. ASSUME Answering(doc)
      PROVE  Pending'
  <2>1. ~ honest'
    BY <1>7 DEF ServerChats
  <2> QED
    BY <2>1 DEF Pending
<1>8. ASSUME ~ Answering(doc)
      PROVE  Pending'
  BY <1>1, <1>5, <1>6, <1>8 DEF ProxyInv, Pending, InTurn, Waiting, NoticesBut, AtServer, AtMostOne
<1> QED
  BY <1>1, <1>5, <1>7, <1>8, ServerStep DEF ProxyInv, ProxyType

\* The server process ends; what it had not read is gone.
LEMMA ServerDiesStep ==
    ASSUME ProxyInv, ServerDies
    PROVE  ProxyInv'
<1>1. AtServer /\ outbox' = outbox /\ inbox' = <<>> /\ Stream' = Stream
  BY DEF ServerDies, AtServer, Stream
<1>2. inbox' \in Seq(Sent) /\ NoticesBut(0)'
  BY <1>1 DEF NoticesBut
<1>3. Pending'
  BY <1>1, <1>2 DEF ProxyInv, Pending, InTurn, Waiting, AtServer, AtMostOne
<1> QED
  BY <1>1, <1>2, <1>3, ServerStep DEF ProxyInv, ProxyType

----------------------------------------------------------------------------
(* Theorems                                                                *)

\* Every state of the proxy satisfies the invariant.
THEOREM ProxyInvariance == ProxySpec => []ProxyInv
<1>1. ProxyInit => ProxyInv
  <2> SUFFICES ASSUME ProxyInit PROVE ProxyInv
    OBVIOUS
  <2>1. buffers["server"] = <<>> /\ outbox = <<>> /\ Stream = <<>>
    BY DEF ProxyInit, Stream
  <2>2. AnswersTyped /\ AnswersMatch /\ Ordered /\ ToolCallsVetted
    BY DEF ProxyInit, AnswersTyped, AnswersMatch, AnswersAsked, Ordered, ToolCallsVetted
  <2>3. ProxyType
    BY <2>1, <2>2 DEF ProxyInit, ProxyType
  <2>4. Pending
    BY <2>1 DEF ProxyInit, Pending, InTurn, NoticesBut, Quiet
  <2> QED
    BY <2>2, <2>3, <2>4 DEF ProxyInv
<1>2. ProxyInv /\ [ProxyNext]_proxyVars => ProxyInv'
  <2> SUFFICES ASSUME ProxyInv, [ProxyNext]_proxyVars PROVE ProxyInv'
    OBVIOUS
  <2>1. CASE UNCHANGED proxyVars
    <3>1. AtServer /\ outbox' = outbox /\ inbox' = inbox /\ Stream' = Stream
      BY <2>1 DEF proxyVars, AtServer, Stream
    <3>2. Pending'
      BY <2>1, <3>1 DEF ProxyInv, Pending, InTurn, Waiting, AtServer, NoticesBut, AtMostOne
    <3> QED
      BY <3>1, <3>2, ServerStep DEF ProxyInv, ProxyType
  <2>2. CASE ProxyNext
    BY <2>2, ClientLineStep, ClientClosesStep, ServerLineStep, ServerEofStep, ServerDiesStep,
       ServerAnswersStep, ServerChatsStep DEF ProxyNext
  <2> QED
    BY <2>1, <2>2
<1> QED
  BY <1>1, <1>2, PTL DEF ProxySpec

\* ToolCallsVetted in every state, for any documents and any outcomes of the
\* runtime: handle_tool_call forwards nothing the runtime has not permitted.
THEOREM ToolCallsPermitted == ProxySpec => []ToolCallsVetted
<1>1. ProxyInv => ToolCallsVetted
  BY DEF ProxyInv
<1> QED
  BY <1>1, ProxyInvariance, PTL

\* AnswersMatch in every state, although run_proxy never compares ids: it has
\* one request at a time with the server and ends at a message that is no
\* answer, so answers are in order whatever the server writes, and an answer is
\* the server's reply to its request until a response was written unasked.
THEOREM AnswersInOrder == ProxySpec => []AnswersMatch
<1>1. ProxyInv => AnswersMatch
  BY DEF ProxyInv
<1> QED
  BY <1>1, ProxyInvariance, PTL

----------------------------------------------------------------------------
(* The layers of the gateway                                               *)

StampsTyped(S) ==
    IsFiniteSet(S) /\ \A s \in S : s.at \in Nat /\ s.at <= clock

\* A stamp of the last second that counts has not been taken out of the list:
\* a slow request takes out only what is too old for the others as well.
Kept == \A s \in admitted : clock - s.at < Second => s \in stamps

FrontType ==
    /\ clock \in Nat
    /\ DOMAIN http = Clients
    /\ \A c \in Clients : http[c].now \in Nat /\ http[c].now <= clock
    /\ StampsTyped(stamps) /\ StampsTyped(admitted)

FrontInv == FrontType /\ Kept /\ RateBound /\ ListensSafely

\* The admitted requests of the second that begins at t.
Window(S, t) == {s \in S : s.at \in t .. t + Second - 1}

LEMMA WindowFinite ==
    ASSUME NEW S, IsFiniteSet(S), NEW t
    PROVE  IsFiniteSet(Window(S, t)) /\ Cardinality(Window(S, t)) \in Nat
BY FS_Subset, FS_CardinalityType DEF Window

\* What validation has accepted is what `serve` looks at and what the gateway keeps.
LEMMA ServedConfig ==
    ASSUME NEW file \in Files, NEW env \in Environments, NEW token, NEW world,
           Serve(file, env, token, world) = "listening"
    PROVE  LET cfg == LoadConfig(file, env).cfg
           IN  /\ cfg.bind \in Loopback /\ IsToken(token)
               /\ cfg.fail_closed /\ cfg.redaction_enabled
               /\ cfg.request_body_limit > 0 /\ cfg.request_timeout_seconds > 0
<1> DEFINE cfg == Layer(env, Layer(file.keys, Defaults))
<1>1. /\ LoadConfig(file, env).err = "ok" /\ IsToken(token)
      /\ ValidateBind(LoadConfig(file, env).cfg.bind, LoadConfig(file, env).cfg.allow_non_loopback)
  BY DEF Serve
<1>2. /\ LoadConfig(file, env) = [err |-> "ok", cfg |-> cfg] /\ Validate(cfg)
      /\ ~ Unusable(env) /\ ~ Unusable(file.keys)
  BY <1>1, Zenon DEF LoadConfig
<1>3. ASSUME NEW k \in Limits PROVE cfg[k] \in Nat
  <2>1. CASE k \in DOMAIN env
    BY <2>1, <1>2, <1>3, LayerAssumption DEF Layer, Typed, Unusable
  <2>2. CASE k \notin DOMAIN env /\ k \in DOMAIN file.keys
    BY <2>2, <1>2, <1>3, LayerAssumption DEF Layer, Typed, Unusable
  <2>3. CASE k \notin DOMAIN env /\ k \notin DOMAIN file.keys
    BY <2>3, <1>3 DEF Layer, Limits, Defaults
  <2> QED BY <2>1, <2>2, <2>3
<1>4. cfg.request_body_limit \in Nat /\ cfg.request_timeout_seconds \in Nat
  BY <1>3 DEF Limits
<1>5. LoadConfig(file, env).cfg = cfg
  BY <1>2
<1> HIDE DEF cfg
<1>6. /\ cfg.fail_closed /\ cfg.redaction_enabled /\ ~ cfg.allow_non_loopback
      /\ cfg.request_body_limit # 0 /\ cfg.request_timeout_seconds # 0
  BY <1>2, Zenon DEF Validate
<1>7. cfg.request_body_limit > 0 /\ cfg.request_timeout_seconds > 0
  BY <1>4, <1>6
<1>8. cfg.bind \in Loopback
  BY <1>1, <1>5, <1>6, Zenon DEF ValidateBind
<1> QED BY <1>1, <1>5, <1>6, <1>7, <1>8, Zenon

LEMMA FrontInvInit == FrontInit => FrontInv
<1> SUFFICES ASSUME FrontInit PROVE FrontInv
  OBVIOUS
<1>1. /\ clock = 0 /\ stamps = {} /\ admitted = {} /\ gateway.state = "off"
      /\ DOMAIN http = Clients /\ \A c \in Clients : http[c].now = 0
  BY DEF FrontInit, Fresh
<1>2. FrontType /\ Kept /\ ListensSafely
  BY <1>1, FS_EmptySet DEF FrontType, StampsTyped, Kept, ListensSafely
<1>3. RateBound
  <2> SUFFICES ASSUME NEW t \in 0 .. clock PROVE Cardinality(Window(admitted, t)) <= Least(Burst, PerSecond)
    BY DEF RateBound, Window
  <2>1. Window(admitted, t) = {}
    BY <1>1 DEF Window
  <2> QED BY <2>1, FS_EmptySet, FrontAssumption DEF Least
<1> QED BY <1>2, <1>3 DEF FrontInv

\* An answer or a step on the way leaves the limiter alone.
LEMMA FrontPlainStep ==
    ASSUME FrontInv, NEW c \in Clients,
           Acquire(c) \/ Enter(c) \/ Handle(c) \/ Expire(c) \/ ReadClock(c)
    PROVE  FrontInv'
<1>1. UNCHANGED <<gateway, clock, stamps, admitted>>
  BY DEF Acquire, Enter, Handle, Expire, ReadClock
<1>2. DOMAIN http' = Clients /\ \A b \in Clients : http'[b].now \in {http[b].now, 0, clock}
  <2>1. ASSUME NEW step, Goes(c, step)
        PROVE  DOMAIN http' = Clients /\ \A b \in Clients : http'[b].now \in {http[b].now, 0}
    BY <2>1 DEF Goes, FrontInv, FrontType
  <2>2. ASSUME NEW status, Responds(c, status)
        PROVE  DOMAIN http' = Clients /\ \A b \in Clients : http'[b].now \in {http[b].now, 0}
    BY <2>2 DEF Responds, FrontInv, FrontType
  <2>3. CASE ReadClock(c)
    BY <2>3 DEF ReadClock, FrontInv, FrontType
  <2> QED BY <2>1, <2>2, <2>3 DEF Acquire, Enter, Handle, Expire
<1>3. FrontType'
  BY <1>1, <1>2 DEF FrontInv, FrontType, StampsTyped
<1> QED BY <1>1, <1>3 DEF FrontInv, Kept, RateBound, ListensSafely

LEMMA FrontStart ==
    ASSUME FrontInv, NEW file \in Files, NEW env \in Environments, NEW token, NEW world,
           Start(file, env, token, world)
    PROVE  FrontInv'
<1>1. UNCHANGED <<clock, http, stamps, admitted>>
  BY DEF Start
<1>2. ListensSafely'
  <2>1. CASE Serve(file, env, token, world) = "listening"
    <3>1. gateway' = [state |-> "listening", cfg |-> LoadConfig(file, env).cfg, token |-> token]
      BY <2>1 DEF Start
    <3> QED BY <2>1, <3>1, ServedConfig DEF ListensSafely
  <2>2. CASE Serve(file, env, token, world) # "listening"
    <3>1. gateway' = [gateway EXCEPT !.state = Serve(file, env, token, world)]
      BY <2>2 DEF Start
    <3> QED BY <2>2, <3>1 DEF ListensSafely
  <2> QED BY <2>1, <2>2
<1> QED BY <1>1, <1>2 DEF FrontInv, FrontType, StampsTyped, Kept, RateBound

LEMMA FrontTick == FrontInv /\ Tick => FrontInv'
<1> SUFFICES ASSUME FrontInv, Tick PROVE FrontInv'
  OBVIOUS
<1>1. clock \in Nat /\ clock' = clock + 1 /\ UNCHANGED <<gateway, http, stamps, admitted>>
  BY DEF Tick, FrontInv, FrontType
<1>2. FrontType'
  BY <1>1 DEF FrontInv, FrontType, StampsTyped
<1>3. Kept'
  BY <1>1, FrontAssumption DEF FrontInv, FrontType, StampsTyped, Kept
<1>4. RateBound'
  <2> SUFFICES ASSUME NEW t \in 0 .. clock + 1
               PROVE  Cardinality(Window(admitted, t)) <= Least(Burst, PerSecond)
    BY <1>1 DEF RateBound, Window
  <2>1. CASE t \in 0 .. clock
    BY <2>1 DEF FrontInv, RateBound, Window
  <2>2. CASE t = clock + 1
    <3>1. Window(admitted, t) = {}
      BY <2>2, <1>1, FrontAssumption DEF Window, FrontInv, FrontType, StampsTyped
    <3> QED BY <3>1, FS_EmptySet, FrontAssumption DEF Least
  <2> QED BY <1>1, <2>1, <2>2
<1> QED BY <1>1, <1>2, <1>3, <1>4 DEF FrontInv, ListensSafely

\* The limiter's own step: what it counts contains every admitted request of
\* the second that ends now.
LEMMA FrontCheck ==
    ASSUME FrontInv, NEW c \in Clients, Check(c)
    PROVE  FrontInv'
<1> DEFINE now == http[c].now
           recent == Recent(now)
           stamp == [client |-> c, at |-> now]
           full == Cardinality(recent) >= Burst \/ Cardinality(recent) >= PerSecond
<1>1. /\ clock \in Nat /\ now \in Nat /\ now <= clock /\ stamp.at = now
      /\ StampsTyped(stamps) /\ StampsTyped(admitted) /\ Second \in Nat \ {0}
      /\ UNCHANGED <<gateway, clock>>
  BY FrontAssumption DEF FrontInv, FrontType, Check
<1>2. \/ full /\ stamps' = recent /\ admitted' = admitted /\ Responds(c, 429)
      \/ /\ ~ full /\ stamps' = recent \cup {stamp} /\ Goes(c, "queued")
         /\ admitted' = IF now = clock THEN admitted \cup {stamp} ELSE admitted
  BY DEF Check
<1>3. recent \subseteq stamps /\ IsFiniteSet(recent) /\ Cardinality(recent) \in Nat
  BY <1>1, FS_Subset, FS_CardinalityType DEF Recent, StampsTyped
<1>4. IsFiniteSet(recent \cup {stamp}) /\ IsFiniteSet(admitted \cup {stamp})
  BY <1>1, <1>3, FS_AddElement DEF StampsTyped
<1>5. \A s \in admitted : clock - s.at < Second => s \in recent
  BY <1>1 DEF FrontInv, Kept, Recent, StampsTyped
<1>6. DOMAIN http' = Clients /\ \A b \in Clients : http'[b].now \in {http[b].now, 0}
  <2>1. CASE Responds(c, 429)
    BY <2>1 DEF Responds, FrontInv, FrontType
  <2>2. CASE Goes(c, "queued")
    BY <2>2 DEF Goes, FrontInv, FrontType
  <2> QED BY <1>2, <2>1, <2>2
<1>7. admitted' \in {admitted, admitted \cup {stamp}} /\ stamps' \in {recent, recent \cup {stamp}}
  BY <1>2, Zenon
<1> HIDE DEF recent, stamp, full, now
<1>8. StampsTyped(stamps)' /\ StampsTyped(admitted)'
  BY <1>1, <1>3, <1>4, <1>7 DEF StampsTyped
<1>9. FrontType'
  BY <1>1, <1>6, <1>8 DEF FrontInv, FrontType
<1>10. Kept'
  BY <1>1, <1>2, <1>5 DEF Kept
<1>11. RateBound'
  <2> SUFFICES ASSUME NEW t \in 0 .. clock
               PROVE  Cardinality(Window(admitted', t)) <= Least(Burst, PerSecond)
    BY <1>1 DEF RateBound, Window
  <2>1. Cardinality(Window(admitted, t)) <= Least(Burst, PerSecond)
    BY DEF FrontInv, RateBound, Window
  <2>2. CASE admitted' = admitted
    BY <2>1, <2>2
  <2>3. CASE ~ full /\ now = clock /\ admitted' = admitted \cup {stamp}
    <3>1. CASE clock > t + Second - 1
      <4>1. Window(admitted', t) = Window(admitted, t)
        BY <1>1, <2>3, <3>1 DEF Window
      <4> QED BY <2>1, <4>1
    <3>2. CASE clock <= t + Second - 1
      <4>1. Window(admitted', t) \subseteq recent \cup {stamp}
        BY <1>1, <1>5, <2>3, <3>2 DEF Window, StampsTyped
      <4>2. Cardinality(recent \cup {stamp}) <= Cardinality(recent) + 1
        BY <1>3, FS_AddElement
      <4>3. Cardinality(Window(admitted', t)) <= Cardinality(recent \cup {stamp})
        BY <1>4, <4>1, FS_Subset
      <4>4. Cardinality(recent) < Least(Burst, PerSecond)
        BY <1>3, <2>3, FrontAssumption DEF full, Least
      <4>5. Cardinality(Window(admitted', t)) \in Nat /\ Cardinality(recent \cup {stamp}) \in Nat
        BY <1>4, <4>1, FS_Subset, FS_CardinalityType
      <4> QED BY <1>3, <4>2, <4>3, <4>4, <4>5, FrontAssumption DEF Least
    <3> QED BY <1>1, <3>1, <3>2
  <2> QED BY <1>2, <2>2, <2>3
<1> QED BY <1>1, <1>9, <1>10, <1>11 DEF FrontInv, ListensSafely

\* The layers keep the invariant in every step.
LEMMA FrontInvStep == FrontInv /\ [FrontNext]_frontVars => FrontInv'
<1> SUFFICES ASSUME FrontInv, [FrontNext]_frontVars PROVE FrontInv'
  OBVIOUS
<1>1. CASE UNCHANGED frontVars
  BY <1>1 DEF frontVars, FrontInv, FrontType, StampsTyped, Kept, RateBound, ListensSafely
<1>2. CASE FrontNext
  BY <1>2, FrontStart, FrontTick, FrontCheck, FrontPlainStep DEF FrontNext
<1> QED BY <1>1, <1>2

\* The stamps the limiter keeps hold every timely admission of the last second,
\* and the configuration of a gateway that listens is a validated one, for any
\* number of requests of the gateway and any layers of its configuration.
THEOREM FrontInvariance == FrontSpec => []FrontInv
BY FrontInvInit, FrontInvStep, PTL DEF FrontSpec

\* Of the requests checked on time, the limiter of the gateway lets no more than
\* its smaller limit through in any second, for any number of requests in any
\* order, although the clock is read before the lock is taken.
THEOREM LimiterBounds == FrontSpec => []RateBound
<1>1. FrontInv => RateBound
  BY DEF FrontInv
<1> QED BY <1>1, FrontInvariance, PTL

\* A gateway that listens is on a loopback address, has a well-formed token,
\* fails closed, redacts and has limits, whatever the file and the environment say.
THEOREM GatewayListensSafely == FrontSpec => []ListensSafely
<1>1. FrontInv => ListensSafely
  BY DEF FrontInv
<1> QED BY <1>1, FrontInvariance, PTL

-----------------------------------------------------------------------------
(***************************************************************************)
(* The redactor.  A scan finds what is to be found (ScanUnfolds to         *)
(* MatchesSpan); merging turns any finite set of matches into blocks that  *)
(* stand apart and cover the same places (BlocksMerge to MergeResult);     *)
(* replacing them from the right yields the text that the specification    *)
(* shows (ShownStretch to ApplyResult); and a lexeme of that text comes    *)
(* from a place that no match covers (Origins to TokenGone).               *)
(***************************************************************************)

\* Scanned is the function its definition describes.
LEMMA ScanUnfolds ==
    ASSUME NEW ends \in Seq(Nat)
    PROVE  /\ Scanned(ends)[0] = {}
           /\ \A i \in 1 .. Len(ends) :
                 Scanned(ends)[i] = Scan(ends, Scanned(ends)[i - 1], i)
<1> DEFINE n == Len(ends)
           X == SUBSET (Nat \X Nat)
           Unrolled(f) == [i \in 0 .. n |-> IF i = 0 THEN {} ELSE Scan(ends, f[i - 1], i)]
           F == [i \in Nat |-> [found \in X |-> IF i + 1 \in 1 .. n
                                                THEN Scan(ends, found, i + 1) ELSE found]]
           w == Scanned(ends)
<1>1. n \in Nat /\ \A i \in 1 .. n : ends[i] \in Nat
  OBVIOUS
<1>2. F \in [Nat -> [X -> X]]
  <2>1. ASSUME NEW i \in Nat, NEW found \in X, i + 1 \in 1 .. n
        PROVE  Scan(ends, found, i + 1) \in X
    <3>1. <<i + 1, ends[i + 1]>> \in Nat \X Nat
      BY <1>1, <2>1
    <3> QED BY <3>1 DEF Scan
  <2> HIDE DEF n, X
  <2> QED BY <2>1
<1>3. PICK g \in [0 .. n -> X] : g[0] = {} /\ \A i \in 1 .. n : g[i] = F[i - 1][g[i - 1]]
  <2>1. {} \in X
    OBVIOUS
  <2> HIDE DEF F, X, n
  <2>2. Unrollings(X, F, {}, n) # {}
    BY <1>1, <1>2, <2>1, Unrolling
  <2>3. PICK g : g \in Unrollings(X, F, {}, n)
    BY <2>2
  <2> QED BY <2>3 DEF Unrollings
<1>4. g = Unrolled(g)
  <2>1. ASSUME NEW i \in 0 .. n PROVE g[i] = Unrolled(g)[i]
    <3>1. CASE i = 0
      BY <1>1, <1>3, <3>1
    <3>2. CASE i # 0
      <4>1. i - 1 \in Nat /\ i - 1 \in 0 .. n /\ (i - 1) + 1 = i /\ i \in 1 .. n
        BY <1>1, <3>2
      <4>2. g[i] = F[i - 1][g[i - 1]] /\ g[i - 1] \in X
        <5> HIDE DEF F, n, X
        <5> QED BY <1>3, <4>1
      <4>3. F[i - 1][g[i - 1]] = Scan(ends, g[i - 1], i)
        <5> HIDE DEF n, X
        <5> QED BY <4>1, <4>2
      <4> HIDE DEF F
      <4> QED BY <3>2, <4>2, <4>3
    <3> QED BY <3>1, <3>2
  <2>2. g = [i \in 0 .. n |-> g[i]]
    <3> HIDE DEF n, X, F
    <3> QED BY <1>3
  <2> HIDE DEF n, X, F
  <2> QED BY <2>1, <2>2
<1>5. w = CHOOSE f : f = Unrolled(f)
  BY DEF Scanned
<1>6. w = Unrolled(w)
  <2> HIDE DEF w, Unrolled
  <2> QED BY <1>4, <1>5
<1>7. w[0] = {}
  BY <1>1, <1>6
<1>8. ASSUME NEW i \in 1 .. n PROVE w[i] = Scan(ends, w[i - 1], i)
  <2>1. i \in 0 .. n /\ i # 0
    BY <1>1
  <2> HIDE DEF w, n
  <2> QED BY <1>6, <2>1, Zenon
<1> QED BY <1>7, <1>8

\* The matches of a pattern that start at 1 .. i.
Hits(ends, i) ==
    {f \in Nat \X Nat : f[1] \in 1 .. i /\ f[2] = ends[f[1]] /\ f[2] # 0}
Within(f, j) == f[1] <= j /\ j <= f[2]

LEMMA ScanStep ==
    ASSUME NEW ends \in Seq(Nat), NEW i \in 1 .. Len(ends), NEW found \in SUBSET Hits(ends, i - 1),
           \A j \in 1 .. Len(ends) : ends[j] = 0 \/ j <= ends[j],
           \A j \in 1 .. i - 1 : ends[j] = 0 \/ \E f \in found : Within(f, j)
    PROVE  /\ Scan(ends, found, i) \subseteq Hits(ends, i)
           /\ \A j \in 1 .. i : ends[j] = 0 \/ \E f \in Scan(ends, found, i) : Within(f, j)
<1>1. ends[i] \in Nat /\ i \in Nat
  OBVIOUS
<1>2. found \subseteq Hits(ends, i)
  BY DEF Hits
<1>3. CASE ends[i] = 0
  <2>1. Scan(ends, found, i) = found
    BY <1>3 DEF Scan
  <2> QED BY <1>2, <1>3, <2>1
<1>4. CASE ends[i] # 0 /\ \E f \in found : i <= f[2]
  <2>1. Scan(ends, found, i) = found
    BY <1>4 DEF Scan
  <2>2. PICK f \in found : i <= f[2]
    BY <1>4
  <2>3. Within(f, i)
    BY <1>1, <2>2 DEF Hits, Within
  <2> QED BY <1>2, <2>1, <2>3
<1>5. CASE ends[i] # 0 /\ ~ \E f \in found : i <= f[2]
  <2> DEFINE f == <<i, ends[i]>>
  <2>1. Scan(ends, found, i) = found \cup {f}
    BY <1>5 DEF Scan
  <2>2. f \in Hits(ends, i)
    BY <1>1, <1>5 DEF Hits
  <2>3. Within(f, i)
    BY <1>1, <1>5 DEF Within
  <2> HIDE DEF f
  <2>4. \A j \in 1 .. i : ends[j] = 0 \/ \E h \in found \cup {f} : Within(h, j)
    <3>1. ASSUME NEW j \in 1 .. i, ends[j] # 0 PROVE \E h \in found \cup {f} : Within(h, j)
      <4>1. CASE j = i
        BY <2>3, <4>1
      <4>2. CASE j # i
        <5>1. j \in 1 .. i - 1
          BY <4>2
        <5> QED BY <3>1, <5>1
      <4> QED BY <4>1, <4>2
    <3> QED BY <3>1
  <2> QED BY <1>2, <2>1, <2>2, <2>4
<1> QED BY <1>3, <1>4, <1>5

\* find_iter returns matches of its pattern, and every one of them meets a match
\* that is returned.
LEMMA FindIterFacts ==
    ASSUME NEW ends \in Seq(Nat), \A j \in 1 .. Len(ends) : ends[j] = 0 \/ j <= ends[j]
    PROVE  /\ FindIter(ends) \subseteq Hits(ends, Len(ends))
           /\ \A j \in 1 .. Len(ends) : ends[j] = 0 \/ \E f \in FindIter(ends) : Within(f, j)
<1> DEFINE n == Len(ends)
           w == Scanned(ends)
           Good(i) == /\ w[i] \subseteq Hits(ends, i)
                      /\ \A j \in 1 .. i : ends[j] = 0 \/ \E f \in w[i] : Within(f, j)
           I == {i \in Nat : i <= n => Good(i)}
<1>1. n \in Nat
  OBVIOUS
<1>2. w[0] = {} /\ \A i \in 1 .. n : w[i] = Scan(ends, w[i - 1], i)
  BY ScanUnfolds
<1> HIDE DEF w
<1>3. 0 \in I
  BY <1>2 DEF Hits
<1>4. ASSUME NEW i \in Nat, i \in I PROVE i + 1 \in I
  <2> SUFFICES ASSUME i + 1 <= n PROVE Good(i + 1)
    <3> HIDE DEF Good
    <3> QED OBVIOUS
  <2>1. i + 1 \in 1 .. n /\ (i + 1) - 1 = i /\ Good(i)
    <3> HIDE DEF Good
    <3> QED BY <1>1, <1>4
  <2>2. w[i + 1] = Scan(ends, w[i], i + 1)
    BY <1>2, <2>1
  <2>3. w[i] \in SUBSET Hits(ends, (i + 1) - 1)
        /\ \A j \in 1 .. (i + 1) - 1 : ends[j] = 0 \/ \E f \in w[i] : Within(f, j)
    BY <2>1
  <2>4. /\ Scan(ends, w[i], i + 1) \subseteq Hits(ends, i + 1)
        /\ \A j \in 1 .. i + 1 : ends[j] = 0 \/ \E f \in Scan(ends, w[i], i + 1) : Within(f, j)
    BY <2>1, <2>3, ScanStep
  <2> QED BY <2>2, <2>4
<1> HIDE DEF I
<1>5. \A i \in Nat : i \in I
  BY <1>3, <1>4, NatSetInduction
<1>6. n \in I
  BY <1>1, <1>5
<1>7. Good(n)
  BY <1>1, <1>6 DEF I
<1> QED BY <1>7 DEF FindIter, w

\* The end of a run is in the text, and not before its first lexeme.
LEMMA RunEndBounds ==
    ASSUME NEW S, NEW text \in Seq(S), NEW i \in 1 .. Len(text) + 1, NEW Stop
    PROVE  /\ RunEnd(text, i, Stop) \in Nat
           /\ i - 1 <= RunEnd(text, i, Stop) /\ RunEnd(text, i, Stop) <= Len(text)
           /\ i \in DOMAIN text /\ text[i] \notin Stop => i <= RunEnd(text, i, Stop)
<1> DEFINE stops == {j \in i .. Len(text) : text[j] \in Stop}
<1>1. Len(text) \in Nat /\ i \in Nat /\ i <= Len(text) + 1 /\ 1 <= i
  OBVIOUS
<1>2. CASE stops = {}
  <2>1. RunEnd(text, i, Stop) = Len(text)
    BY <1>2 DEF RunEnd
  <2> QED BY <1>1, <2>1
<1>3. CASE stops # {}
  <2>1. RunEnd(text, i, Stop) = Min(stops) - 1
    BY <1>3 DEF RunEnd
  <2>2. stops \subseteq Nat
    BY <1>1
  <2>3. Min(stops) \in stops
    <3> HIDE DEF stops
    <3>1. \E x \in stops : \A y \in stops : x <= y
      BY <1>3, <2>2, NatLeast
    <3> QED BY <3>1 DEF Min
  <2>4. Min(stops) \in i .. Len(text) /\ text[Min(stops)] \in Stop
    BY <2>3
  <2> HIDE DEF stops
  <2> QED BY <1>1, <2>1, <2>4
<1> QED BY <1>2, <1>3

\* Matches within a text of n lexemes.
Spans(n, C) == {m \in [start : 1 .. n, end : 1 .. n, category : C] : m.start <= m.end}

LEMMA MatchSpan ==
    ASSUME NEW n \in Nat, NEW C, NEW c \in C, NEW a \in 1 .. n, NEW b \in 1 .. n, a <= b
    PROVE  /\ Match(a, b, c) \in Spans(n, C)
           /\ Match(a, b, c).start = a /\ Match(a, b, c).end = b /\ Match(a, b, c).category = c
BY DEF Match, Spans

\* What the ends of a pattern have to be.
EndsWithin(n, ends) ==
    /\ ends \in Seq(Nat) /\ Len(ends) = n
    /\ \A i \in 1 .. n : ends[i] = 0 \/ (i <= ends[i] /\ ends[i] <= n)

LEMMA FoundRanges ==
    ASSUME NEW n \in Nat, NEW ends, EndsWithin(n, ends), NEW f \in FindIter(ends)
    PROVE  /\ f[1] \in 1 .. n /\ f[2] \in 1 .. n /\ f[1] <= f[2]
           /\ f[2] = ends[f[1]] /\ f[2] # 0
<1>1. f \in Hits(ends, n)
  BY FindIterFacts DEF EndsWithin
<1> QED BY <1>1 DEF Hits, EndsWithin

LEMMA RangesSpan ==
    ASSUME NEW n \in Nat, NEW ends, EndsWithin(n, ends), NEW C, NEW c \in C,
           NEW found, found \subseteq FindIter(ends)
    PROVE  Ranges(found, c) \subseteq Spans(n, C)
<1> SUFFICES ASSUME NEW f \in found PROVE Match(f[1], f[2], c) \in Spans(n, C)
  BY DEF Ranges
<1>1. f[1] \in 1 .. n /\ f[2] \in 1 .. n /\ f[1] <= f[2]
  BY FoundRanges
<1> DEFINE a == f[1]
           b == f[2]
<1>2. a \in 1 .. n /\ b \in 1 .. n /\ a <= b
  BY <1>1
<1> HIDE DEF a, b
<1>3. Match(a, b, c) \in Spans(n, C)
  BY <1>2, MatchSpan
<1> QED BY <1>3 DEF a, b

LEMMA BearerSpan ==
    ASSUME NEW S, NEW text \in Seq(S), NEW C, "bearer_token" \in C
    PROVE  DetectBearer(text) \subseteq Spans(Len(text), C)
<1> DEFINE n == Len(text)
           Hit(i) == /\ text[i] = "bearer" /\ i + 2 \in DOMAIN text
                     /\ text[i + 1] = " " /\ IsWord(text[i + 2])
           End(i) == RunEnd(text, i + 3, ToSet(text) \ {"="})
           ends == [i \in DOMAIN text |-> IF Hit(i) THEN End(i) ELSE 0]
           Long(f) == Words[text[f[1] + 2]] + (f[2] - f[1] - 2) >= MinBearer
           found == {f \in FindIter(ends) : Long(f)}
<1>1. n \in Nat /\ DOMAIN text = 1 .. n
  OBVIOUS
<1>2. ASSUME NEW i \in 1 .. n, Hit(i) PROVE End(i) \in Nat /\ i <= End(i) /\ End(i) <= n
  <2>1. i + 3 \in 1 .. n + 1
    <3>1. i + 2 \in 1 .. n
      BY <1>1, <1>2
    <3> HIDE DEF n
    <3> QED BY <1>1, <3>1
  <2>2. End(i) \in Nat /\ (i + 3) - 1 <= End(i) /\ End(i) <= n
    BY <2>1, RunEndBounds
  <2> HIDE DEF End, n
  <2> QED BY <1>1, <2>2
<1>3. EndsWithin(n, ends)
  <2> HIDE DEF Hit, End, n
  <2> QED BY <1>1, <1>2 DEF EndsWithin
<1>4. DetectBearer(text) = Ranges(found, "bearer_token")
  BY DEF DetectBearer
<1>5. found \subseteq FindIter(ends)
  OBVIOUS
<1> HIDE DEF ends, found, n
<1>6. Ranges(found, "bearer_token") \subseteq Spans(n, C)
  BY <1>1, <1>3, <1>5, RangesSpan
<1> QED BY <1>4, <1>6 DEF n

LEMMA PemSpan ==
    ASSUME NEW S, NEW text \in Seq(S), NEW C, "private_key" \in C
    PROVE  DetectPem(text) \subseteq Spans(Len(text), C)
<1> DEFINE n == Len(text)
           End(i) == RunEnd(text, i, {"END"}) + 1
           Hit(i) == text[i] = "BEGIN" /\ End(i) \in DOMAIN text
           ends == [i \in DOMAIN text |-> IF Hit(i) THEN End(i) ELSE 0]
<1>1. n \in Nat /\ DOMAIN text = 1 .. n
  OBVIOUS
<1>2. ASSUME NEW i \in 1 .. n, Hit(i) PROVE End(i) \in Nat /\ i <= End(i) /\ End(i) <= n
  <2>1. i \in 1 .. n + 1 /\ End(i) \in 1 .. n
    BY <1>1, <1>2
  <2>2. RunEnd(text, i, {"END"}) \in Nat /\ i - 1 <= RunEnd(text, i, {"END"})
    BY <2>1, RunEndBounds
  <2> QED BY <1>1, <2>1, <2>2
<1>3. EndsWithin(n, ends)
  <2> HIDE DEF Hit, End, n
  <2> QED BY <1>1, <1>2 DEF EndsWithin
<1>4. DetectPem(text) = Ranges(FindIter(ends), "private_key")
  BY DEF DetectPem
<1> HIDE DEF ends, n
<1>5. Ranges(FindIter(ends), "private_key") \subseteq Spans(n, C)
  BY <1>1, <1>3, RangesSpan
<1> QED BY <1>4, <1>5 DEF n

TokenEnds(text, c) == [i \in DOMAIN text |-> IF text[i] \in Tokens[c] THEN i ELSE 0]

LEMMA TokenEnding ==
    ASSUME NEW S, NEW text \in Seq(S), NEW c
    PROVE  EndsWithin(Len(text), TokenEnds(text, c))
BY DEF EndsWithin, TokenEnds

LEMMA TokenSpan ==
    ASSUME NEW S, NEW text \in Seq(S), NEW C, NEW c \in C
    PROVE  DetectToken(text, c) \subseteq Spans(Len(text), C)
<1>1. Len(text) \in Nat /\ EndsWithin(Len(text), TokenEnds(text, c))
  BY TokenEnding
<1>2. DetectToken(text, c) = Ranges(FindIter(TokenEnds(text, c)), c)
  BY DEF DetectToken, TokenEnds
<1> QED BY <1>1, <1>2, RangesSpan

\* Every word of the shape is a match of its own.
LEMMA TokensFound ==
    ASSUME NEW S, NEW text \in Seq(S), NEW c, NEW i \in 1 .. Len(text), text[i] \in Tokens[c]
    PROVE  \E m \in DetectToken(text, c) : m.start <= i /\ i <= m.end
<1> DEFINE ends == TokenEnds(text, c)
<1>1. Len(text) \in Nat /\ EndsWithin(Len(text), ends)
  BY TokenEnding
<1>2. ends[i] = i
  BY DEF TokenEnds
<1> HIDE DEF ends
<1>3. PICK f \in FindIter(ends) : Within(f, i)
  <2>1. ends[i] = 0 \/ \E f \in FindIter(ends) : Within(f, i)
    BY <1>1, FindIterFacts DEF EndsWithin
  <2> QED BY <1>2, <2>1
<1>4. Match(f[1], f[2], c) \in DetectToken(text, c)
  BY DEF DetectToken, TokenEnds, Ranges, ends
<1> QED BY <1>3, <1>4 DEF Match, Within

LEMMA AssignmentSpan ==
    ASSUME NEW S, NEW text \in Seq(S), NEW C, "assignment" \in C
    PROVE  DetectAssignment(text) \subseteq Spans(Len(text), C)
<1> DEFINE n == Len(text)
           Hit(i) == /\ text[i] \in Keys /\ Value(text, i) \in DOMAIN text
                     /\ text[Sign(text, i)] \in {"=", ":"}
           End(i) == ValueEnd(text, Value(text, i))
           ends == [i \in DOMAIN text |-> IF Hit(i) THEN End(i) ELSE 0]
<1>1. n \in Nat /\ DOMAIN text = 1 .. n
  OBVIOUS
<1>2. ASSUME NEW i \in 1 .. n
      PROVE  /\ Sign(text, i) \in Nat /\ i < Sign(text, i)
             /\ Value(text, i) \in Nat /\ Sign(text, i) < Value(text, i)
  <2>1. ASSUME NEW j \in Nat PROVE AtSpace(text, j) \in Nat /\ j <= AtSpace(text, j)
    <3>1. AtSpace(text, j) = j + 1 \/ AtSpace(text, j) = j
      BY Zenon DEF AtSpace
    <3> QED BY <3>1
  <2>2. Sign(text, i) \in Nat /\ i < Sign(text, i)
    <3> DEFINE j == i + 1
    <3>1. j \in Nat /\ i \in Nat /\ i < j
      OBVIOUS
    <3>2. Sign(text, i) = AtSpace(text, j)
      BY Zenon DEF Sign
    <3> HIDE DEF j
    <3> QED BY <2>1, <3>1, <3>2
  <2>3. Value(text, i) \in Nat /\ Sign(text, i) + 1 <= Value(text, i)
    <3>1. Sign(text, i) + 1 \in Nat
      BY <2>2
    <3> QED BY <2>1, <3>1 DEF Value
  <2> QED BY <2>2, <2>3
<1>3. ASSUME NEW v \in 1 .. n
      PROVE  ValueEnd(text, v) = 0 \/ (ValueEnd(text, v) \in Nat /\ v <= ValueEnd(text, v)
                                       /\ ValueEnd(text, v) <= n)
  <2>1. CASE text[v] = "'"
    <3> DEFINE r == RunEnd(text, v + 1, {"'"})
    <3>1. v + 1 \in 1 .. n + 1
      BY <1>1
    <3>2. r \in Nat /\ (v + 1) - 1 <= r
      BY <3>1, RunEndBounds
    <3>3. ValueEnd(text, v) = IF r + 1 \in DOMAIN text THEN r + 1 ELSE 0
      BY <2>1 DEF ValueEnd
    <3> HIDE DEF r, n
    <3> QED BY <1>1, <3>2, <3>3
  <2>2. CASE text[v] # "'" /\ text[v] \in {" ", ":"}
    BY <2>2 DEF ValueEnd
  <2>3. CASE text[v] # "'" /\ text[v] \notin {" ", ":"}
    <3> DEFINE r == RunEnd(text, v, {" ", "'", ":"})
    <3>1. v \in 1 .. n + 1
      BY <1>1
    <3>4. v \in DOMAIN text /\ text[v] \notin {" ", "'", ":"}
      BY <1>1, <2>3
    <3>2. r \in Nat /\ v <= r /\ r <= n
      BY <3>1, <3>4, RunEndBounds
    <3>3. ValueEnd(text, v) = r
      BY <2>3 DEF ValueEnd
    <3> QED BY <3>2, <3>3
  <2> QED BY <2>1, <2>2, <2>3
<1>4. ASSUME NEW i \in 1 .. n, Hit(i)
      PROVE  End(i) = 0 \/ (/\ End(i) \in Nat /\ i <= End(i) /\ End(i) <= n
                            /\ Sign(text, i) + 1 <= End(i))
  <2> DEFINE v == Value(text, i)
  <2>1. v \in 1 .. n
    BY <1>1, <1>4
  <2>2. ValueEnd(text, v) = 0 \/ (ValueEnd(text, v) \in Nat /\ v <= ValueEnd(text, v)
                                  /\ ValueEnd(text, v) <= n)
    BY <1>3, <2>1
  <2> HIDE DEF n
  <2> QED BY <1>1, <1>2, <2>1, <2>2
<1>5. EndsWithin(n, ends)
  <2>1. \A i \in 1 .. n : ends[i] \in Nat /\ (ends[i] = 0 \/ (i <= ends[i] /\ ends[i] <= n))
    <3> HIDE DEF Hit, End, n
    <3> QED BY <1>1, <1>4
  <2>2. ends \in Seq(Nat) /\ Len(ends) = n
    <3> DEFINE e == [i \in 1 .. n |-> ends[i]]
    <3>1. ends = e
      <4> HIDE DEF Hit, End, n
      <4> QED BY <1>1
    <3>2. e \in Seq(Nat) /\ Len(e) = n
      <4> HIDE DEF ends, n
      <4> QED BY <1>1, <2>1
    <3> HIDE DEF e, ends
    <3> QED BY <3>1, <3>2
  <2> HIDE DEF ends, n
  <2> QED BY <2>1, <2>2 DEF EndsWithin
<1>6. DetectAssignment(text) = {Match(Sign(text, f[1]) + 1, f[2], "assignment") : f \in FindIter(ends)}
  BY DEF DetectAssignment
<1>7. ASSUME NEW f \in FindIter(ends)
      PROVE  Match(Sign(text, f[1]) + 1, f[2], "assignment") \in Spans(n, C)
  <2> DEFINE i == f[1]
             b == f[2]
             a == Sign(text, i) + 1
  <2>1. i \in 1 .. n /\ b \in 1 .. n /\ b = ends[i] /\ b # 0
    <3> HIDE DEF ends, n
    <3> QED BY <1>1, <1>5, FoundRanges
  <2>2. ends[i] = IF Hit(i) THEN End(i) ELSE 0
    <3> HIDE DEF Hit, End, n, i
    <3> QED BY <1>1, <2>1
  <2>3. Hit(i) /\ b = End(i) /\ b # 0
    <3> HIDE DEF ends, Hit, End, i, b
    <3> QED BY <2>1, <2>2
  <2>4. a <= b
    <3> HIDE DEF ends, Hit, End, i, b, n
    <3> QED BY <1>4, <2>1, <2>3
  <2>5. a \in Nat /\ 1 <= a
    <3> HIDE DEF i, n
    <3> QED BY <1>2, <2>1
  <2>6. a \in 1 .. n
    <3> HIDE DEF a, b, n, ends
    <3> QED BY <1>1, <2>1, <2>4, <2>5
  <2> HIDE DEF a, b, n
  <2>7. Match(a, b, "assignment") \in Spans(n, C)
    BY <1>1, <2>1, <2>4, <2>6, MatchSpan
  <2> QED BY <2>7 DEF a, b
<1> HIDE DEF ends, n
<1>8. DetectAssignment(text) \subseteq Spans(n, C)
  BY <1>6, <1>7
<1> QED BY <1>8 DEF n

LEMMA ExactSpan ==
    ASSUME NEW S, NEW text \in Seq(S), NEW secrets, NEW T, secrets \subseteq Seq(T),
           <<>> \notin secrets, NEW C, "configured_secret" \in C
    PROVE  DetectExact(text, secrets) \subseteq Spans(Len(text), C)
<1> SUFFICES ASSUME NEW p \in (DOMAIN text) \X secrets, OccursAt(p[2], text, p[1])
             PROVE  Match(p[1], p[1] + Len(p[2]) - 1, "configured_secret") \in Spans(Len(text), C)
  BY DEF DetectExact
<1> DEFINE a == p[1]
           s == p[2]
           b == a + Len(s) - 1
           n == Len(text)
<1>1. n \in Nat /\ a \in 1 .. n /\ s \in secrets
  OBVIOUS
<1>2. s \in Seq(T) /\ s # <<>>
  BY <1>1
<1>3. Len(s) \in Nat /\ Len(s) # 0
  <2> HIDE DEF s
  <2> QED BY <1>2
<1>4. b <= n
  BY DEF OccursAt
<1> HIDE DEF a, s, n
<1>5. b \in 1 .. n /\ a <= b
  BY <1>1, <1>3, <1>4
<1> HIDE DEF b
<1>6. Match(a, b, "configured_secret") \in Spans(n, C)
  BY <1>1, <1>5, MatchSpan
<1> QED BY <1>6 DEF a, s, b, n

\* A place that a secret occupies is covered by a match of it.
LEMMA ExactFound ==
    ASSUME NEW S, NEW text \in Seq(S), NEW secrets, NEW s \in secrets, NEW i \in 1 .. Len(text),
           OccursAt(s, text, i)
    PROVE  Match(i, i + Len(s) - 1, "configured_secret") \in DetectExact(text, secrets)
<1>1. <<i, s>> \in (DOMAIN text) \X secrets
  OBVIOUS
<1> QED BY <1>1 DEF DetectExact

LEMMA SpansFinite ==
    ASSUME NEW n \in Nat, NEW C, IsFiniteSet(C)
    PROVE  IsFiniteSet(Spans(n, C))
<1> DEFINE T == ((1 .. n) \X (1 .. n)) \X C
           f == [m \in Spans(n, C) |-> << <<m.start, m.end>>, m.category>>]
<1>1. IsFiniteSet(1 .. n)
  BY FS_Interval
<1>2. IsFiniteSet((1 .. n) \X (1 .. n))
  BY <1>1, FS_Product
<1>3. IsFiniteSet(T)
  <2> DEFINE P == (1 .. n) \X (1 .. n)
  <2> HIDE DEF P
  <2>1. IsFiniteSet(P) => IsFiniteSet(P \X C)
    BY FS_Product
  <2> QED BY <1>2, <2>1 DEF P
<1>4. ASSUME NEW m \in Spans(n, C) PROVE << <<m.start, m.end>>, m.category>> \in T
  BY DEF Spans
<1>5. f \in [Spans(n, C) -> T]
  <2> HIDE DEF T
  <2> QED BY <1>4
<1>6. ASSUME NEW a \in Spans(n, C), NEW b \in Spans(n, C), f[a] = f[b] PROVE a = b
  <2>1. << <<a.start, a.end>>, a.category>> = << <<b.start, b.end>>, b.category>>
    BY <1>6
  <2>2. a.start = b.start /\ a.end = b.end /\ a.category = b.category
    BY <2>1
  <2> QED BY <2>2 DEF Spans
<1>7. f \in Injection(Spans(n, C), T)
  <2> HIDE DEF f, T
  <2> QED BY <1>5, <1>6 DEF Injection, IsInjective
<1> HIDE DEF f, T
<1> QED BY <1>3, <1>7, FS_Injection

LEMMA CategoriesFinite == IsFiniteSet(Categories)
<1>1. IsFiniteSet(DOMAIN Tokens)
  BY RedactorAssumption
<1> DEFINE a == (DOMAIN Tokens) \cup {"bearer_token"}
           b == a \cup {"private_key"}
           c == b \cup {"assignment"}
           d == c \cup {"configured_secret"}
           e == d \cup {"password"}
<1>2. IsFiniteSet(a)
  BY <1>1, FS_AddElement
<1>3. IsFiniteSet(b)
  <2> HIDE DEF a
  <2> QED BY <1>2, FS_AddElement
<1>4. IsFiniteSet(c)
  <2> HIDE DEF b
  <2> QED BY <1>3, FS_AddElement
<1>5. IsFiniteSet(d)
  <2> HIDE DEF c
  <2> QED BY <1>4, FS_AddElement
<1>6. IsFiniteSet(e)
  <2> HIDE DEF d
  <2> QED BY <1>5, FS_AddElement
<1>7. Categories = e
  BY DEF Categories, Detectors, Patterns
<1> QED BY <1>6, <1>7

\* A set of secrets as the container holds them.
SecretSet(secrets) == secrets \subseteq Seq(Lexemes) /\ <<>> \notin secrets

LEMMA MatchesSpan ==
    ASSUME NEW text \in Seq(Lexemes), NEW enabled, enabled \subseteq Detectors,
           NEW secrets, SecretSet(secrets)
    PROVE  /\ AllMatches(text, enabled, secrets) \subseteq Spans(Len(text), Categories)
           /\ IsFiniteSet(AllMatches(text, enabled, secrets))
<1> DEFINE T == Spans(Len(text), Categories)
<1>1. ASSUME NEW d \in Detectors PROVE Detect(d, text) \subseteq T
  <2>1. {"bearer_token", "private_key", "assignment"} \subseteq Categories /\ d \in Categories
    BY DEF Categories, Detectors, Patterns
  <2>2. CASE d = "bearer_token"
    <3>1. Detect(d, text) = DetectBearer(text)
      BY <2>2 DEF Detect
    <3> QED BY <2>1, <3>1, BearerSpan
  <2>3. CASE d = "private_key"
    <3>1. Detect(d, text) = DetectPem(text)
      BY <2>3 DEF Detect
    <3> QED BY <2>1, <3>1, PemSpan
  <2>4. CASE d = "assignment"
    <3>1. Detect(d, text) = DetectAssignment(text)
      BY <2>4 DEF Detect
    <3> QED BY <2>1, <3>1, AssignmentSpan
  <2>5. CASE d \notin {"bearer_token", "private_key", "assignment"}
    <3>1. Detect(d, text) = DetectToken(text, d)
      BY <2>5 DEF Detect
    <3> QED BY <2>1, <3>1, TokenSpan
  <2> QED BY <2>2, <2>3, <2>4, <2>5
<1>2. DetectExact(text, secrets) \subseteq T
  <2>1. "configured_secret" \in Categories
    BY DEF Categories
  <2> QED BY <2>1, ExactSpan DEF SecretSet
<1>3. AllMatches(text, enabled, secrets) \subseteq T
  <2> HIDE DEF T
  <2>1. ASSUME NEW m \in AllMatches(text, enabled, secrets), m \notin DetectExact(text, secrets)
        PROVE  m \in T
    <3>1. PICK d \in enabled : m \in Detect(d, text)
      BY <2>1, Zenon DEF AllMatches
    <3> QED BY <1>1, <3>1
  <2> QED BY <1>2, <2>1
<1>4. IsFiniteSet(T)
  <2>1. Len(text) \in Nat
    OBVIOUS
  <2> QED BY <2>1, CategoriesFinite, SpansFinite
<1> HIDE DEF T
<1>5. IsFiniteSet(AllMatches(text, enabled, secrets))
  BY <1>3, <1>4, FS_Subset
<1> QED BY <1>3, <1>5 DEF T

----------------------------------------------------------------------------
(* Merging                                                                 *)

LEMMA SpanType ==
    ASSUME NEW n \in Nat, NEW C, NEW m \in Spans(n, C)
    PROVE  /\ m.start \in Nat /\ m.end \in Nat /\ m.category \in C
           /\ 1 <= m.start /\ m.start <= m.end /\ m.end <= n
           /\ m = Match(m.start, m.end, m.category)
BY DEF Spans, Match

\* A match that comes first begins first.
LEMMA FirstFacts ==
    ASSUME NEW n \in Nat, NEW C, NEW left, left \subseteq Spans(n, C), left # {}
    PROVE  First(left) \in left /\ \A o \in left : First(left).start <= o.start
<1> DEFINE A == {o.start : o \in left}
<1>1. \A o \in left : o.start \in Nat /\ o.end \in Nat /\ o.end <= n
  BY SpanType
<1>2. PICK a \in A : \A y \in A : a <= y
  <2>1. A \subseteq Nat /\ A # {}
    BY <1>1
  <2> HIDE DEF A
  <2> QED BY <2>1, NatLeast
<1> DEFINE B == {n - o.end : o \in {o \in left : o.start = a}}
<1>3. PICK b \in B : \A y \in B : b <= y
  <2>1. B \subseteq Nat
    BY <1>1
  <2>2. B # {}
    BY <1>2
  <2> HIDE DEF B
  <2> QED BY <2>1, <2>2, NatLeast
<1>4. PICK m \in left : m.start = a /\ n - m.end = b
  BY <1>3
<1>5. \A o \in left : a <= o.start
  BY <1>2
<1>6. ASSUME NEW o \in left PROVE ~ Before(o, m)
  <2>1. a <= o.start /\ a \in Nat /\ o.start \in Nat /\ o.end \in Nat /\ m.end \in Nat
    BY <1>1, <1>4, <1>5
  <2>2. o.start = a => b <= n - o.end
    BY <1>3
  <2> HIDE DEF A, B
  <2> QED BY <1>4, <2>1, <2>2 DEF Before
<1>7. First(left) \in left /\ \A o \in left : ~ Before(o, First(left))
  <2> HIDE DEF A, B
  <2> QED BY <1>6 DEF First
<1>8. ASSUME NEW o \in left PROVE First(left).start <= o.start
  <2>1. ~ Before(o, First(left)) /\ o.start \in Nat /\ First(left).start \in Nat
    BY <1>1, <1>7
  <2> QED BY <2>1 DEF Before
<1> QED BY <1>7, <1>8

\* The merged ranges against the matches that were merged: there is a gap between
\* two ranges, each match is inside one, each range begins with a match and has no
\* place without one, and its category is what its matches share.
Inside(m, b) == b.start <= m.start /\ m.end <= b.end
Cats(done, b) == {m.category : m \in {o \in done : b.start <= o.start /\ o.start <= b.end}}
Apart(merged) ==
    \A i, j \in DOMAIN merged : i < j => merged[i].end + 1 < merged[j].start
Holds(merged, done) == \A m \in done : \E j \in DOMAIN merged : Inside(m, merged[j])
Around(m, p) == m.start <= p /\ p <= m.end
Tight(b, done) == /\ \E m \in done : m.start = b.start
                  /\ \A p \in b.start .. b.end : \E m \in done : Around(m, p)
Named(b, done) == b.category = Common(Cats(done, b))
Blocks(merged, done) ==
    /\ Apart(merged) /\ Holds(merged, done)
    /\ \A j \in DOMAIN merged : Tight(merged[j], done) /\ Named(merged[j], done)

\* A range of one match is that match.
LEMMA OneCommon ==
    ASSUME NEW c
    PROVE  Common({c}) = c
BY DEF Common

\* The last range ends behind all others.
LEMMA LastEnd ==
    ASSUME NEW n \in Nat, NEW C, NEW merged \in Seq(Spans(n, C)), Apart(merged),
           NEW j \in DOMAIN merged
    PROVE  /\ merged[j].end <= merged[Len(merged)].end
           /\ j # Len(merged) => merged[j].end + 1 < merged[Len(merged)].start
<1> DEFINE k == Len(merged)
<1>1. k \in DOMAIN merged /\ j \in Nat /\ k \in Nat /\ j <= k
  OBVIOUS
<1>2. merged[j] \in Spans(n, C) /\ merged[k] \in Spans(n, C)
  BY <1>1
<1>3. /\ merged[j].end \in Nat /\ merged[k].end \in Nat /\ merged[k].start \in Nat
      /\ merged[k].start <= merged[k].end
  BY <1>2, SpanType
<1>4. j # k => merged[j].end + 1 < merged[k].start
  BY <1>1 DEF Apart
<1> HIDE DEF k
<1>5. merged[j].end <= merged[k].end
  BY <1>3, <1>4
<1> QED BY <1>4, <1>5 DEF k

LEMMA BlocksAppend ==
    ASSUME NEW n \in Nat, NEW C, NEW done, done \subseteq Spans(n, C), NEW x \in Spans(n, C),
           NEW merged \in Seq(Spans(n, C)), Blocks(merged, done),
           \A j \in DOMAIN merged : merged[j].end + 1 < x.start
    PROVE  Blocks(Append(merged, x), done \cup {x})
<1> DEFINE k == Len(merged)
           new == Append(merged, x)
           D == done \cup {x}
<1>1. /\ k \in Nat /\ DOMAIN merged = 1 .. k /\ new[k + 1] = x /\ DOMAIN new = 1 .. k + 1
      /\ \A j \in 1 .. k : new[j] = merged[j]
  OBVIOUS
<1>2. x.start \in Nat /\ x.end \in Nat /\ x.start <= x.end
  BY SpanType
<1>3. \A j \in 1 .. k : /\ merged[j].start \in Nat /\ merged[j].end \in Nat
                        /\ merged[j].end + 1 < x.start /\ merged[j].start <= merged[j].end
  <2>1. \A j \in 1 .. k : merged[j] \in Spans(n, C)
    BY <1>1
  <2> QED BY <1>1, <2>1, SpanType
<1>4. \A m \in done : m.start \in Nat /\ m.end \in Nat /\ m.start <= m.end
  BY SpanType
<1> HIDE DEF new, k
<1>5. Apart(new)
  <2> SUFFICES ASSUME NEW i \in 1 .. k + 1, NEW j \in 1 .. k + 1, i < j
               PROVE  new[i].end + 1 < new[j].start
    BY <1>1 DEF Apart
  <2>1. i \in 1 .. k
    BY <1>1
  <2>2. CASE j = k + 1
    BY <1>1, <1>3, <2>1, <2>2
  <2>3. CASE j # k + 1
    <3>1. j \in 1 .. k
      BY <1>1, <2>3
    <3> QED BY <1>1, <2>1, <3>1 DEF Blocks, Apart
  <2> QED BY <2>2, <2>3
<1>6. Holds(new, D)
  <2> SUFFICES ASSUME NEW m \in D PROVE \E j \in 1 .. k + 1 : Inside(m, new[j])
    BY <1>1 DEF Holds
  <2>1. CASE m \in done
    <3>1. PICK j \in 1 .. k : Inside(m, merged[j])
      BY <1>1, <2>1 DEF Blocks, Holds
    <3>2. j \in 1 .. k + 1 /\ new[j] = merged[j]
      BY <1>1
    <3> QED BY <3>1, <3>2
  <2>2. CASE m = x
    <3>1. Inside(x, new[k + 1]) /\ k + 1 \in 1 .. k + 1
      BY <1>1, <1>2 DEF Inside
    <3> QED BY <2>2, <3>1
  <2> QED BY <2>1, <2>2
<1>7. ASSUME NEW m \in done PROVE m.end < x.start
  <2>1. PICK j \in 1 .. k : Inside(m, merged[j])
    BY <1>1 DEF Blocks, Holds
  <2> QED BY <1>2, <1>3, <1>4, <2>1 DEF Inside
<1>8. ASSUME NEW j \in 1 .. k PROVE Tight(new[j], D) /\ Named(new[j], D)
  <2>1. Tight(merged[j], done) /\ Named(merged[j], done)
    BY <1>1 DEF Blocks
  <2>2. Tight(merged[j], D)
    BY <2>1 DEF Tight
  <2>3. ~ (x.start <= merged[j].end)
    BY <1>2, <1>3
  <2>4. Cats(D, merged[j]) = Cats(done, merged[j])
    BY <2>3 DEF Cats
  <2> QED BY <1>1, <2>1, <2>2, <2>4 DEF Named
<1>9. Tight(x, D)
  <2>1. \A p \in x.start .. x.end : Around(x, p)
    BY <1>2 DEF Around
  <2> QED BY <2>1 DEF Tight
<1>10. Named(x, D)
  <2>1. {o \in D : x.start <= o.start /\ o.start <= x.end} = {x}
    <3>1. ASSUME NEW o \in done PROVE ~ (x.start <= o.start)
      BY <1>2, <1>4, <1>7
    <3> QED BY <1>2, <3>1
  <2>2. Cats(D, x) = {x.category}
    BY <2>1 DEF Cats
  <2> QED BY <2>2, OneCommon DEF Named
<1>11. \A j \in DOMAIN new : Tight(new[j], D) /\ Named(new[j], D)
  <2> SUFFICES ASSUME NEW j \in 1 .. k + 1 PROVE Tight(new[j], D) /\ Named(new[j], D)
    BY <1>1
  <2>1. CASE j = k + 1
    BY <1>1, <1>9, <1>10, <2>1
  <2>2. CASE j # k + 1
    <3>1. j \in 1 .. k
      BY <1>1, <2>2
    <3> QED BY <1>8, <3>1
  <2> QED BY <2>1, <2>2
<1> QED BY <1>5, <1>6, <1>11 DEF Blocks, new

LEMMA CommonAdd ==
    ASSUME NEW F, F # {}, NEW c
    PROVE  Common(F \cup {c}) = IF c # Common(F) THEN "password" ELSE Common(F)
<1>1. CASE \E d \in F : F = {d}
  <2>1. PICK d : F = {d}
    BY <1>1
  <2>2. Common(F) = d
    BY <2>1, OneCommon
  <2>3. CASE c = d
    BY <2>1, <2>2, <2>3, OneCommon
  <2>4. CASE c # d
    <3>1. ~ \E e \in F \cup {c} : F \cup {c} = {e}
      BY <2>1, <2>4
    <3> QED BY <2>2, <2>4, <3>1 DEF Common
  <2> QED BY <2>3, <2>4
<1>2. CASE ~ \E d \in F : F = {d}
  <2>1. Common(F) = "password"
    BY <1>2 DEF Common
  <2>2. ~ \E e \in F \cup {c} : F \cup {c} = {e}
    BY <1>2
  <2>3. Common(F \cup {c}) = "password"
    BY <2>2 DEF Common
  <2> QED BY <2>1, <2>3
<1> QED BY <1>1, <1>2

LEMMA MergeType ==
    ASSUME NEW n \in Nat, NEW C, "password" \in C, NEW last \in Spans(n, C), NEW x \in Spans(n, C)
    PROVE  /\ Merge(last, x) \in Spans(n, C) /\ Merge(last, x).start = last.start
           /\ Merge(last, x).end = IF x.end > last.end THEN x.end ELSE last.end
           /\ Merge(last, x).category
                 = IF x.category # last.category THEN "password" ELSE last.category
<1> DEFINE e == IF x.end > last.end THEN x.end ELSE last.end
           c == IF x.category # last.category THEN "password" ELSE last.category
<1>1. /\ last.start \in Nat /\ last.end \in Nat /\ 1 <= last.start /\ last.start <= last.end
      /\ last.end <= n /\ x.end \in Nat /\ x.end <= n /\ last.category \in C
  BY SpanType
<1>2. last.start \in 1 .. n /\ e \in 1 .. n /\ last.start <= e
  BY <1>1
<1>3. c \in C
  BY <1>1
<1>4. Merge(last, x) = Match(last.start, e, c)
  BY DEF Merge
<1> DEFINE a == last.start
<1> HIDE DEF e, c
<1>5. a \in 1 .. n /\ e \in 1 .. n /\ a <= e
  BY <1>2
<1> HIDE DEF a
<1>6. /\ Match(a, e, c) \in Spans(n, C) /\ Match(a, e, c).start = a
      /\ Match(a, e, c).end = e /\ Match(a, e, c).category = c
  BY <1>3, <1>5, MatchSpan
<1> QED BY <1>4, <1>6 DEF a, e, c

LEMMA BlocksMerge ==
    ASSUME NEW n \in Nat, NEW C, "password" \in C, NEW done, done \subseteq Spans(n, C),
           NEW x \in Spans(n, C), NEW merged \in Seq(Spans(n, C)), merged # <<>>,
           Blocks(merged, done),
           merged[Len(merged)].start <= x.start, x.start <= merged[Len(merged)].end + 1
    PROVE  Blocks([merged EXCEPT ![Len(merged)] = Merge(@, x)], done \cup {x})
<1> DEFINE k == Len(merged)
           last == merged[k]
           b == Merge(last, x)
           new == [merged EXCEPT ![k] = Merge(@, x)]
           D == done \cup {x}
<1>1. k \in Nat /\ DOMAIN merged = 1 .. k /\ k \in 1 .. k
  OBVIOUS
<1>2. /\ DOMAIN new = 1 .. k /\ new[k] = b
      /\ \A j \in 1 .. k : j # k => new[j] = merged[j]
  BY <1>1
<1>3. \A j \in 1 .. k : merged[j] \in Spans(n, C)
  BY <1>1
<1>4. /\ x.start \in Nat /\ x.end \in Nat /\ x.start <= x.end /\ last \in Spans(n, C)
      /\ last.start \in Nat /\ last.end \in Nat /\ last.start <= last.end
      /\ last.start <= x.start /\ x.start <= last.end + 1
  BY <1>1, <1>3, SpanType
<1>5. /\ b \in Spans(n, C) /\ b.start = last.start
      /\ b.end = IF x.end > last.end THEN x.end ELSE last.end
      /\ b.category = IF x.category # last.category THEN "password" ELSE last.category
  BY <1>4, MergeType
<1>6. \A j \in 1 .. k : merged[j].start \in Nat /\ merged[j].end \in Nat
                        /\ merged[j].start <= merged[j].end
  BY <1>3, SpanType
<1>7. \A m \in done : m.start \in Nat /\ m.end \in Nat /\ m.start <= m.end
  BY SpanType
<1>8. \A j \in 1 .. k : /\ merged[j].end <= last.end
                        /\ j # k => merged[j].end + 1 < last.start
  BY <1>1, LastEnd DEF Blocks
<1> HIDE DEF new, k, last, b
<1>9. Apart(new)
  <2> SUFFICES ASSUME NEW i \in 1 .. k, NEW j \in 1 .. k, i < j
               PROVE  new[i].end + 1 < new[j].start
    BY <1>2 DEF Apart
  <2>1. i # k /\ new[i] = merged[i]
    BY <1>1, <1>2
  <2>2. CASE j = k
    BY <1>2, <1>5, <1>8, <2>1, <2>2
  <2>3. CASE j # k
    BY <1>1, <1>2, <2>1, <2>3 DEF Blocks, Apart
  <2> QED BY <2>2, <2>3
<1>10. Holds(new, D)
  <2> SUFFICES ASSUME NEW m \in D PROVE \E j \in 1 .. k : Inside(m, new[j])
    BY <1>2 DEF Holds
  <2>1. CASE m \in done
    <3>1. PICK j \in 1 .. k : Inside(m, merged[j])
      BY <1>1, <2>1 DEF Blocks, Holds
    <3>2. CASE j = k
      <4>1. last.start <= m.start /\ m.end <= last.end
        BY <3>1, <3>2 DEF Inside, last
      <4>2. Inside(m, b)
        BY <1>4, <1>5, <1>7, <2>1, <4>1 DEF Inside
      <4> QED BY <1>1, <1>2, <4>2
    <3>3. CASE j # k
      BY <1>2, <3>1, <3>3
    <3> QED BY <3>2, <3>3
  <2>2. CASE m = x
    <3>1. Inside(x, b)
      BY <1>4, <1>5 DEF Inside
    <3> QED BY <1>1, <1>2, <2>2, <3>1
  <2> QED BY <2>1, <2>2
<1>11. ASSUME NEW m \in done PROVE m.start <= last.end
  <2>1. PICK j \in 1 .. k : Inside(m, merged[j])
    BY <1>1 DEF Blocks, Holds
  <2> QED BY <1>4, <1>6, <1>7, <1>8, <2>1 DEF Inside
<1>12. ASSUME NEW j \in 1 .. k, j # k PROVE Tight(new[j], D) /\ Named(new[j], D)
  <2>1. Tight(merged[j], done) /\ Named(merged[j], done)
    BY <1>1 DEF Blocks
  <2>2. Tight(merged[j], D)
    BY <2>1 DEF Tight
  <2>3. ~ (x.start <= merged[j].end)
    BY <1>4, <1>6, <1>8, <1>12
  <2>4. Cats(D, merged[j]) = Cats(done, merged[j])
    BY <2>3 DEF Cats
  <2> QED BY <1>2, <1>12, <2>1, <2>2, <2>4 DEF Named
<1>13. Tight(last, done) /\ Named(last, done)
  BY <1>1 DEF Blocks, last
<1>14. Tight(b, D)
  <2>1. \E m \in D : m.start = b.start
    BY <1>5, <1>13 DEF Tight
  <2>2. ASSUME NEW p \in b.start .. b.end PROVE \E m \in D : Around(m, p)
    <3>1. CASE p <= last.end
      <4>1. p \in last.start .. last.end
        BY <1>4, <1>5, <3>1
      <4> QED BY <1>13, <4>1 DEF Tight
    <3>2. CASE ~ (p <= last.end)
      <4>1. Around(x, p)
        BY <1>4, <1>5, <3>2 DEF Around
      <4> QED BY <4>1
    <3> QED BY <3>1, <3>2
  <2> QED BY <2>1, <2>2 DEF Tight
<1>15. Named(b, D)
  <2> DEFINE old == Cats(done, last)
  <2>1. {o \in D : b.start <= o.start /\ o.start <= b.end}
           = {o \in done : last.start <= o.start /\ o.start <= last.end} \cup {x}
    <3>1. b.start <= x.start /\ x.start <= b.end
      BY <1>4, <1>5
    <3>2. ASSUME NEW o \in done
          PROVE  (b.start <= o.start /\ o.start <= b.end)
                    <=> (last.start <= o.start /\ o.start <= last.end)
      BY <1>4, <1>5, <1>7, <1>11
    <3> QED BY <3>1, <3>2
  <2>2. Cats(D, b) = old \cup {x.category}
    BY <2>1 DEF Cats
  <2>3. old # {}
    <3>1. PICK m \in done : m.start = last.start
      BY <1>13 DEF Tight
    <3>2. m \in {o \in done : last.start <= o.start /\ o.start <= last.end}
      BY <1>4, <3>1
    <3> QED BY <3>2 DEF Cats
  <2>4. last.category = Common(old)
    BY <1>13 DEF Named
  <2> HIDE DEF old
  <2>5. Common(old \cup {x.category})
           = IF x.category # Common(old) THEN "password" ELSE Common(old)
    BY <2>3, CommonAdd
  <2> QED BY <1>5, <2>2, <2>4, <2>5 DEF Named
<1>16. \A j \in DOMAIN new : Tight(new[j], D) /\ Named(new[j], D)
  BY <1>2, <1>12, <1>14, <1>15
<1> QED BY <1>9, <1>10, <1>16 DEF Blocks, new, k

\* The state of the loop after k matches.
States(M, n, C) == [left : SUBSET M, merged : Seq(Spans(n, C))]
Ahead(left, merged) == \A o \in left, j \in DOMAIN merged : merged[j].start <= o.start
AfterSteps(M, n, C, s, k) ==
    /\ s \in States(M, n, C)
    /\ Cardinality(s.left) = Cardinality(M) - k
    /\ Ahead(s.left, s.merged) /\ Blocks(s.merged, M \ s.left)

LEMMA MergeIntoStep ==
    ASSUME NEW n \in Nat, NEW C, "password" \in C, NEW done, done \subseteq Spans(n, C),
           NEW x \in Spans(n, C), NEW merged \in Seq(Spans(n, C)), Blocks(merged, done),
           \A j \in DOMAIN merged : merged[j].start <= x.start
    PROVE  /\ MergeInto(merged, x) \in Seq(Spans(n, C))
           /\ Blocks(MergeInto(merged, x), done \cup {x})
           /\ \A j \in DOMAIN MergeInto(merged, x) : MergeInto(merged, x)[j].start <= x.start
<1> DEFINE k == Len(merged)
<1>1. k \in Nat /\ DOMAIN merged = 1 .. k /\ (merged # <<>> => k \in 1 .. k)
  OBVIOUS
<1>2. \A j \in 1 .. k : /\ merged[j] \in Spans(n, C) /\ merged[j].end \in Nat
                        /\ merged[j].start \in Nat
  <2>1. \A j \in 1 .. k : merged[j] \in Spans(n, C)
    OBVIOUS
  <2> QED BY <2>1, SpanType
<1>3. x.start \in Nat
  BY SpanType
<1>4. CASE merged = <<>> \/ x.start > merged[k].end + 1
  <2>1. MergeInto(merged, x) = Append(merged, x)
    BY <1>4 DEF MergeInto
  <2>2. ASSUME NEW j \in DOMAIN merged PROVE merged[j].end + 1 < x.start
    <3>1. merged # <<>> /\ j \in 1 .. k /\ k \in 1 .. k
      BY <1>1
    <3>2. merged[j].end <= merged[k].end
      BY LastEnd DEF Blocks
    <3> HIDE DEF k
    <3> QED BY <1>2, <1>3, <1>4, <3>1, <3>2
  <2>3. Blocks(Append(merged, x), done \cup {x})
    BY <2>2, BlocksAppend
  <2>4. Append(merged, x) \in Seq(Spans(n, C))
    OBVIOUS
  <2>5. ASSUME NEW j \in DOMAIN Append(merged, x) PROVE Append(merged, x)[j].start <= x.start
    <3>1. CASE j = k + 1
      <4>1. Append(merged, x)[j] = x
        BY <3>1
      <4> QED BY <1>3, <4>1
    <3>2. CASE j # k + 1
      <4>1. j \in DOMAIN merged /\ Append(merged, x)[j] = merged[j]
        BY <3>2
      <4> QED BY <4>1
    <3> QED BY <3>1, <3>2
  <2> QED BY <2>1, <2>3, <2>4, <2>5
<1>5. CASE ~ (merged = <<>> \/ x.start > merged[k].end + 1)
  <2> DEFINE new == [merged EXCEPT ![k] = Merge(@, x)]
             b == Merge(merged[k], x)
  <2>1. MergeInto(merged, x) = new
    BY <1>5 DEF MergeInto
  <2>2. merged # <<>> /\ k \in 1 .. k
    BY <1>1, <1>5
  <2>3. merged[k].start <= x.start /\ x.start <= merged[k].end + 1
    <3>1. merged[k].end \in Nat /\ merged[k].start <= x.start
      BY <1>1, <1>2, <2>2
    <3> QED BY <1>3, <1>5, <3>1
  <2>4. Blocks(new, done \cup {x})
    BY <2>2, <2>3, BlocksMerge
  <2>5. b \in Spans(n, C) /\ b.start = merged[k].start
    BY <1>2, <2>2, MergeType
  <2>6. new[k] = b /\ DOMAIN new = 1 .. k /\ \A j \in 1 .. k : j # k => new[j] = merged[j]
    BY <1>1, <2>2
  <2>7. new \in Seq(Spans(n, C))
    <3> HIDE DEF b
    <3>1. new = [merged EXCEPT ![k] = b]
      BY DEF b
    <3> HIDE DEF new
    <3> QED BY <2>2, <2>5, <3>1
  <2>8. \A j \in 1 .. k : new[j].start <= x.start
    <3> HIDE DEF new, b
    <3> QED BY <1>1, <2>3, <2>5, <2>6
  <2> HIDE DEF new
  <2> QED BY <2>1, <2>4, <2>6, <2>7, <2>8
<1> QED BY <1>4, <1>5

LEMMA MergeStepFacts ==
    ASSUME NEW n \in Nat, NEW C, "password" \in C, NEW M, M \subseteq Spans(n, C), IsFiniteSet(M),
           NEW k \in Nat, k < Cardinality(M), NEW s, AfterSteps(M, n, C, s, k)
    PROVE  AfterSteps(M, n, C, MergeStep(s), k + 1)
<1> DEFINE left == s.left
           merged == s.merged
           x == First(left)
           done == M \ left
<1>1. /\ left \subseteq M /\ merged \in Seq(Spans(n, C)) /\ Ahead(left, merged)
      /\ Blocks(merged, done) /\ Cardinality(left) = Cardinality(M) - k
  BY DEF AfterSteps, States
<1>2. MergeStep(s) = [left |-> left \ {x}, merged |-> MergeInto(merged, x)]
  BY DEF MergeStep
<1> HIDE DEF left, merged, x, done
<1>3. IsFiniteSet(left) /\ Cardinality(left) \in Nat /\ Cardinality(M) \in Nat
  BY <1>1, FS_Subset, FS_CardinalityType
<1>4. left # {}
  BY <1>1, <1>3, FS_EmptySet
<1>5. x \in left /\ \A o \in left : x.start <= o.start
  <2>1. left \subseteq Spans(n, C)
    BY <1>1
  <2> QED BY <1>4, <2>1, FirstFacts DEF x
<1>6. x \in Spans(n, C) /\ done \subseteq Spans(n, C)
  BY <1>1, <1>5 DEF done
<1>7. \A j \in DOMAIN merged : merged[j].start <= x.start
  BY <1>1, <1>5 DEF Ahead
<1> DEFINE new == MergeInto(merged, x)
<1>8. /\ new \in Seq(Spans(n, C)) /\ Blocks(new, done \cup {x})
      /\ \A j \in DOMAIN new : new[j].start <= x.start
  BY <1>1, <1>6, <1>7, MergeIntoStep
<1> HIDE DEF new
<1>9. Cardinality(left \ {x}) = Cardinality(M) - (k + 1)
  <2>1. Cardinality(left \ {x}) = Cardinality(left) - 1
    BY <1>3, <1>5, FS_RemoveElement
  <2> QED BY <1>1, <1>3, <2>1
<1>10. M \ (left \ {x}) = done \cup {x}
  BY <1>1, <1>5 DEF done
<1>11. Ahead(left \ {x}, new)
  <2> SUFFICES ASSUME NEW o \in left \ {x}, NEW j \in DOMAIN new PROVE new[j].start <= o.start
    BY DEF Ahead
  <2>1. new[j] \in Spans(n, C) /\ o \in Spans(n, C)
    BY <1>1, <1>8
  <2>2. new[j].start \in Nat /\ o.start \in Nat /\ x.start \in Nat
    BY <1>6, <2>1, SpanType
  <2>3. new[j].start <= x.start /\ x.start <= o.start
    BY <1>5, <1>8
  <2> QED BY <2>2, <2>3
<1> DEFINE t == MergeStep(s)
<1>12. t.left = left \ {x} /\ t.merged = new /\ t \in States(M, n, C)
  <2>1. t = [left |-> left \ {x}, merged |-> new]
    BY <1>2 DEF new
  <2>2. left \ {x} \in SUBSET M
    BY <1>1
  <2> HIDE DEF t
  <2> QED BY <1>8, <2>1, <2>2 DEF States
<1> HIDE DEF t
<1>13. AfterSteps(M, n, C, t, k + 1)
  BY <1>8, <1>9, <1>10, <1>11, <1>12 DEF AfterSteps
<1> QED BY <1>13 DEF t

Unmerged(M) == [left |-> M, merged |-> <<>>]

LEMMA StartFacts ==
    ASSUME NEW n \in Nat, NEW C, NEW M, IsFiniteSet(M)
    PROVE  AfterSteps(M, n, C, Unmerged(M), 0)
<1>1. Unmerged(M) \in States(M, n, C) /\ Unmerged(M).left = M /\ Unmerged(M).merged = <<>>
  BY DEF Unmerged, States
<1>2. Cardinality(M) = Cardinality(M) - 0
  BY FS_CardinalityType
<1>3. Ahead(M, <<>>) /\ Blocks(<<>>, M \ M)
  BY DEF Ahead, Blocks, Apart, Holds
<1> QED BY <1>1, <1>2, <1>3 DEF AfterSteps

\* MergeRun is the function its definition describes.
LEMMA MergeUnfolds ==
    ASSUME NEW n \in Nat, NEW C, "password" \in C, NEW M, M \subseteq Spans(n, C), IsFiniteSet(M)
    PROVE  /\ MergeRun(M)[0] = Unmerged(M)
           /\ \A k \in 1 .. Cardinality(M) : MergeRun(M)[k] = MergeStep(MergeRun(M)[k - 1])
<1> DEFINE N == Cardinality(M)
           X == States(M, n, C)
           Good(s, k) == k < N /\ AfterSteps(M, n, C, s, k)
           Unrolled(f) == [k \in 0 .. N |-> IF k = 0 THEN Unmerged(M) ELSE MergeStep(f[k - 1])]
           F == [k \in Nat |-> [s \in X |-> IF Good(s, k) THEN MergeStep(s) ELSE s]]
           w == MergeRun(M)
<1>1. N \in Nat
  BY FS_CardinalityType
<1>2. ASSUME NEW k \in Nat, NEW s, Good(s, k)
      PROVE  AfterSteps(M, n, C, MergeStep(s), k + 1) /\ MergeStep(s) \in X
  <2>1. AfterSteps(M, n, C, MergeStep(s), k + 1)
    BY <1>2, MergeStepFacts
  <2> QED BY <2>1 DEF AfterSteps
<1>3. F \in [Nat -> [X -> X]]
  <2> HIDE DEF N, X, Good
  <2> QED BY <1>2
<1>4. AfterSteps(M, n, C, Unmerged(M), 0) /\ Unmerged(M) \in X
  BY StartFacts DEF AfterSteps
<1>5. PICK g \in [0 .. N -> X] : g[0] = Unmerged(M) /\ \A k \in 1 .. N : g[k] = F[k - 1][g[k - 1]]
  <2> HIDE DEF F, X, N
  <2>1. Unrollings(X, F, Unmerged(M), N) # {}
    BY <1>1, <1>3, <1>4, Unrolling
  <2>2. PICK g : g \in Unrollings(X, F, Unmerged(M), N)
    BY <2>1
  <2> QED BY <2>2 DEF Unrollings
<1> DEFINE I == {k \in Nat : k <= N => AfterSteps(M, n, C, g[k], k)}
<1>6. ASSUME NEW k \in 1 .. N, AfterSteps(M, n, C, g[k - 1], k - 1)
      PROVE  g[k] = MergeStep(g[k - 1]) /\ AfterSteps(M, n, C, g[k], k)
  <2>1. k - 1 \in Nat /\ k - 1 < N /\ (k - 1) + 1 = k /\ k - 1 \in 0 .. N
    BY <1>1
  <2>2. Good(g[k - 1], k - 1) /\ g[k - 1] \in X
    <3> HIDE DEF N, X, F
    <3> QED BY <1>5, <1>6, <2>1
  <2>3. g[k] = F[k - 1][g[k - 1]]
    <3> HIDE DEF N, X, F
    <3> QED BY <1>5
  <2>4. F[k - 1][g[k - 1]] = MergeStep(g[k - 1])
    <3> HIDE DEF N, X, Good
    <3> QED BY <2>1, <2>2
  <2>5. AfterSteps(M, n, C, MergeStep(g[k - 1]), (k - 1) + 1)
    <3> HIDE DEF Good, X, F
    <3> QED BY <1>2, <2>1, <2>2
  <2> HIDE DEF F
  <2> QED BY <2>1, <2>3, <2>4, <2>5
<1>7. \A k \in Nat : k \in I
  <2>1. 0 \in I
    <3> HIDE DEF X, F, N
    <3> QED BY <1>4, <1>5
  <2>2. ASSUME NEW k \in Nat, k \in I PROVE k + 1 \in I
    <3> SUFFICES ASSUME k + 1 <= N PROVE AfterSteps(M, n, C, g[k + 1], k + 1)
      OBVIOUS
    <3>1. k + 1 \in 1 .. N /\ (k + 1) - 1 = k /\ AfterSteps(M, n, C, g[k], k)
      <4> HIDE DEF N
      <4> QED BY <1>1, <2>2
    <3> HIDE DEF X, F, N
    <3> QED BY <1>6, <3>1
  <2> HIDE DEF I
  <2> QED BY <2>1, <2>2, NatSetInduction
<1>8. g = Unrolled(g)
  <2>1. ASSUME NEW k \in 0 .. N PROVE g[k] = Unrolled(g)[k]
    <3>1. CASE k = 0
      <4> HIDE DEF N, X, F
      <4> QED BY <1>1, <1>5, <3>1
    <3>2. CASE k # 0
      <4>1. k \in 1 .. N /\ k - 1 \in Nat /\ k - 1 <= N
        BY <1>1, <3>2
      <4>2. AfterSteps(M, n, C, g[k - 1], k - 1)
        <5>1. k - 1 \in I
          <6> HIDE DEF I
          <6> QED BY <1>7, <4>1
        <5> QED BY <4>1, <5>1
      <4>3. g[k] = MergeStep(g[k - 1])
        <5> HIDE DEF N, X, F, I
        <5> QED BY <1>6, <4>1, <4>2
      <4> HIDE DEF N
      <4> QED BY <3>2, <4>3
    <3> QED BY <3>1, <3>2
  <2>2. g = [k \in 0 .. N |-> g[k]]
    <3> HIDE DEF N, X, F
    <3> QED BY <1>5
  <2> HIDE DEF N, X, F
  <2> QED BY <2>1, <2>2
<1>9. w = CHOOSE f : f = Unrolled(f)
  BY DEF MergeRun, Unmerged
<1>10. w = Unrolled(w)
  <2> HIDE DEF w, Unrolled
  <2> QED BY <1>8, <1>9
<1>11. w[0] = Unmerged(M)
  <2>1. 0 \in 0 .. N
    BY <1>1
  <2> HIDE DEF w, N
  <2> QED BY <1>10, <2>1, Zenon
<1>12. ASSUME NEW k \in 1 .. N PROVE w[k] = MergeStep(w[k - 1])
  <2>1. k \in 0 .. N /\ k # 0
    BY <1>1
  <2> HIDE DEF w, N
  <2> QED BY <1>10, <2>1, Zenon
<1> QED BY <1>11, <1>12

\* What merging comes to.
LEMMA MergeResult ==
    ASSUME NEW n \in Nat, NEW C, "password" \in C, NEW M, M \subseteq Spans(n, C), IsFiniteSet(M)
    PROVE  /\ MergeOverlapping(M) \in Seq(Spans(n, C))
           /\ Blocks(MergeOverlapping(M), M)
<1> DEFINE N == Cardinality(M)
           w == MergeRun(M)
           I == {k \in Nat : k <= N => AfterSteps(M, n, C, w[k], k)}
<1>1. N \in Nat
  BY FS_CardinalityType
<1>2. w[0] = Unmerged(M) /\ \A k \in 1 .. N : w[k] = MergeStep(w[k - 1])
  BY MergeUnfolds
<1> HIDE DEF w, N
<1>3. 0 \in I
  BY <1>2, StartFacts
<1>4. ASSUME NEW k \in Nat, k \in I PROVE k + 1 \in I
  <2> SUFFICES ASSUME k + 1 <= N PROVE AfterSteps(M, n, C, w[k + 1], k + 1)
    OBVIOUS
  <2>1. k + 1 \in 1 .. N /\ (k + 1) - 1 = k /\ k < N /\ AfterSteps(M, n, C, w[k], k)
    BY <1>1, <1>4
  <2>2. w[k + 1] = MergeStep(w[k])
    BY <1>2, <2>1
  <2>3. AfterSteps(M, n, C, MergeStep(w[k]), k + 1)
    BY <2>1, MergeStepFacts DEF N
  <2> QED BY <2>2, <2>3
<1> HIDE DEF I
<1>5. \A k \in Nat : k \in I
  BY <1>3, <1>4, NatSetInduction
<1>6. AfterSteps(M, n, C, w[N], N)
  BY <1>1, <1>5 DEF I
<1> DEFINE s == w[N]
<1>7. /\ s.left \subseteq M /\ s.merged \in Seq(Spans(n, C)) /\ Blocks(s.merged, M \ s.left)
      /\ Cardinality(s.left) = N - N
  BY <1>6 DEF AfterSteps, States, N
<1> HIDE DEF s
<1>8. s.left = {}
  <2>1. IsFiniteSet(s.left)
    BY <1>7, FS_Subset
  <2> QED BY <1>1, <1>7, <2>1, FS_EmptySet
<1>9. M \ s.left = M
  BY <1>8
<1>10. MergeOverlapping(M) = s.merged
  BY DEF MergeOverlapping, s, w, N
<1> QED BY <1>7, <1>9, <1>10

----------------------------------------------------------------------------
(* The merged ranges are the covered blocks                                *)

\* What is known of the result of merging the matches M in a text of n lexemes.
Merged(text, n, C, M, merged) ==
    /\ n \in Nat /\ DOMAIN text = 1 .. n /\ M \subseteq Spans(n, C)
    /\ merged \in Seq(Spans(n, C)) /\ Blocks(merged, M)

LEMMA MergedTypes ==
    ASSUME NEW text, NEW n, NEW C, NEW M, NEW merged, Merged(text, n, C, M, merged),
           NEW j \in DOMAIN merged
    PROVE  /\ merged[j].start \in Nat /\ merged[j].end \in Nat /\ merged[j].category \in C
           /\ 1 <= merged[j].start /\ merged[j].start <= merged[j].end /\ merged[j].end <= n
<1>1. n \in Nat /\ merged[j] \in Spans(n, C)
  BY DEF Merged
<1> QED BY <1>1, SpanType

LEMMA CoveredBy ==
    ASSUME NEW text, NEW n, NEW C, NEW M, NEW merged, Merged(text, n, C, M, merged)
    PROVE  /\ \A i \in Covered(text, M) : \E j \in DOMAIN merged : Around(merged[j], i)
           /\ \A j \in DOMAIN merged, i \in Nat : Around(merged[j], i) => i \in Covered(text, M)
<1>1. ASSUME NEW i \in Covered(text, M) PROVE \E j \in DOMAIN merged : Around(merged[j], i)
  <2>1. i \in 1 .. n /\ n \in Nat
    BY DEF Covered, Merged
  <2>2. PICK m \in M : m.start <= i /\ i <= m.end
    BY DEF Covered
  <2>3. PICK j \in DOMAIN merged : Inside(m, merged[j])
    BY DEF Merged, Blocks, Holds
  <2>4. m.start \in Nat /\ m.end \in Nat
    BY SpanType DEF Merged
  <2>5. merged[j].start \in Nat /\ merged[j].end \in Nat
    BY MergedTypes
  <2>6. Around(merged[j], i)
    BY <2>1, <2>2, <2>3, <2>4, <2>5 DEF Around, Inside
  <2> QED BY <2>6
<1>2. ASSUME NEW j \in DOMAIN merged, NEW i \in Nat, Around(merged[j], i) PROVE i \in Covered(text, M)
  <2>1. /\ merged[j].start \in Nat /\ merged[j].end \in Nat
        /\ 1 <= merged[j].start /\ merged[j].end <= n
    BY MergedTypes
  <2>2. i \in merged[j].start .. merged[j].end
    BY <1>2, <2>1 DEF Around
  <2>3. PICK m \in M : Around(m, i)
    BY <2>2 DEF Merged, Blocks, Tight
  <2>4. i \in DOMAIN text
    BY <1>2, <2>1 DEF Around, Merged
  <2> QED BY <2>3, <2>4 DEF Covered, Around
<1> QED BY <1>1, <1>2

\* A range ends before, and begins after, a place that is not covered.
LEMMA Edges ==
    ASSUME NEW text, NEW n, NEW C, NEW M, NEW merged, Merged(text, n, C, M, merged),
           NEW j \in DOMAIN merged
    PROVE  /\ merged[j].start - 1 \notin Covered(text, M)
           /\ merged[j].end + 1 \notin Covered(text, M)
<1>1. /\ merged[j].start \in Nat /\ merged[j].end \in Nat /\ merged[j].start <= merged[j].end
  BY MergedTypes
<1>2. ASSUME NEW i \in Int, i = merged[j].start - 1 \/ i = merged[j].end + 1,
             i \in Covered(text, M)
      PROVE  FALSE
  <2>1. PICK k \in DOMAIN merged : Around(merged[k], i)
    BY <1>2, CoveredBy
  <2>2. merged[k].start \in Nat /\ merged[k].end \in Nat /\ merged[k].start <= merged[k].end
    BY MergedTypes
  <2>3. j \in Nat /\ k \in Nat
    BY DEF Merged
  <2>4. /\ j < k => merged[j].end + 1 < merged[k].start
        /\ k < j => merged[k].end + 1 < merged[j].start
    BY DEF Merged, Blocks, Apart
  <2>5. CASE j = k
    BY <1>1, <1>2, <2>1, <2>5 DEF Around
  <2>6. CASE j < k
    BY <1>1, <1>2, <2>1, <2>2, <2>4, <2>6 DEF Around
  <2>7. CASE k < j
    BY <1>1, <1>2, <2>1, <2>2, <2>4, <2>7 DEF Around
  <2> QED BY <2>3, <2>5, <2>6, <2>7
<1>3. merged[j].start - 1 \in Int /\ merged[j].end + 1 \in Int
  BY <1>1
<1> QED BY <1>2, <1>3

LEMMA StartsOfBlocks ==
    ASSUME NEW text, NEW n, NEW C, NEW M, NEW merged, Merged(text, n, C, M, merged)
    PROVE  BlockStarts(text, M) = {merged[j].start : j \in DOMAIN merged}
<1>1. ASSUME NEW i \in BlockStarts(text, M) PROVE \E j \in DOMAIN merged : merged[j].start = i
  <2>1. i \in Covered(text, M) /\ i - 1 \notin Covered(text, M)
    BY DEF BlockStarts
  <2>2. i \in 1 .. n /\ n \in Nat
    BY <2>1 DEF Covered, Merged
  <2>3. PICK j \in DOMAIN merged : Around(merged[j], i)
    BY <2>1, CoveredBy
  <2>4. merged[j].start \in Nat /\ merged[j].end \in Nat
    BY MergedTypes
  <2>5. ~ Around(merged[j], i - 1)
    <3>1. i - 1 \in Nat
      BY <2>2
    <3> QED BY <2>1, <3>1, CoveredBy
  <2>6. merged[j].start = i
    BY <2>2, <2>3, <2>4, <2>5 DEF Around
  <2> QED BY <2>6
<1>2. ASSUME NEW j \in DOMAIN merged PROVE merged[j].start \in BlockStarts(text, M)
  <2>1. merged[j].start \in Nat /\ merged[j].end \in Nat /\ merged[j].start <= merged[j].end
    BY MergedTypes
  <2>2. Around(merged[j], merged[j].start)
    BY <2>1 DEF Around
  <2>3. merged[j].start \in Covered(text, M)
    BY <2>1, <2>2, CoveredBy
  <2> QED BY <2>3, Edges DEF BlockStarts
<1> QED BY <1>1, <1>2

LEMMA CategoryOfBlock ==
    ASSUME NEW text, NEW n, NEW C, NEW M, NEW merged, Merged(text, n, C, M, merged),
           NEW j \in DOMAIN merged
    PROVE  BlockCategory(text, M, merged[j].start) = merged[j].category
<1> DEFINE b == merged[j]
<1>1. b.start \in Nat /\ b.end \in Nat /\ b.start <= b.end
  BY MergedTypes
<1>2. b.category = Common(Cats(M, b))
  BY DEF Merged, Blocks, Named
<1>3. InBlock(text, M, b.start) = {o \in M : b.start <= o.start /\ o.start <= b.end}
  <2> SUFFICES ASSUME NEW m \in M, b.start <= m.start
               PROVE  (b.start .. m.end \subseteq Covered(text, M)) <=> m.start <= b.end
    BY DEF InBlock
  <2>1. m.start \in Nat /\ m.end \in Nat /\ m.start <= m.end
    BY SpanType DEF Merged
  <2>2. ASSUME b.start .. m.end \subseteq Covered(text, M), ~ (m.start <= b.end) PROVE FALSE
    <3>1. b.end + 1 \in b.start .. m.end
      BY <1>1, <2>1, <2>2
    <3>2. b.end + 1 \notin Covered(text, M)
      BY Edges
    <3> QED BY <2>2, <3>1, <3>2
  <2>3. ASSUME m.start <= b.end, NEW i \in b.start .. m.end PROVE i \in Covered(text, M)
    <3>1. PICK k \in DOMAIN merged : Inside(m, merged[k])
      BY DEF Merged, Blocks, Holds
    <3>2. merged[k].start \in Nat /\ merged[k].end \in Nat
      BY MergedTypes
    <3>3. j \in Nat /\ k \in Nat
      BY DEF Merged
    <3>4. /\ j < k => b.end + 1 < merged[k].start
          /\ k < j => merged[k].end + 1 < b.start
      BY DEF Merged, Blocks, Apart
    <3> HIDE DEF b
    <3>5. k = j
      BY <1>1, <2>1, <2>3, <3>1, <3>2, <3>3, <3>4 DEF Inside
    <3>6. Around(b, i) /\ i \in Nat
      BY <1>1, <2>1, <3>1, <3>5 DEF Inside, Around, b
    <3> QED BY <3>6, CoveredBy DEF b
  <2> QED BY <2>2, <2>3
<1> HIDE DEF b
<1>4. {m.category : m \in InBlock(text, M, b.start)} = Cats(M, b)
  BY <1>3 DEF Cats
<1>5. BlockCategory(text, M, b.start) = b.category
  BY <1>2, <1>4 DEF BlockCategory
<1> QED BY <1>5 DEF b

\* There is one range for each block.
LEMMA CountOfBlocks ==
    ASSUME NEW text, NEW n, NEW C, NEW M, NEW merged, Merged(text, n, C, M, merged)
    PROVE  Cardinality(BlockStarts(text, M)) = Len(merged)
<1> DEFINE k == Len(merged)
           T == BlockStarts(text, M)
           f == [j \in 1 .. k |-> merged[j].start]
<1>1. k \in Nat /\ DOMAIN merged = 1 .. k
  BY DEF Merged
<1>2. T = {merged[j].start : j \in 1 .. k}
  BY <1>1, StartsOfBlocks
<1> HIDE DEF k, T
<1>3. f \in [1 .. k -> T] /\ \A y \in T : \E j \in 1 .. k : f[j] = y
  BY <1>2
<1>4. ASSUME NEW i \in 1 .. k, NEW j \in 1 .. k, f[i] = f[j] PROVE i = j
  <2>1. /\ merged[i].start \in Nat /\ merged[i].end \in Nat /\ merged[i].start <= merged[i].end
        /\ merged[j].start \in Nat /\ merged[j].end \in Nat /\ merged[j].start <= merged[j].end
    BY <1>1, MergedTypes
  <2>2. /\ i < j => merged[i].end + 1 < merged[j].start
        /\ j < i => merged[j].end + 1 < merged[i].start
    BY <1>1 DEF Merged, Blocks, Apart
  <2>3. merged[i].start = merged[j].start
    BY <1>4
  <2> QED BY <1>1, <2>1, <2>2, <2>3
<1> HIDE DEF f
<1>5. f \in Injection(1 .. k, T)
  BY <1>3, <1>4 DEF Injection, IsInjective
<1>6. f \in Surjection(1 .. k, T)
  BY <1>3 DEF Surjection
<1>7. ExistsBijection(1 .. k, T)
  BY <1>5, <1>6 DEF ExistsBijection, Bijection
<1>8. Cardinality(T) = k
  BY <1>1, <1>7, FS_CountingElements
<1> QED BY <1>8 DEF k, T

----------------------------------------------------------------------------
(* Sequences                                                               *)

LEMMA ConcatEmpty ==
    ASSUME NEW T, NEW a \in Seq(T)
    PROVE  a \o <<>> = a /\ <<>> \o a = a
OBVIOUS

LEMMA PartType ==
    ASSUME NEW T, NEW s \in Seq(T), NEW a \in Nat, NEW b \in Nat, 1 <= a, b <= Len(s)
    PROVE  SubSeq(s, a, b) \in Seq(T)
OBVIOUS

LEMMA PartMore ==
    ASSUME NEW T, NEW s \in Seq(T), NEW a \in Nat, NEW b \in Nat, a <= b, b + 1 <= Len(s)
    PROVE  SubSeq(s, a + 1, b) \o <<s[b + 1]>> = SubSeq(s, a + 1, b + 1)
OBVIOUS

LEMMA PartNone ==
    ASSUME NEW T, NEW s \in Seq(T), NEW a \in Nat, a <= Len(s)
    PROVE  SubSeq(s, a + 1, a) = <<>>
OBVIOUS

LEMMA PartOfPart ==
    ASSUME NEW T, NEW s \in Seq(T), NEW p \in Nat, p <= Len(s), NEW a \in Nat, NEW b \in Nat,
           1 <= a, b <= p
    PROVE  SubSeq(SubSeq(s, 1, p), a, b) = SubSeq(s, a, b)
OBVIOUS

LEMMA PartBefore ==
    ASSUME NEW T, NEW h \in Seq(T), NEW t \in Seq(T), NEW b \in Nat, b <= Len(h)
    PROVE  SubSeq(h \o t, 1, b) = SubSeq(h, 1, b)
OBVIOUS

LEMMA PartAfter ==
    ASSUME NEW T, NEW h \in Seq(T), NEW t \in Seq(T), NEW a \in Nat, 1 <= a, a <= Len(h) + 1
    PROVE  SubSeq(h \o t, a, Len(h \o t)) = SubSeq(h, a, Len(h)) \o t
OBVIOUS

LEMMA PartLen ==
    ASSUME NEW T, NEW s \in Seq(T), NEW p \in Nat, p <= Len(s)
    PROVE  SubSeq(s, 1, p) \in Seq(T) /\ Len(SubSeq(s, 1, p)) = p
OBVIOUS

\* pre holds the concatenations of the first i members of seqs.
Flattens(T, seqs, pre) ==
    /\ pre \in [0 .. Len(seqs) -> Seq(T)] /\ pre[0] = <<>>
    /\ \A i \in 1 .. Len(seqs) : pre[i] = pre[i - 1] \o seqs[i]

\* The last of them is FlattenSeq.
LEMMA Flattening ==
    ASSUME NEW T, NEW seqs \in Seq(Seq(T))
    PROVE  \E pre : Flattens(T, seqs, pre) /\ pre[Len(seqs)] = FlattenSeq(seqs)
<1> DEFINE n == Len(seqs)
           X == Seq(T)
           F == [i \in Nat |-> [s \in X |-> IF i + 1 \in 1 .. n THEN s \o seqs[i + 1] ELSE s]]
           Unrolled(f) == [i \in 1 .. n |-> IF i = 1 THEN seqs[i] ELSE f[i - 1] \o seqs[i]]
           w == CHOOSE f : f = Unrolled(f)
<1>1. n \in Nat /\ \A i \in 1 .. n : seqs[i] \in X
  OBVIOUS
<1>2. F \in [Nat -> [X -> X]]
  <2>1. ASSUME NEW i \in Nat, NEW s \in X, i + 1 \in 1 .. n PROVE s \o seqs[i + 1] \in X
    <3>1. seqs[i + 1] \in X
      BY <1>1, <2>1
    <3> HIDE DEF n
    <3> QED BY <3>1
  <2> HIDE DEF n, X
  <2> QED BY <2>1
<1>3. PICK pre \in [0 .. n -> X] :
          pre[0] = <<>> /\ \A i \in 1 .. n : pre[i] = F[i - 1][pre[i - 1]]
  <2>1. <<>> \in X
    OBVIOUS
  <2> HIDE DEF F, X, n
  <2>2. Unrollings(X, F, <<>>, n) # {}
    BY <1>1, <1>2, <2>1, Unrolling
  <2>3. PICK g : g \in Unrollings(X, F, <<>>, n)
    BY <2>2
  <2> QED BY <2>3 DEF Unrollings
<1>4. ASSUME NEW i \in 1 .. n PROVE pre[i] = pre[i - 1] \o seqs[i] /\ pre[i - 1] \in X
  <2>1. i - 1 \in Nat /\ i - 1 \in 0 .. n /\ (i - 1) + 1 = i
    BY <1>1
  <2>2. pre[i] = F[i - 1][pre[i - 1]] /\ pre[i - 1] \in X
    <3> HIDE DEF F, X, n
    <3> QED BY <1>3, <2>1
  <2>3. F[i - 1][pre[i - 1]] = pre[i - 1] \o seqs[i]
    <3> HIDE DEF X, n
    <3> QED BY <2>1, <2>2
  <2> HIDE DEF F, X
  <2> QED BY <2>2, <2>3
<1>5. ASSUME NEW i \in 1 .. n, i = 1 PROVE pre[i] = seqs[i]
  <2>1. pre[i] = pre[i - 1] \o seqs[i] /\ i - 1 = 0 /\ seqs[i] \in X
    <3> HIDE DEF F, X, n
    <3>1. pre[i] = pre[i - 1] \o seqs[i] /\ seqs[i] \in X
      BY <1>1, <1>4
    <3>2. i - 1 = 0
      BY <1>5
    <3> QED BY <3>1, <3>2
  <2>2. pre[i] = <<>> \o seqs[i] /\ seqs[i] \in X
    <3> HIDE DEF F, X, n
    <3> QED BY <1>3, <2>1
  <2> QED BY <2>2, ConcatEmpty
<1>6. Flattens(T, seqs, pre)
  <2> HIDE DEF F
  <2> QED BY <1>3, <1>4 DEF Flattens
<1>7. pre[n] = FlattenSeq(seqs)
  <2>1. CASE n = 0
    <3>1. FlattenSeq(seqs) = seqs /\ seqs = <<>>
      BY <2>1 DEF FlattenSeq
    <3> HIDE DEF F, X
    <3> QED BY <1>3, <2>1, <3>1
  <2>2. CASE n # 0
    <3> DEFINE g == [i \in 1 .. n |-> pre[i]]
    <3>1. ASSUME NEW i \in 1 .. n PROVE g[i] = Unrolled(g)[i]
      <4>1. CASE i = 1
        <5> HIDE DEF F, X, n
        <5> QED BY <1>5, <4>1
      <4>2. CASE i # 1
        <5>1. i - 1 \in 1 .. n
          BY <1>1, <4>2
        <5> HIDE DEF F, X, n
        <5> QED BY <1>4, <4>2, <5>1
      <4> QED BY <4>1, <4>2
    <3>2. g = Unrolled(g)
      <4>1. g = [i \in 1 .. n |-> g[i]]
        OBVIOUS
      <4>2. Unrolled(g) = [i \in 1 .. n |-> Unrolled(g)[i]]
        <5> HIDE DEF g, n
        <5> QED OBVIOUS
      <4> HIDE DEF g, n, Unrolled
      <4> QED BY <3>1, <4>1, <4>2
    <3>3. w = Unrolled(w)
      <4> HIDE DEF g, Unrolled
      <4> QED BY <3>2
    <3>4. FlattenSeq(seqs) = w[n]
      BY <2>2 DEF FlattenSeq
    <3> HIDE DEF w
    <3> DEFINE I == {i \in Nat : i + 1 <= n => w[i + 1] = pre[i + 1]}
    <3>5. ASSUME NEW i \in 1 .. n PROVE w[i] = IF i = 1 THEN seqs[i] ELSE w[i - 1] \o seqs[i]
      <4> HIDE DEF n
      <4> QED BY <3>3, Zenon
    <3>6. 0 \in I
      <4>1. 1 \in 1 .. n
        BY <1>1, <2>2
      <4>2. w[1] = seqs[1]
        BY <3>5, <4>1
      <4>3. pre[1] = seqs[1]
        <5> HIDE DEF F, X, n
        <5> QED BY <1>5, <4>1
      <4> QED BY <4>2, <4>3
    <3>7. ASSUME NEW i \in Nat, i \in I PROVE i + 1 \in I
      <4> SUFFICES ASSUME (i + 1) + 1 <= n PROVE w[(i + 1) + 1] = pre[(i + 1) + 1]
        OBVIOUS
      <4> DEFINE q == (i + 1) + 1
      <4>1. q \in 1 .. n /\ q # 1 /\ q - 1 = i + 1 /\ w[i + 1] = pre[i + 1]
        <5> HIDE DEF n
        <5> QED BY <1>1, <3>7
      <4> HIDE DEF q
      <4>2. w[q] = w[q - 1] \o seqs[q]
        BY <3>5, <4>1
      <4>3. pre[q] = pre[q - 1] \o seqs[q]
        <5> HIDE DEF F, X, n
        <5> QED BY <1>4, <4>1
      <4>4. w[q] = pre[q]
        BY <4>1, <4>2, <4>3
      <4> QED BY <4>4 DEF q
    <3> HIDE DEF I
    <3>8. \A i \in Nat : i \in I
      BY <3>6, <3>7, NatSetInduction
    <3>9. n - 1 \in Nat /\ (n - 1) + 1 = n /\ n <= n
      BY <1>1, <2>2
    <3>10. n - 1 \in I
      BY <3>8, <3>9
    <3>11. w[n] = pre[n]
      <4> HIDE DEF n
      <4> QED BY <3>9, <3>10 DEF I
    <3> QED BY <3>4, <3>11
  <2> QED BY <2>1, <2>2
<1> QED BY <1>6, <1>7

----------------------------------------------------------------------------
(* Replacing from the right gives what is to be shown                      *)

\* pre[i] is what is to be shown of the first i lexemes.
Showing(T, text, M, pre) ==
    /\ text \in Seq(T) /\ pre \in [0 .. Len(text) -> Seq(T)] /\ pre[0] = <<>>
    /\ \A i \in 1 .. Len(text) : pre[i] = pre[i - 1] \o Shown(text, M, i)

Shows(text, pre, a, b) == pre[b] = pre[a] \o SubSeq(text, a + 1, b)
Bare(text, M, a, b) == \A i \in a + 1 .. b : i \notin Covered(text, M)

\* A stretch that is not covered is shown as it is.
LEMMA ShownStretch ==
    ASSUME NEW T, NEW text, NEW M, NEW pre, Showing(T, text, M, pre),
           NEW a \in 0 .. Len(text), NEW b \in a .. Len(text), Bare(text, M, a, b)
    PROVE  Shows(text, pre, a, b)
<1> DEFINE n == Len(text)
           Good(q) == pre[q] = pre[a] \o SubSeq(text, a + 1, q)
           I == {d \in Nat : a + d <= b => Good(a + d)}
<1>1. text \in Seq(T) /\ n \in Nat /\ a \in Nat /\ b \in Nat /\ a <= b /\ b <= n
  BY DEF Showing
<1>2. \A i \in 0 .. n : pre[i] \in Seq(T)
  BY DEF Showing
<1>3. 0 \in I
  <2>1. a + 0 = a /\ pre[a] \in Seq(T)
    BY <1>1, <1>2
  <2>2. SubSeq(text, a + 1, a) = <<>>
    BY <1>1, PartNone
  <2>3. Good(a)
    BY <2>1, <2>2, ConcatEmpty
  <2> HIDE DEF Good
  <2> QED BY <2>1, <2>3
<1>4. ASSUME NEW d \in Nat, d \in I PROVE d + 1 \in I
  <2> SUFFICES ASSUME a + (d + 1) <= b PROVE Good(a + (d + 1))
    <3> HIDE DEF Good
    <3> QED OBVIOUS
  <2> DEFINE q == a + d
  <2>1. /\ q \in Nat /\ a <= q /\ q + 1 <= n /\ a + (d + 1) = q + 1 /\ q + 1 \in 1 .. n
        /\ q + 1 \in a + 1 .. b /\ (q + 1) - 1 = q /\ q \in 0 .. n
    <3> HIDE DEF n
    <3> QED BY <1>1
  <2>2. pre[q] = pre[a] \o SubSeq(text, a + 1, q)
    <3>1. a + d <= b
      BY <1>1
    <3>2. Good(a + d)
      <4> HIDE DEF Good
      <4> QED BY <1>4, <3>1
    <3> QED BY <3>2
  <2> HIDE DEF q, n, I
  <2>3. pre[q + 1] = pre[q] \o Shown(text, M, q + 1)
    <3>1. pre[q + 1] = pre[(q + 1) - 1] \o Shown(text, M, q + 1)
      BY <2>1 DEF Showing, n
    <3> QED BY <2>1, <3>1
  <2>4. Shown(text, M, q + 1) = <<text[q + 1]>>
    BY <2>1 DEF Shown, Bare
  <2>5. /\ pre[a] \in Seq(T) /\ SubSeq(text, a + 1, q) \in Seq(T) /\ <<text[q + 1]>> \in Seq(T)
    <3>1. text[q + 1] \in T
      BY <1>1, <2>1 DEF n
    <3>2. SubSeq(text, a + 1, q) \in Seq(T)
      <4>1. a + 1 \in Nat /\ 1 <= a + 1 /\ q <= Len(text)
        BY <1>1, <2>1 DEF n
      <4> QED BY <1>1, <2>1, <4>1, PartType
    <3>3. a \in 0 .. n
      BY <1>1
    <3> QED BY <1>2, <3>1, <3>2, <3>3
  <2>6. pre[q + 1] = pre[a] \o (SubSeq(text, a + 1, q) \o <<text[q + 1]>>)
    <3> DEFINE u == pre[a]
               v == SubSeq(text, a + 1, q)
               x == <<text[q + 1]>>
    <3>1. u \in Seq(T) /\ v \in Seq(T) /\ x \in Seq(T) /\ pre[q + 1] = (u \o v) \o x
      BY <2>2, <2>3, <2>4, <2>5
    <3> HIDE DEF u, v, x
    <3>2. u \in Seq(T) /\ v \in Seq(T) /\ x \in Seq(T)
      BY <3>1
    <3>3. (u \o v) \o x = u \o (v \o x)
      BY <3>2
    <3>4. pre[q + 1] = u \o (v \o x)
      BY <3>1, <3>3, Zenon
    <3> QED BY <3>4, Zenon DEF u, v, x
  <2>7. SubSeq(text, a + 1, q) \o <<text[q + 1]>> = SubSeq(text, a + 1, q + 1)
    BY <1>1, <2>1, PartMore DEF n
  <2>8. Good(q + 1)
    BY <2>6, <2>7
  <2> HIDE DEF Good
  <2> QED BY <2>1, <2>8
<1> HIDE DEF I
<1>5. \A d \in Nat : d \in I
  BY <1>3, <1>4, NatSetInduction
<1>6. b - a \in Nat /\ a + (b - a) = b
  BY <1>1
<1>7. b - a \in I
  BY <1>5, <1>6
<1>8. Good(b)
  <2> HIDE DEF Good
  <2> QED BY <1>1, <1>6, <1>7 DEF I
<1> QED BY <1>8 DEF Shows

\* Nothing more is shown of a block after its first lexeme.
LEMMA ShownBlock ==
    ASSUME NEW T, NEW text, NEW M, NEW pre, Showing(T, text, M, pre),
           NEW a \in 1 .. Len(text), NEW b \in a .. Len(text),
           \A i \in a .. b : i \in Covered(text, M)
    PROVE  pre[b] = pre[a]
<1> DEFINE n == Len(text)
           I == {d \in Nat : a + d <= b => pre[a + d] = pre[a]}
<1>1. text \in Seq(T) /\ n \in Nat /\ a \in Nat /\ b \in Nat /\ a <= b /\ b <= n /\ 1 <= a
  BY DEF Showing
<1>2. \A i \in 0 .. n : pre[i] \in Seq(T)
  BY DEF Showing
<1>3. 0 \in I
  <2>1. a + 0 = a
    BY <1>1
  <2> QED BY <2>1
<1>4. ASSUME NEW d \in Nat, d \in I PROVE d + 1 \in I
  <2> SUFFICES ASSUME a + (d + 1) <= b PROVE  pre[a + (d + 1)] = pre[a]
    OBVIOUS
  <2> DEFINE q == a + d
  <2>1. /\ q \in Nat /\ a + (d + 1) = q + 1 /\ q + 1 \in 1 .. n /\ q \in a .. b
        /\ q + 1 \in a .. b /\ (q + 1) - 1 = q /\ q \in 0 .. n
    <3> HIDE DEF n
    <3> QED BY <1>1
  <2>2. pre[q] = pre[a]
    <3>1. a + d <= b
      BY <1>1
    <3> QED BY <1>4, <3>1
  <2> HIDE DEF q, n, I
  <2>3. pre[q + 1] = pre[q] \o Shown(text, M, q + 1)
    <3>1. pre[q + 1] = pre[(q + 1) - 1] \o Shown(text, M, q + 1)
      BY <2>1 DEF Showing, n
    <3> QED BY <2>1, <3>1
  <2>4. Shown(text, M, q + 1) = <<>>
    <3>1. q + 1 \in Covered(text, M) /\ q \in Covered(text, M)
      BY <2>1
    <3>2. q + 1 \notin BlockStarts(text, M)
      BY <2>1, <3>1 DEF BlockStarts
    <3> QED BY <3>1, <3>2 DEF Shown
  <2>5. pre[q] \o <<>> = pre[q]
    BY <1>2, <2>1, ConcatEmpty
  <2> QED BY <2>1, <2>2, <2>3, <2>4, <2>5
<1> HIDE DEF I
<1>5. \A d \in Nat : d \in I
  BY <1>3, <1>4, NatSetInduction
<1>6. b - a \in Nat /\ a + (b - a) = b
  BY <1>1
<1>7. b - a \in I
  BY <1>5, <1>6
<1> QED BY <1>1, <1>6, <1>7 DEF I

\* Where the text is done after k replacements, and the end of the range before it.
Frontier(n, merged, k) == IF k = 0 THEN n + 1 ELSE merged[Len(merged) - k + 1].start
EndBefore(merged, k) == IF k = Len(merged) THEN 0 ELSE merged[Len(merged) - k].end

LEMMA GapsUncovered ==
    ASSUME NEW text, NEW n, NEW C, NEW M, NEW merged, Merged(text, n, C, M, merged),
           NEW k \in 0 .. Len(merged)
    PROVE  /\ Frontier(n, merged, k) \in 1 .. n + 1 /\ EndBefore(merged, k) \in 0 .. n
           /\ EndBefore(merged, k) < Frontier(n, merged, k)
           /\ \A i \in EndBefore(merged, k) + 1 .. Frontier(n, merged, k) - 1 :
                 i \notin Covered(text, M)
<1> DEFINE N == Len(merged)
           f == Frontier(n, merged, k)
           e == EndBefore(merged, k)
<1>1. N \in Nat /\ DOMAIN merged = 1 .. N /\ n \in Nat /\ k \in Nat /\ k <= N
  BY DEF Merged
<1>2. \A j \in 1 .. N : /\ merged[j].start \in Nat /\ merged[j].end \in Nat
                        /\ 1 <= merged[j].start /\ merged[j].start <= merged[j].end
                        /\ merged[j].end <= n
  BY <1>1, MergedTypes
<1>3. \A i, j \in 1 .. N : i < j => merged[i].end + 1 < merged[j].start
  BY <1>1 DEF Merged, Blocks, Apart
<1>4. k # 0 => N - k + 1 \in 1 .. N /\ f = merged[N - k + 1].start
  BY <1>1 DEF Frontier
<1>5. k = 0 => f = n + 1
  BY DEF Frontier
<1>6. k # N => N - k \in 1 .. N /\ e = merged[N - k].end
  <2>1. k # N => e = merged[N - k].end
    BY DEF EndBefore
  <2> HIDE DEF N, e
  <2> QED BY <1>1, <2>1
<1>7. k = N => e = 0
  BY DEF EndBefore
<1> HIDE DEF N, f, e
<1>8. f \in 1 .. n + 1
  BY <1>1, <1>2, <1>4, <1>5
<1>9. e \in 0 .. n
  BY <1>1, <1>2, <1>6, <1>7
<1>10. e < f
  <2>1. CASE k = N
    BY <1>7, <1>8, <2>1
  <2>2. CASE k # N /\ k = 0
    BY <1>1, <1>5, <1>9, <2>2
  <2>3. CASE k # N /\ k # 0
    <3>1. N - k < N - k + 1
      BY <1>1
    <3>2. merged[N - k].end + 1 < merged[N - k + 1].start
      BY <1>3, <1>4, <1>6, <2>3, <3>1
    <3> QED BY <1>2, <1>4, <1>6, <2>3, <3>2
  <2> QED BY <2>1, <2>2, <2>3
<1>11. ASSUME NEW i \in e + 1 .. f - 1, i \in Covered(text, M) PROVE FALSE
  <2>1. PICK j \in 1 .. N : Around(merged[j], i)
    BY <1>1, <1>11, CoveredBy
  <2>2. i \in Nat /\ e < i /\ i < f
    BY <1>8, <1>9
  <2>3. CASE j <= N - k
    <3>1. k # N
      BY <1>1, <2>3
    <3>2. merged[j].end <= e
      <4>1. CASE j = N - k
        BY <1>2, <1>6, <3>1, <4>1
      <4>2. CASE j # N - k
        <5>1. j < N - k
          BY <1>1, <2>3, <4>2
        <5>2. merged[j].end + 1 < merged[N - k].start
          BY <1>3, <1>6, <3>1, <5>1
        <5> DEFINE h == N - k
        <5>3. h \in 1 .. N /\ e = merged[h].end /\ merged[j].end + 1 < merged[h].start
          BY <1>6, <3>1, <5>2
        <5> HIDE DEF h
        <5>4. /\ merged[h].start \in Nat /\ merged[h].end \in Nat /\ merged[j].end \in Nat
              /\ merged[h].start <= merged[h].end
          BY <1>2, <5>3
        <5> QED BY <5>3, <5>4
      <4> QED BY <4>1, <4>2
    <3> QED BY <1>2, <1>9, <2>1, <2>2, <3>2 DEF Around
  <2>4. CASE ~ (j <= N - k)
    <3>1. k # 0
      BY <1>1, <2>4
    <3>2. f <= merged[j].start
      <4>1. CASE j = N - k + 1
        BY <1>2, <1>4, <3>1, <4>1
      <4>2. CASE j # N - k + 1
        <5>1. N - k + 1 < j
          BY <1>1, <2>4, <4>2
        <5>2. merged[N - k + 1].end + 1 < merged[j].start
          BY <1>3, <1>4, <3>1, <5>1
        <5> DEFINE h == N - k + 1
        <5>3. h \in 1 .. N /\ f = merged[h].start /\ merged[h].end + 1 < merged[j].start
          BY <1>4, <3>1, <5>2
        <5> HIDE DEF h
        <5>4. /\ merged[h].start \in Nat /\ merged[h].end \in Nat /\ merged[j].start \in Nat
              /\ merged[h].start <= merged[h].end
          BY <1>2, <5>3
        <5> QED BY SMTT(30), <5>3, <5>4
      <4> QED BY <4>1, <4>2
    <3> QED BY <1>2, <1>8, <2>1, <2>2, <3>2 DEF Around
  <2> QED BY <2>3, <2>4
<1> QED BY <1>8, <1>9, <1>10, <1>11 DEF f, e

\* A text of which the part from f on is as it is to be shown.
DoneFrom(T, text, pre, f, t) ==
    \E tail \in Seq(T) : /\ t = SubSeq(text, 1, f - 1) \o tail
                         /\ pre[Len(text)] = pre[f - 1] \o tail

Fits(T, text, tail, f, m) ==
    /\ text \in Seq(T) /\ tail \in Seq(T) /\ f \in 1 .. Len(text) + 1
    /\ m.start \in Nat /\ m.end \in Nat /\ 1 <= m.start /\ m.start <= m.end /\ m.end < f
    /\ Marker(m.category) \in T

Replaces(text, tail, f, m) ==
    Replace(SubSeq(text, 1, f - 1) \o tail, m)
       = SubSeq(text, 1, m.start - 1)
            \o (<<Marker(m.category)>> \o (SubSeq(text, m.end + 1, f - 1) \o tail))

\* One range: the text before it stays, and what is behind it has been done.
LEMMA ReplaceOne ==
    ASSUME NEW T, NEW text, NEW tail, NEW f, NEW m, Fits(T, text, tail, f, m)
    PROVE  Replaces(text, tail, f, m)
<1> DEFINE n == Len(text)
           h == SubSeq(text, 1, f - 1)
           g == m.start
           e == m.end
           t == h \o tail
           x == <<Marker(m.category)>>
           a == SubSeq(text, 1, g - 1)
           b == SubSeq(text, e + 1, f - 1)
<1>0. text \in Seq(T) /\ tail \in Seq(T) /\ Marker(m.category) \in T
  BY DEF Fits
<1>1. /\ n \in Nat /\ f \in Nat /\ f - 1 \in Nat /\ f - 1 <= n /\ g \in Nat /\ e \in Nat
      /\ g - 1 \in Nat /\ g - 1 <= f - 1 /\ e + 1 \in Nat /\ 1 <= e + 1 /\ e + 1 <= (f - 1) + 1
  BY DEF Fits
<1>2. h \in Seq(T) /\ Len(h) = f - 1
  BY <1>0, <1>1, PartLen
<1>3. a \in Seq(T) /\ b \in Seq(T) /\ x \in Seq(T)
  <2>1. a \in Seq(T)
    BY <1>0, <1>1, PartLen
  <2>2. b \in Seq(T)
    BY <1>0, <1>1, PartType
  <2>3. x \in Seq(T)
    BY <1>0
  <2> QED BY <2>1, <2>2, <2>3
<1>4. SubSeq(t, 1, g - 1) = a
  <2>1. SubSeq(t, 1, g - 1) = SubSeq(h, 1, g - 1)
    <3> HIDE DEF h, g
    <3> QED BY <1>0, <1>1, <1>2, PartBefore
  <2>2. SubSeq(h, 1, g - 1) = a
    <3> HIDE DEF g
    <3> QED BY <1>0, <1>1, PartOfPart
  <2> QED BY <2>1, <2>2
<1>5. SubSeq(t, e + 1, Len(t)) = b \o tail
  <2>1. SubSeq(t, e + 1, Len(t)) = SubSeq(h, e + 1, Len(h)) \o tail
    <3> HIDE DEF h, e
    <3> QED BY <1>0, <1>1, <1>2, PartAfter
  <2>2. SubSeq(h, e + 1, Len(h)) = SubSeq(h, e + 1, f - 1)
    BY <1>2
  <2>3. SubSeq(h, e + 1, f - 1) = b
    <3> DEFINE p == f - 1
               q == e + 1
    <3>1. p \in Nat /\ p <= Len(text) /\ q \in Nat /\ 1 <= q /\ p <= p
      BY <1>1
    <3> HIDE DEF p, q
    <3>2. SubSeq(SubSeq(text, 1, p), q, p) = SubSeq(text, q, p)
      BY <1>0, <3>1, PartOfPart
    <3> QED BY <3>2 DEF p, q
  <2> QED BY <2>1, <2>2, <2>3
<1>6. Replace(t, m) = SubSeq(t, 1, g - 1) \o x \o SubSeq(t, e + 1, Len(t))
  BY DEF Replace
<1> HIDE DEF t, a, b, x
<1>7. Replace(t, m) = (a \o x) \o (b \o tail)
  BY <1>4, <1>5, <1>6
<1>8. b \o tail \in Seq(T)
  BY <1>0, <1>3
<1>9. Replace(t, m) = a \o (x \o (b \o tail))
  <2> DEFINE c == b \o tail
  <2> HIDE DEF c
  <2>1. c \in Seq(T)
    BY <1>8 DEF c
  <2>2. (a \o x) \o c = a \o (x \o c)
    BY <1>3, <2>1
  <2>4. Replace(t, m) = (a \o x) \o c
    BY <1>7 DEF c
  <2>3. Replace(t, m) = a \o (x \o c)
    BY <2>2, <2>4
  <2> QED BY <2>3 DEF c
<1> QED BY <1>9 DEF t, a, b, x, Replaces

LEMMA ReplaceStep ==
    ASSUME NEW T, NEW text, NEW n, NEW C, NEW M, NEW merged, Merged(text, n, C, M, merged),
           n = Len(text), NEW pre, Showing(T, text, M, pre), \A c \in C : Marker(c) \in T,
           NEW k \in Nat, k < Len(merged), NEW t,
           DoneFrom(T, text, pre, Frontier(n, merged, k), t)
    PROVE  DoneFrom(T, text, pre, Frontier(n, merged, k + 1),
                    Replace(t, merged[Len(merged) - k]))
<1> DEFINE N == Len(merged)
           f == Frontier(n, merged, k)
           m == merged[N - k]
           g == m.start
           e == m.end
           x == <<Marker(m.category)>>
<1>1. N \in Nat /\ DOMAIN merged = 1 .. N /\ n \in Nat /\ N - k \in 1 .. N /\ k \in 0 .. N
  BY DEF Merged
<1>2. /\ g \in Nat /\ e \in Nat /\ 1 <= g /\ g <= e /\ e <= n /\ m.category \in C
  BY <1>1, MergedTypes
<1>3. EndBefore(merged, k) = e /\ Frontier(n, merged, k + 1) = g
  <2>1. k # N /\ k + 1 # 0 /\ N - (k + 1) + 1 = N - k
    <3>1. k < N
      OBVIOUS
    <3> HIDE DEF N
    <3> QED BY <1>1, <3>1
  <2>2. EndBefore(merged, k) = merged[N - k].end
    BY <2>1 DEF EndBefore
  <2>3. Frontier(n, merged, k + 1) = merged[N - (k + 1) + 1].start
    BY <2>1 DEF Frontier
  <2> QED BY <2>1, <2>2, <2>3
<1>4. f \in 1 .. n + 1 /\ e < f /\ \A i \in e + 1 .. f - 1 : i \notin Covered(text, M)
  BY <1>1, <1>3, GapsUncovered
<1>5. PICK tail \in Seq(T) : t = SubSeq(text, 1, f - 1) \o tail /\ pre[n] = pre[f - 1] \o tail
  BY DEF DoneFrom
<1>6. text \in Seq(T) /\ \A i \in 0 .. n : pre[i] \in Seq(T)
  BY DEF Showing
<1> DEFINE b == SubSeq(text, e + 1, f - 1)
           new == x \o (b \o tail)
<1>7. Marker(m.category) \in T
  BY <1>2
<1>8. Replace(t, m) = SubSeq(text, 1, g - 1) \o new
  <2> HIDE DEF m, f
  <2>1. Replace(SubSeq(text, 1, f - 1) \o tail, m) = SubSeq(text, 1, g - 1) \o new
    <3>1. Fits(T, text, tail, f, m)
      BY <1>2, <1>4, <1>6, <1>7 DEF Fits
    <3>2. Replaces(text, tail, f, m)
      BY <3>1, ReplaceOne, Zenon
    <3> QED BY <3>2 DEF Replaces
  <2> QED BY <1>5, <2>1
<1>9. x \in Seq(T) /\ b \in Seq(T)
  <2>1. e + 1 \in Nat /\ f - 1 \in Nat /\ 1 <= e + 1 /\ f - 1 <= Len(text)
    <3> HIDE DEF f, e
    <3> QED BY <1>1, <1>2, <1>4
  <2>2. b \in Seq(T)
    <3> HIDE DEF f, e
    <3> QED BY <1>6, <2>1, PartType
  <2>3. x \in Seq(T)
    <3> DEFINE y == Marker(m.category)
    <3> HIDE DEF y
    <3>1. <<y>> \in Seq(T)
      BY <1>7 DEF y
    <3> QED BY <3>1 DEF y
  <2> QED BY <2>2, <2>3
<1>10. pre[f - 1] = pre[e] \o b
  <2>1. e \in 0 .. Len(text) /\ f - 1 \in e .. Len(text)
    <3> HIDE DEF f, e
    <3> QED BY <1>1, <1>2, <1>4
  <2> DEFINE p == f - 1
  <2>2. Bare(text, M, e, p)
    BY <1>4 DEF Bare
  <2> HIDE DEF f, e, p
  <2>3. pre[p] = pre[e] \o SubSeq(text, e + 1, p)
    <3>1. p \in e .. Len(text)
      BY <2>1 DEF p
    <3>2. Shows(text, pre, e, p)
      BY <2>1, <2>2, <3>1, ShownStretch, Zenon
    <3> QED BY <3>2 DEF Shows
  <2> QED BY <2>3 DEF p
<1>11. pre[e] = pre[g]
  <2>1. g \in 1 .. Len(text) /\ e \in g .. Len(text)
    <3> HIDE DEF g, e
    <3> QED BY <1>1, <1>2
  <2>2. ASSUME NEW i \in g .. e PROVE i \in Covered(text, M)
    <3>1. i \in Nat /\ g <= i /\ i <= e
      <4> HIDE DEF g, e
      <4> QED BY <1>2
    <3>2. Around(m, i)
      BY <3>1 DEF Around
    <3> QED BY <1>1, <3>1, <3>2, CoveredBy
  <2> HIDE DEF g, e
  <2> QED BY <2>1, <2>2, ShownBlock
<1>12. pre[g] = pre[g - 1] \o x
  <2>1. g \in BlockStarts(text, M) /\ BlockCategory(text, M, g) = m.category
    BY <1>1, StartsOfBlocks, CategoryOfBlock
  <2>2. Shown(text, M, g) = x
    <3>1. g \in Covered(text, M)
      BY <2>1 DEF BlockStarts
    <3> HIDE DEF g, m
    <3> QED BY <2>1, <3>1 DEF Shown
  <2>3. g \in 1 .. Len(text)
    <3> HIDE DEF g, e
    <3> QED BY <1>1, <1>2
  <2> HIDE DEF g, x
  <2> QED BY <2>2, <2>3 DEF Showing
<1>13. pre[n] = pre[g - 1] \o new
  <2> DEFINE p == pre[g - 1]
  <2>1. p \in Seq(T)
    <3>1. g - 1 \in 0 .. n
      <4> HIDE DEF g, e
      <4> QED BY <1>1, <1>2
    <3> HIDE DEF g
    <3> QED BY <1>6, <3>1
  <2> HIDE DEF p, x, b, new
  <2>2. pre[n] = ((p \o x) \o b) \o tail
    BY <1>5, <1>10, <1>11, <1>12 DEF p
  <2>3. (p \o x) \in Seq(T) /\ b \o tail \in Seq(T)
    BY <1>9, <2>1
  <2>4. ((p \o x) \o b) \o tail = (p \o x) \o (b \o tail)
    <3> DEFINE u == p \o x
    <3> HIDE DEF u
    <3>1. u \in Seq(T)
      BY <2>3 DEF u
    <3>2. (u \o b) \o tail = u \o (b \o tail)
      BY SMTT(30), <1>9, <3>1
    <3> QED BY <3>2 DEF u
  <2>5. (p \o x) \o (b \o tail) = p \o (x \o (b \o tail))
    <3> DEFINE u == b \o tail
    <3> HIDE DEF u
    <3>1. u \in Seq(T)
      BY <2>3 DEF u
    <3>2. (p \o x) \o u = p \o (x \o u)
      BY SMTT(30), <1>9, <2>1, <3>1
    <3> QED BY <3>2 DEF u
  <2> QED BY <2>2, <2>4, <2>5 DEF p, new
<1>14. new \in Seq(T)
  <2>1. b \o tail \in Seq(T)
    <3> HIDE DEF b
    <3> QED BY <1>9
  <2> DEFINE u == b \o tail
  <2> HIDE DEF u, x
  <2>2. x \o u \in Seq(T)
    BY <1>9, <2>1 DEF u
  <2> QED BY <2>2 DEF u
<1> HIDE DEF new, m, g
<1>15. DoneFrom(T, text, pre, g, Replace(t, m))
  BY <1>8, <1>13, <1>14 DEF DoneFrom
<1> QED BY <1>3, <1>15 DEF m, g

LEMMA DoneType ==
    ASSUME NEW T, NEW text, NEW n, NEW C, NEW M, NEW merged, Merged(text, n, C, M, merged),
           n = Len(text), NEW pre, Showing(T, text, M, pre), NEW k \in 0 .. Len(merged), NEW t,
           DoneFrom(T, text, pre, Frontier(n, merged, k), t)
    PROVE  t \in Seq(T)
<1> DEFINE f == Frontier(n, merged, k)
<1>1. f \in 1 .. n + 1 /\ n \in Nat /\ text \in Seq(T)
  BY GapsUncovered DEF Showing, Merged
<1>2. PICK tail \in Seq(T) : t = SubSeq(text, 1, f - 1) \o tail
  BY DEF DoneFrom
<1> HIDE DEF f
<1> DEFINE h == SubSeq(text, 1, f - 1)
<1>3. h \in Seq(T)
  BY <1>1, PartLen
<1> HIDE DEF h
<1> QED BY <1>2, <1>3 DEF h

LEMMA DoneStart ==
    ASSUME NEW T, NEW text, NEW n, NEW C, NEW M, NEW merged, Merged(text, n, C, M, merged),
           n = Len(text), NEW pre, Showing(T, text, M, pre)
    PROVE  DoneFrom(T, text, pre, Frontier(n, merged, 0), text)
<1>1. Frontier(n, merged, 0) = n + 1 /\ (n + 1) - 1 = n
  BY DEF Frontier, Merged
<1>2. text \in Seq(T) /\ pre[n] \in Seq(T) /\ <<>> \in Seq(T)
  <2>1. n \in 0 .. n
    BY DEF Merged
  <2> QED BY <2>1 DEF Showing
<1>3. SubSeq(text, 1, n) = text
  BY <1>2
<1>4. text = SubSeq(text, 1, n) \o <<>> /\ pre[n] = pre[n] \o <<>>
  BY <1>2, <1>3, ConcatEmpty
<1> QED BY <1>1, <1>2, <1>4 DEF DoneFrom

\* Replaced is the function its definition describes.
ReplacesAll(text, merged) ==
    /\ Replaced(text, merged)[0] = text
    /\ \A k \in 1 .. Len(merged) :
          Replaced(text, merged)[k]
             = Replace(Replaced(text, merged)[k - 1], merged[Len(merged) - k + 1])

LEMMA ReplacedUnfolds ==
    ASSUME NEW T, NEW text, NEW n, NEW C, NEW M, NEW merged, Merged(text, n, C, M, merged),
           n = Len(text), NEW pre, Showing(T, text, M, pre), \A c \in C : Marker(c) \in T
    PROVE  ReplacesAll(text, merged)
<1> DEFINE N == Len(merged)
           X == Seq(T)
           Done(t, k) == DoneFrom(T, text, pre, Frontier(n, merged, k), t)
           Good(t, k) == k < N /\ Done(t, k)
           Unrolled(f) == [k \in 0 .. N |-> IF k = 0 THEN text
                                             ELSE Replace(f[k - 1], merged[N - k + 1])]
           F == [k \in Nat |-> [t \in X |-> IF Good(t, k) THEN Replace(t, merged[N - k]) ELSE t]]
           w == Replaced(text, merged)
<1>1. N \in Nat
  BY DEF Merged
<1>2. ASSUME NEW k \in Nat, NEW t, Good(t, k)
      PROVE  Done(Replace(t, merged[N - k]), k + 1) /\ Replace(t, merged[N - k]) \in X
  <2>1. Done(Replace(t, merged[N - k]), k + 1)
    BY <1>2, ReplaceStep
  <2>2. k + 1 \in 0 .. N
    <3>1. k < N
      BY <1>2
    <3> HIDE DEF N
    <3> QED BY <1>1, <3>1
  <2>3. Replace(t, merged[N - k]) \in X
    BY <2>1, <2>2, DoneType
  <2> QED BY <2>1, <2>3
<1>3. F \in [Nat -> [X -> X]]
  <2> HIDE DEF N, X, Good, Done
  <2> QED BY <1>2
<1>4. Done(text, 0) /\ text \in X
  BY DoneStart DEF Showing
<1>5. PICK g \in [0 .. N -> X] : g[0] = text /\ \A k \in 1 .. N : g[k] = F[k - 1][g[k - 1]]
  <2> HIDE DEF F, X, N, Done
  <2>1. Unrollings(X, F, text, N) # {}
    BY <1>1, <1>3, <1>4, Unrolling
  <2>2. PICK g : g \in Unrollings(X, F, text, N)
    BY <2>1
  <2> QED BY <2>2 DEF Unrollings
<1> HIDE DEF Done
<1> DEFINE I == {k \in Nat : k <= N => Done(g[k], k)}
<1>6. ASSUME NEW k \in 1 .. N, Done(g[k - 1], k - 1)
      PROVE  g[k] = Replace(g[k - 1], merged[N - k + 1]) /\ Done(g[k], k)
  <2>1. /\ k - 1 \in Nat /\ k - 1 < N /\ (k - 1) + 1 = k /\ k - 1 \in 0 .. N
        /\ N - (k - 1) = N - k + 1
    <3> HIDE DEF N
    <3> QED BY <1>1
  <2>2. Good(g[k - 1], k - 1) /\ g[k - 1] \in X
    <3> HIDE DEF N, X, F
    <3> QED BY <1>5, <1>6, <2>1
  <2>3. g[k] = F[k - 1][g[k - 1]]
    <3> HIDE DEF N, X, F
    <3> QED BY <1>5
  <2>4. F[k - 1][g[k - 1]] = Replace(g[k - 1], merged[N - (k - 1)])
    <3> HIDE DEF N, X, Good
    <3> QED BY <2>1, <2>2
  <2>5. Done(Replace(g[k - 1], merged[N - (k - 1)]), (k - 1) + 1)
    <3> HIDE DEF Good, X, F, N
    <3> QED BY <1>2, <2>1, <2>2
  <2> HIDE DEF F, N
  <2> QED BY <2>1, <2>3, <2>4, <2>5
<1>7. \A k \in Nat : k \in I
  <2>1. 0 \in I
    <3> HIDE DEF X, F, N
    <3> QED BY <1>4, <1>5
  <2>2. ASSUME NEW k \in Nat, k \in I PROVE k + 1 \in I
    <3> SUFFICES ASSUME k + 1 <= N PROVE Done(g[k + 1], k + 1)
      OBVIOUS
    <3>1. k + 1 \in 1 .. N /\ (k + 1) - 1 = k /\ Done(g[k], k)
      <4> HIDE DEF N
      <4> QED BY <1>1, <2>2
    <3> HIDE DEF X, F, N
    <3> QED BY <1>6, <3>1
  <2> HIDE DEF I
  <2> QED BY <2>1, <2>2, NatSetInduction
<1>8. g = Unrolled(g)
  <2>1. ASSUME NEW k \in 0 .. N PROVE g[k] = Unrolled(g)[k]
    <3>1. CASE k = 0
      <4> HIDE DEF N, X, F
      <4> QED BY <1>1, <1>5, <3>1
    <3>2. CASE k # 0
      <4>1. k \in 1 .. N /\ k - 1 \in Nat /\ k - 1 <= N
        <5> HIDE DEF N
        <5> QED BY <1>1, <3>2
      <4>2. Done(g[k - 1], k - 1)
        <5>1. k - 1 \in I
          <6> HIDE DEF I
          <6> QED BY <1>7, <4>1
        <5> HIDE DEF N
        <5> QED BY <4>1, <5>1
      <4>3. g[k] = Replace(g[k - 1], merged[N - k + 1])
        <5> HIDE DEF N, X, F, I
        <5> QED BY <1>6, <4>1, <4>2
      <4> HIDE DEF N
      <4> QED BY <3>2, <4>3
    <3> QED BY <3>1, <3>2
  <2>2. g = [k \in 0 .. N |-> g[k]]
    <3> HIDE DEF N, X, F
    <3> QED BY <1>5
  <2> HIDE DEF N, X, F
  <2> QED BY <2>1, <2>2
<1>9. w = CHOOSE f : f = Unrolled(f)
  BY DEF Replaced
<1>10. w = Unrolled(w)
  <2> HIDE DEF w, Unrolled
  <2> QED BY <1>8, <1>9
<1>11. w[0] = text
  <2>1. 0 \in 0 .. N
    BY <1>1
  <2> HIDE DEF w, N
  <2> QED BY <1>10, <2>1, Zenon
<1>12. ASSUME NEW k \in 1 .. N PROVE w[k] = Replace(w[k - 1], merged[N - k + 1])
  <2>1. k \in 0 .. N /\ k # 0
    BY <1>1
  <2> HIDE DEF w, N
  <2> QED BY <1>10, <2>1, Zenon
<1> QED BY <1>11, <1>12 DEF ReplacesAll

\* What replacing comes to.
LEMMA ApplyResult ==
    ASSUME NEW T, NEW text, NEW n, NEW C, NEW M, NEW merged, Merged(text, n, C, M, merged),
           n = Len(text), NEW pre, Showing(T, text, M, pre), \A c \in C : Marker(c) \in T
    PROVE  ApplyRedactions(text, merged) = pre[n]
<1> DEFINE N == Len(merged)
           w == Replaced(text, merged)
           Done(k) == DoneFrom(T, text, pre, Frontier(n, merged, k), w[k])
           I == {k \in Nat : k <= N => Done(k)}
<1>1. N \in Nat /\ n \in Nat /\ text \in Seq(T)
  BY DEF Merged, Showing
<1>2. w[0] = text /\ \A k \in 1 .. N : w[k] = Replace(w[k - 1], merged[N - k + 1])
  <2>1. ReplacesAll(text, merged)
    BY ReplacedUnfolds, Zenon
  <2> QED BY <2>1 DEF ReplacesAll
<1> HIDE DEF w
<1>3. 0 \in I
  BY <1>2, DoneStart
<1>4. ASSUME NEW k \in Nat, k \in I PROVE k + 1 \in I
  <2> SUFFICES ASSUME k + 1 <= N PROVE Done(k + 1)
    <3> HIDE DEF Done
    <3> QED OBVIOUS
  <2>1. k + 1 \in 1 .. N /\ (k + 1) - 1 = k /\ k < N /\ N - (k + 1) + 1 = N - k /\ Done(k)
    <3> HIDE DEF N, Done
    <3> QED BY <1>1, <1>4
  <2>2. w[k + 1] = Replace(w[k], merged[N - k])
    <3>1. w[k + 1] = Replace(w[(k + 1) - 1], merged[N - (k + 1) + 1])
      BY <1>2, <2>1
    <3> HIDE DEF N
    <3> QED BY <2>1, <3>1
  <2>3. DoneFrom(T, text, pre, Frontier(n, merged, k + 1), Replace(w[k], merged[N - k]))
    BY <2>1, ReplaceStep
  <2> QED BY <2>2, <2>3
<1> HIDE DEF I
<1>5. \A k \in Nat : k \in I
  BY <1>3, <1>4, NatSetInduction
<1>6. Done(N)
  <2> HIDE DEF Done, N
  <2> QED BY <1>1, <1>5 DEF I
<1> DEFINE f == Frontier(n, merged, N)
           p == f - 1
<1>7. PICK tail \in Seq(T) : w[N] = SubSeq(text, 1, p) \o tail /\ pre[n] = pre[p] \o tail
  <2> DEFINE t == w[N]
  <2>1. DoneFrom(T, text, pre, f, t)
    BY <1>6
  <2> HIDE DEF f, t
  <2>2. \E tail \in Seq(T) : t = SubSeq(text, 1, p) \o tail /\ pre[n] = pre[p] \o tail
    BY <2>1, Zenon DEF DoneFrom
  <2> QED BY <2>2 DEF t
<1>8. p \in 0 .. n /\ Bare(text, M, 0, p)
  <2>1. N \in 0 .. N /\ EndBefore(merged, N) = 0
    BY <1>1 DEF EndBefore
  <2>2. f \in 1 .. n + 1 /\ \A i \in 0 + 1 .. f - 1 : i \notin Covered(text, M)
    BY <2>1, GapsUncovered
  <2> HIDE DEF f
  <2> QED BY <1>1, <2>2 DEF Bare
<1> HIDE DEF p
<1>9. Shows(text, pre, 0, p)
  <2>1. 0 \in 0 .. Len(text) /\ p \in 0 .. Len(text)
    BY <1>1, <1>8
  <2> QED BY <1>8, <2>1, ShownStretch, Zenon
<1>10. pre[p] = SubSeq(text, 1, p)
  <2>1. pre[0] = <<>> /\ SubSeq(text, 1, p) \in Seq(T)
    BY <1>1, <1>8, PartLen DEF Showing
  <2>2. pre[p] = pre[0] \o SubSeq(text, 0 + 1, p)
    BY <1>9 DEF Shows
  <2> QED BY <2>1, <2>2, ConcatEmpty
<1>11. w[N] = pre[n]
  BY <1>7, <1>10
<1> QED BY <1>11 DEF ApplyRedactions, w

----------------------------------------------------------------------------
(* What is shown holds no secret                                           *)

Glyphs == Lexemes \cup {Marker(c) : c \in Categories}

LEMMA ShownType ==
    ASSUME NEW text \in Seq(Lexemes), NEW n, NEW M, NEW merged,
           Merged(text, n, Categories, M, merged), NEW i \in 1 .. n
    PROVE  /\ Shown(text, M, i) \in Seq(Glyphs)
           /\ i \in BlockStarts(text, M) =>
                 \E c \in Categories : Shown(text, M, i) = <<Marker(c)>>
<1>1. n \in Nat /\ DOMAIN text = 1 .. n /\ text[i] \in Lexemes
  BY DEF Merged
<1>2. ASSUME i \in BlockStarts(text, M)
      PROVE  \E c \in Categories : Shown(text, M, i) = <<Marker(c)>>
  <2>1. PICK j \in DOMAIN merged : merged[j].start = i
    BY <1>2, StartsOfBlocks
  <2>2. BlockCategory(text, M, i) = merged[j].category /\ merged[j].category \in Categories
    BY <2>1, CategoryOfBlock, MergedTypes
  <2>3. Shown(text, M, i) = <<Marker(merged[j].category)>>
    BY <1>2, <2>2 DEF Shown, BlockStarts
  <2> QED BY <2>2, <2>3
<1>3. CASE i \in BlockStarts(text, M)
  <2>1. PICK c \in Categories : Shown(text, M, i) = <<Marker(c)>>
    BY <1>2, <1>3
  <2>2. Marker(c) \in Glyphs
    BY DEF Glyphs
  <2> QED BY <1>2, <2>1, <2>2
<1>4. CASE i \notin BlockStarts(text, M)
  <2>1. Shown(text, M, i) = <<text[i]>> \/ Shown(text, M, i) = <<>>
    BY <1>4 DEF Shown
  <2>2. text[i] \in Glyphs
    BY <1>1 DEF Glyphs
  <2>3. <<text[i]>> \in Seq(Glyphs) /\ <<>> \in Seq(Glyphs)
    <3> DEFINE x == text[i]
    <3> HIDE DEF x
    <3>1. <<x>> \in Seq(Glyphs) /\ <<>> \in Seq(Glyphs)
      BY <2>2 DEF x
    <3> QED BY <3>1 DEF x
  <2>4. Shown(text, M, i) \in Seq(Glyphs)
    BY <2>1, <2>3
  <2> QED BY <1>4, <2>4
<1> QED BY <1>3, <1>4

LEMMA ShownPrefixes ==
    ASSUME NEW text \in Seq(Lexemes), NEW n, NEW M, NEW merged,
           Merged(text, n, Categories, M, merged)
    PROVE  \E pre : Showing(Glyphs, text, M, pre) /\ pre[n] = ShownText(text, M)
<1> DEFINE seqs == [i \in 1 .. n |-> Shown(text, M, i)]
<1>1. n \in Nat /\ DOMAIN text = 1 .. n /\ Len(text) = n
  BY DEF Merged
<1>2. \A i \in 1 .. n : Shown(text, M, i) \in Seq(Glyphs)
  BY ShownType
<1>3. seqs \in Seq(Seq(Glyphs)) /\ Len(seqs) = n
  <2> DEFINE S == Seq(Glyphs)
  <2>1. \A i \in 1 .. n : Shown(text, M, i) \in S
    BY <1>2
  <2> HIDE DEF S
  <2>2. seqs \in Seq(S) /\ Len(seqs) = n
    BY <1>1, <2>1
  <2> QED BY <2>2 DEF S
<1>4. ShownText(text, M) = FlattenSeq(seqs)
  BY <1>1 DEF ShownText
<1>5. \A i \in 1 .. n : seqs[i] = Shown(text, M, i)
  OBVIOUS
<1> HIDE DEF seqs
<1>6. PICK pre : Flattens(Glyphs, seqs, pre) /\ pre[Len(seqs)] = FlattenSeq(seqs)
  BY <1>3, Flattening
<1>7. text \in Seq(Glyphs)
  BY DEF Glyphs
<1>8. Showing(Glyphs, text, M, pre)
  BY <1>1, <1>3, <1>5, <1>6, <1>7 DEF Showing, Flattens
<1> QED BY <1>3, <1>4, <1>6, <1>8

\* What was shown stays in its place.
TypedShown(T, text, M) == \A i \in 1 .. Len(text) : Shown(text, M, i) \in Seq(T)
Prolongs(t, s) == Len(s) <= Len(t) /\ \A q \in 1 .. Len(s) : t[q] = s[q]
LEMMA ShownKeeps ==
    ASSUME NEW T, NEW text, NEW M, NEW pre, Showing(T, text, M, pre), TypedShown(T, text, M),
           NEW i \in 0 .. Len(text), NEW j \in i .. Len(text)
    PROVE  Prolongs(pre[j], pre[i])
<1> DEFINE n == Len(text)
           Keeps(k) == /\ Len(pre[i]) <= Len(pre[k])
                       /\ \A q \in 1 .. Len(pre[i]) : pre[k][q] = pre[i][q]
           I == {d \in Nat : i + d <= n => Keeps(i + d)}
<1>1. n \in Nat /\ i \in Nat /\ j \in Nat /\ i <= j /\ j <= n
  BY DEF Showing
<1>2. \A k \in 0 .. n : pre[k] \in Seq(T)
  BY DEF Showing
<1>3. 0 \in I
  <2>1. i + 0 = i /\ Keeps(i)
    BY <1>1, <1>2
  <2> HIDE DEF Keeps
  <2> QED BY <2>1
<1>4. ASSUME NEW d \in Nat, d \in I PROVE d + 1 \in I
  <2> HIDE DEF Keeps
  <2> SUFFICES ASSUME i + (d + 1) <= n PROVE Keeps(i + (d + 1))
    OBVIOUS
  <2> DEFINE k == i + d
  <2>1. /\ k \in 0 .. n /\ k + 1 \in 1 .. n /\ (k + 1) - 1 = k /\ i + (d + 1) = k + 1
        /\ Keeps(k)
    <3> HIDE DEF n
    <3> QED BY <1>1, <1>4
  <2> HIDE DEF k, I
  <2> DEFINE x == Shown(text, M, k + 1)
             u == pre[k]
             v == pre[i]
  <2>2. pre[k + 1] = u \o x
    <3>1. pre[k + 1] = pre[(k + 1) - 1] \o Shown(text, M, k + 1)
      BY <2>1 DEF Showing
    <3> QED BY <2>1, <3>1
  <2>3. u \in Seq(T) /\ x \in Seq(T) /\ v \in Seq(T)
    BY <1>2, <2>1 DEF TypedShown
  <2>4. Len(v) <= Len(u) /\ \A q \in 1 .. Len(v) : u[q] = v[q]
    BY <2>1 DEF Keeps
  <2> HIDE DEF x, u, v
  <2>5. Len(v) <= Len(u \o x) /\ \A q \in 1 .. Len(v) : (u \o x)[q] = v[q]
    BY <2>3, <2>4
  <2>6. Keeps(k + 1)
    BY <2>2, <2>5 DEF Keeps, v
  <2> QED BY <2>1, <2>6
<1> HIDE DEF I
<1>5. \A d \in Nat : d \in I
  BY <1>3, <1>4, NatSetInduction
<1>6. j - i \in Nat /\ i + (j - i) = j /\ j - i \in I
  BY <1>1, <1>5
<1>7. Keeps(j)
  <2> HIDE DEF Keeps, n
  <2> QED BY <1>1, <1>6 DEF I
<1> QED BY <1>7 DEF Prolongs

\* The setting of the rest: pre shows a text whose matches are merged.
Seen(text, n, M, pre) ==
    /\ text \in Seq(Lexemes) /\ n \in Nat /\ Len(text) = n /\ Showing(Glyphs, text, M, pre)
    /\ \A i \in 1 .. n : /\ Shown(text, M, i) \in Seq(Glyphs)
                         /\ i \in BlockStarts(text, M) =>
                               \E c \in Categories : Shown(text, M, i) = <<Marker(c)>>

\* What the i-th lexeme adds: itself, a marker at the start of a block, or nothing.
LEMMA ShownNext ==
    ASSUME NEW text, NEW n, NEW M, NEW pre, Seen(text, n, M, pre), NEW i \in 1 .. n
    PROVE  /\ pre[i - 1] \in Seq(Glyphs) /\ pre[i] \in Seq(Glyphs)
           /\ i \notin Covered(text, M) =>
                 /\ Len(pre[i]) = Len(pre[i - 1]) + 1 /\ pre[i][Len(pre[i])] = text[i]
           /\ i \in BlockStarts(text, M) =>
                 /\ Len(pre[i]) = Len(pre[i - 1]) + 1 /\ pre[i][Len(pre[i])] \notin Lexemes
           /\ i \in Covered(text, M) /\ i \notin BlockStarts(text, M) => pre[i] = pre[i - 1]
           /\ \A q \in 1 .. Len(pre[i - 1]) : pre[i][q] = pre[i - 1][q]
<1> DEFINE u == pre[i - 1]
           x == Shown(text, M, i)
<1>1. u \in Seq(Glyphs) /\ pre[i] \in Seq(Glyphs) /\ x \in Seq(Glyphs) /\ pre[i] = u \o x
  <2>1. i - 1 \in 0 .. n /\ i \in 0 .. n
    BY DEF Seen
  <2> QED BY <2>1 DEF Seen, Showing
<1>2. i \notin Covered(text, M) => x = <<text[i]>>
  BY DEF Shown
<1>3. i \in BlockStarts(text, M) => \E c \in Categories : x = <<Marker(c)>>
  BY DEF Seen
<1>4. i \in Covered(text, M) /\ i \notin BlockStarts(text, M) => x = <<>>
  BY DEF Shown
<1> HIDE DEF u, x
<1>5. \A q \in 1 .. Len(u) : pre[i][q] = u[q]
  BY <1>1
<1>6. ASSUME NEW y, x = <<y>> PROVE Len(pre[i]) = Len(u) + 1 /\ pre[i][Len(pre[i])] = y
  BY <1>1, <1>6
<1>7. ASSUME i \in BlockStarts(text, M)
      PROVE  Len(pre[i]) = Len(u) + 1 /\ pre[i][Len(pre[i])] \notin Lexemes
  <2>1. PICK c \in Categories : x = <<Marker(c)>>
    BY <1>3, <1>7
  <2>2. Marker(c) \notin Lexemes
    BY RedactorAssumption
  <2> QED BY <1>6, <2>1, <2>2
<1>8. ASSUME i \notin Covered(text, M)
      PROVE  Len(pre[i]) = Len(u) + 1 /\ pre[i][Len(pre[i])] = text[i]
  BY <1>2, <1>6, <1>8
<1>9. i \in Covered(text, M) /\ i \notin BlockStarts(text, M) => pre[i] = u
  BY <1>1, <1>4, ConcatEmpty
<1> QED BY <1>1, <1>5, <1>7, <1>8, <1>9 DEF u

\* Place i of the text is what is shown at place p.
Origin(text, M, pre, i, p) == i \notin Covered(text, M) /\ Len(pre[i]) = p

\* Every lexeme that is shown comes from a place that is not covered.
LEMMA Origins ==
    ASSUME NEW text, NEW n, NEW M, NEW pre, Seen(text, n, M, pre),
           NEW p \in 1 .. Len(pre[n]), pre[n][p] \in Lexemes
    PROVE  \E i \in 1 .. n : Origin(text, M, pre, i, p)
<1> DEFINE Good(k) == \A q \in 1 .. Len(pre[k]) :
                         pre[k][q] \in Lexemes => \E i \in 1 .. k : Origin(text, M, pre, i, q)
           I == {k \in Nat : k <= n => Good(k)}
<1>1. n \in Nat /\ pre[0] = <<>>
  BY DEF Seen, Showing
<1>2. 0 \in I
  BY <1>1
<1>3. ASSUME NEW k \in Nat, k \in I PROVE k + 1 \in I
  <2> SUFFICES ASSUME k + 1 <= n PROVE Good(k + 1)
    <3> HIDE DEF Good
    <3> QED OBVIOUS
  <2> DEFINE i == k + 1
  <2>1. i \in 1 .. n /\ i - 1 = k /\ Good(k) /\ 1 .. k \subseteq 1 .. i /\ i \in 1 .. i
    <3> HIDE DEF Good
    <3> QED BY <1>1, <1>3
  <2>2. /\ pre[k] \in Seq(Glyphs) /\ pre[i] \in Seq(Glyphs)
        /\ i \notin Covered(text, M) =>
              /\ Len(pre[i]) = Len(pre[k]) + 1 /\ pre[i][Len(pre[i])] = text[i]
        /\ i \in BlockStarts(text, M) =>
              /\ Len(pre[i]) = Len(pre[k]) + 1 /\ pre[i][Len(pre[i])] \notin Lexemes
        /\ i \in Covered(text, M) /\ i \notin BlockStarts(text, M) => pre[i] = pre[k]
        /\ \A q \in 1 .. Len(pre[k]) : pre[i][q] = pre[k][q]
    <3> HIDE DEF i, Good, I
    <3>1. i - 1 = k /\ i \in 1 .. n
      BY <2>1
    <3> QED BY <3>1, ShownNext
  <2> HIDE DEF i, I
  <2> SUFFICES ASSUME NEW q \in 1 .. Len(pre[i]), pre[i][q] \in Lexemes
               PROVE  \E h \in 1 .. i : Origin(text, M, pre, h, q)
    BY DEF i
  <2>3. CASE q \in 1 .. Len(pre[k])
    <3>1. pre[k][q] \in Lexemes
      BY <2>2, <2>3
    <3>2. PICK h \in 1 .. k : Origin(text, M, pre, h, q)
      BY <2>1, <2>3, <3>1
    <3> QED BY <2>1, <3>2
  <2>4. CASE q \notin 1 .. Len(pre[k])
    <3>1. i \notin Covered(text, M)
      <4>1. CASE i \in Covered(text, M) /\ i \notin BlockStarts(text, M)
        BY <2>2, <2>4, <4>1
      <4>2. CASE i \in BlockStarts(text, M)
        <5>1. Len(pre[i]) = Len(pre[k]) + 1 /\ Len(pre[k]) \in Nat
          BY <2>2, <4>2
        <5>2. q = Len(pre[i])
          BY <2>4, <5>1
        <5> QED BY <2>2, <4>2, <5>2
      <4> QED BY <4>1, <4>2
    <3>2. Len(pre[i]) = Len(pre[k]) + 1 /\ Len(pre[k]) \in Nat
      BY <2>2, <3>1
    <3>3. q = Len(pre[i])
      BY <2>4, <3>2
    <3>4. Origin(text, M, pre, i, q)
      BY <3>1, <3>3 DEF Origin
    <3> QED BY <2>1, <3>4
  <2> QED BY <2>3, <2>4
<1> HIDE DEF I
<1>4. \A k \in Nat : k \in I
  BY <1>2, <1>3, NatSetInduction
<1>5. Good(n)
  <2> HIDE DEF Good
  <2> QED BY <1>1, <1>4 DEF I
<1> QED BY <1>5

LEMMA ShownKept ==
    ASSUME NEW text, NEW n, NEW M, NEW pre, Seen(text, n, M, pre), NEW i \in 0 .. n
    PROVE  Prolongs(pre[n], pre[i])
<1>1. n = Len(text) /\ i \in 0 .. Len(text) /\ n \in i .. Len(text)
  BY DEF Seen
<1>2. Showing(Glyphs, text, M, pre)
  BY DEF Seen
<1>3. TypedShown(Glyphs, text, M)
  BY <1>1 DEF Seen, TypedShown
<1> QED BY <1>1, <1>2, <1>3, ShownKeeps, Zenon

\* A place that is shown at p is the lexeme that is seen there.
LEMMA OriginText ==
    ASSUME NEW text, NEW n, NEW M, NEW pre, Seen(text, n, M, pre),
           NEW i \in 1 .. n, NEW p, Origin(text, M, pre, i, p)
    PROVE  /\ p \in 1 .. Len(pre[n]) /\ pre[n][p] = text[i]
<1>1. /\ pre[i - 1] \in Seq(Glyphs) /\ pre[i] \in Seq(Glyphs)
      /\ Len(pre[i]) = Len(pre[i - 1]) + 1 /\ pre[i][Len(pre[i])] = text[i]
  BY ShownNext DEF Origin
<1>2. Len(pre[i]) = p /\ p \in Nat /\ 1 <= p
  BY <1>1 DEF Origin
<1>3. n \in Nat /\ i \in 0 .. n /\ n \in i .. n /\ Len(text) = n /\ pre[n] \in Seq(Glyphs)
  BY DEF Seen, Showing
<1>4. Prolongs(pre[n], pre[i])
  BY <1>3, ShownKept, Zenon
<1>5. Len(pre[i]) <= Len(pre[n]) /\ \A q \in 1 .. Len(pre[i]) : pre[n][q] = pre[i][q]
  BY <1>4 DEF Prolongs
<1>6. p \in 1 .. Len(pre[n]) /\ p \in 1 .. Len(pre[i])
  BY <1>2, <1>3, <1>5
<1> QED BY <1>1, <1>2, <1>5, <1>6

\* Lexemes that are shown side by side stand side by side in the text.
LEMMA OriginNext ==
    ASSUME NEW text, NEW n, NEW M, NEW pre, Seen(text, n, M, pre),
           NEW i \in 1 .. n, NEW p, Origin(text, M, pre, i, p),
           p + 1 <= Len(pre[n]), pre[n][p + 1] \in Lexemes
    PROVE  i + 1 \in 1 .. n /\ Origin(text, M, pre, i + 1, p + 1)
<1>1. n \in Nat /\ Len(text) = n /\ p \in Nat
  <2>1. p \in 1 .. Len(pre[n])
    BY OriginText, Zenon
  <2> QED BY <2>1 DEF Seen
<1>2. i # n
  BY <1>1 DEF Origin
<1>3. i + 1 \in 1 .. n /\ (i + 1) - 1 = i /\ i + 1 \in 0 .. n /\ n \in i + 1 .. n
  BY <1>1, <1>2
<1> DEFINE j == i + 1
<1>4. /\ pre[j] \in Seq(Glyphs)
      /\ j \notin Covered(text, M) => Len(pre[j]) = Len(pre[i]) + 1
      /\ j \in BlockStarts(text, M) =>
            /\ Len(pre[j]) = Len(pre[i]) + 1 /\ pre[j][Len(pre[j])] \notin Lexemes
  <2>1. j \in 1 .. n /\ j - 1 = i
    BY <1>3
  <2> HIDE DEF j
  <2> QED BY <2>1, ShownNext
<1>5. \A q \in 1 .. Len(pre[j]) : pre[n][q] = pre[j][q]
  <2>1. j \in 0 .. n
    BY <1>3
  <2> HIDE DEF j
  <2>2. Prolongs(pre[n], pre[j])
    BY <2>1, ShownKept, Zenon
  <2> QED BY <2>2 DEF Prolongs
<1>6. i \notin Covered(text, M) /\ Len(pre[i]) = p
  BY DEF Origin
<1>7. j \notin Covered(text, M)
  <2>1. ASSUME j \in Covered(text, M) PROVE FALSE
    <3>1. j \in BlockStarts(text, M)
      BY <1>3, <1>6, <2>1 DEF BlockStarts
    <3> HIDE DEF j
    <3>2. Len(pre[j]) = p + 1 /\ pre[j][Len(pre[j])] \notin Lexemes
      BY <1>4, <1>6, <3>1
    <3>3. p + 1 \in 1 .. Len(pre[j])
      BY <1>1, <3>2
    <3>4. pre[n][p + 1] = pre[j][p + 1]
      BY <1>5, <3>3
    <3> QED BY <3>2, <3>4
  <2> QED BY <2>1
<1> HIDE DEF j
<1>8. Origin(text, M, pre, j, p + 1)
  BY <1>4, <1>6, <1>7 DEF Origin
<1> QED BY <1>3, <1>8 DEF j

\* A run of lexemes that is shown from p on stands in the text from i on.
Reads(s, t, p) == /\ p + Len(s) - 1 <= Len(t)
                  /\ \A q \in 1 .. Len(s) : t[p + q - 1] = s[q]
Stands(s, text, n, i) == \A d \in 0 .. Len(s) - 1 : i + d \in 1 .. n /\ text[i + d] = s[d + 1]

LEMMA OriginRun ==
    ASSUME NEW text, NEW n, NEW M, NEW pre, Seen(text, n, M, pre),
           NEW s \in Seq(Lexemes), NEW p \in 1 .. Len(pre[n]),
           Reads(s, pre[n], p), NEW i \in 1 .. n, Origin(text, M, pre, i, p)
    PROVE  Stands(s, text, n, i)
<1> DEFINE Good(d) == i + d \in 1 .. n /\ Origin(text, M, pre, i + d, p + d)
           I == {d \in Nat : d <= Len(s) - 1 => Good(d)}
<1>1. n \in Nat /\ pre[n] \in Seq(Glyphs) /\ Len(s) \in Nat /\ Len(pre[n]) \in Nat
  <2>1. n \in Nat /\ n \in 0 .. Len(text) /\ pre \in [0 .. Len(text) -> Seq(Glyphs)]
    BY DEF Seen, Showing
  <2> QED BY <2>1
<1>2. 0 \in I
  <2>1. i + 0 = i /\ p + 0 = p
    BY <1>1
  <2>2. Good(0)
    BY <2>1
  <2> HIDE DEF Good
  <2> QED BY <2>2
<1>3. ASSUME NEW d \in Nat, d \in I PROVE d + 1 \in I
  <2> HIDE DEF Good
  <2> SUFFICES ASSUME d + 1 <= Len(s) - 1 PROVE Good(d + 1)
    OBVIOUS
  <2>1. Good(d)
    BY <1>1, <1>3
  <2> DEFINE h == i + d
             r == p + d
  <2>2. h \in 1 .. n /\ Origin(text, M, pre, h, r)
    BY <2>1 DEF Good
  <2>3. r + 1 <= Len(pre[n]) /\ pre[n][r + 1] \in Lexemes
    <3> DEFINE q == d + 2
    <3>1. q \in 1 .. Len(s) /\ p + q - 1 = r + 1
      BY <1>1
    <3>2. p + Len(s) - 1 <= Len(pre[n]) /\ \A a \in 1 .. Len(s) : pre[n][p + a - 1] = s[a]
      BY Zenon DEF Reads
    <3>3. r + 1 <= Len(pre[n])
      BY <1>1, <3>2
    <3> HIDE DEF q, r
    <3>4. pre[n][r + 1] = s[q] /\ s[q] \in Lexemes
      BY <3>1, <3>2
    <3> QED BY <3>3, <3>4
  <2>4. h + 1 = i + (d + 1) /\ r + 1 = p + (d + 1)
    BY <1>1
  <2> HIDE DEF h, r, I
  <2>5. h + 1 \in 1 .. n /\ Origin(text, M, pre, h + 1, r + 1)
    BY <2>2, <2>3, OriginNext, Zenon
  <2> QED BY <2>4, <2>5 DEF Good
<1> HIDE DEF I
<1>4. \A d \in Nat : d \in I
  BY <1>2, <1>3, NatSetInduction
<1> SUFFICES ASSUME NEW d \in 0 .. Len(s) - 1 PROVE Good(d) /\ text[i + d] = s[d + 1]
  BY DEF Stands
<1>5. Good(d)
  <2> HIDE DEF Good
  <2> QED BY <1>1, <1>4 DEF I
<1> DEFINE h == i + d
           r == p + d
<1>6. h \in 1 .. n /\ Origin(text, M, pre, h, r)
  BY <1>5
<1>7. d + 1 \in 1 .. Len(s) /\ p + (d + 1) - 1 = r
  BY <1>1
<1>8. pre[n][r] = s[d + 1]
  BY <1>7 DEF Reads
<1> HIDE DEF h, r
<1>9. pre[n][r] = text[h]
  <2>1. h \in 1 .. n
    BY <1>6
  <2>2. Origin(text, M, pre, h, r)
    BY <1>6
  <2> HIDE DEF Good
  <2> QED BY <2>1, <2>2, OriginText
<1>10. text[h] = s[d + 1]
  BY <1>8, <1>9
<1> QED BY <1>5, <1>10 DEF h

\* No configured secret is to be seen.
LEMMA SecretGone ==
    ASSUME NEW text, NEW n, NEW M, NEW pre, Seen(text, n, M, pre), NEW secrets,
           SecretSet(secrets), DetectExact(text, secrets) \subseteq M, NEW s \in secrets
    PROVE  ~ Occurs(s, pre[n])
<1> SUFFICES ASSUME NEW p \in DOMAIN pre[n], OccursAt(s, pre[n], p) PROVE FALSE
  BY DEF Occurs
<1>1. n \in Nat /\ pre[n] \in Seq(Glyphs) /\ text \in Seq(Lexemes) /\ Len(text) = n
  BY DEF Seen, Showing
<1>2. s \in Seq(Lexemes) /\ s # <<>> /\ Len(s) \in Nat /\ 1 <= Len(s)
  BY DEF SecretSet
<1>3. p \in 1 .. Len(pre[n]) /\ Len(pre[n]) \in Nat
  BY <1>1
<1>4. Reads(s, pre[n], p)
  <2> DEFINE u == pre[n]
  <2>1. u \in Seq(Glyphs) /\ p + Len(s) - 1 <= Len(u) /\ SubSeq(u, p, p + Len(s) - 1) = s
        /\ p \in 1 .. Len(u)
    BY <1>1, <1>3 DEF OccursAt
  <2> HIDE DEF u
  <2>2. \A q \in 1 .. Len(s) : SubSeq(u, p, p + Len(s) - 1)[q] = u[p + q - 1]
    BY <1>2, <2>1
  <2> QED BY <2>1, <2>2 DEF u, Reads
<1>5. pre[n][p] \in Lexemes
  <2>1. 1 \in 1 .. Len(s) /\ p + 1 - 1 = p
    BY <1>2, <1>3
  <2>2. pre[n][p] = s[1]
    BY <1>4, <2>1 DEF Reads
  <2> QED BY <1>2, <2>1, <2>2
<1>6. PICK i \in 1 .. n : Origin(text, M, pre, i, p)
  BY <1>3, <1>5, Origins
<1>7. \A d \in 0 .. Len(s) - 1 : i + d \in 1 .. n /\ text[i + d] = s[d + 1]
  <2>1. Stands(s, text, n, i)
    BY <1>2, <1>3, <1>4, <1>6, OriginRun, Zenon
  <2> QED BY <2>1 DEF Stands
<1>8. OccursAt(s, text, i)
  <2>1. i + Len(s) - 1 <= Len(text)
    <3> DEFINE d == Len(s) - 1
    <3>1. d \in 0 .. Len(s) - 1 /\ i + d = i + Len(s) - 1
      BY <1>1, <1>2
    <3> HIDE DEF d
    <3>2. i + d \in 1 .. n
      BY <1>7, <3>1
    <3> QED BY <1>1, <3>1, <3>2
  <2>2. SubSeq(text, i, i + Len(s) - 1) = s
    <3> DEFINE v == SubSeq(text, i, i + Len(s) - 1)
    <3>1. v \in Seq(Lexemes) /\ Len(v) = Len(s)
          /\ \A q \in 1 .. Len(s) : v[q] = text[i + q - 1]
      BY <1>1, <1>2, <2>1
    <3>2. \A q \in 1 .. Len(s) : text[i + q - 1] = s[q]
      <4> TAKE q \in 1 .. Len(s)
      <4>1. q - 1 \in 0 .. Len(s) - 1 /\ i + (q - 1) = i + q - 1 /\ (q - 1) + 1 = q
        BY <1>1, <1>2
      <4> QED BY <1>7, <4>1
    <3> HIDE DEF v
    <3>3. v = s
      BY <1>2, <3>1, <3>2
    <3> QED BY <3>3 DEF v
  <2> QED BY <2>1, <2>2 DEF OccursAt
<1> DEFINE m == Match(i, i + Len(s) - 1, "configured_secret")
<1>9. m \in M
  <2>1. i \in 1 .. Len(text)
    BY <1>1
  <2> QED BY <1>1, <1>8, <2>1, ExactFound
<1>10. m.start <= i /\ i <= m.end
  BY <1>1, <1>2 DEF Match
<1> HIDE DEF m
<1>11. i \in Covered(text, M)
  BY <1>1, <1>9, <1>10 DEF Covered
<1> QED BY <1>6, <1>11 DEF Origin

\* No word of the shape of a token is to be seen, whose detector has looked.
LEMMA TokenGone ==
    ASSUME NEW text, NEW n, NEW M, NEW pre, Seen(text, n, M, pre), NEW d \in DOMAIN Tokens,
           DetectToken(text, d) \subseteq M
    PROVE  Tokens[d] \cap ToSet(pre[n]) = {}
<1> SUFFICES ASSUME NEW w \in Tokens[d], w \in ToSet(pre[n]) PROVE FALSE
  OBVIOUS
<1>1. n \in Nat /\ pre[n] \in Seq(Glyphs) /\ text \in Seq(Lexemes) /\ Len(text) = n
  BY DEF Seen, Showing
<1>2. PICK p \in 1 .. Len(pre[n]) : pre[n][p] = w
  BY <1>1 DEF ToSet
<1>3. w \in Lexemes
  BY RedactorAssumption, Zenon DEF Lexemes
<1>4. PICK i \in 1 .. n : Origin(text, M, pre, i, p)
  BY <1>2, <1>3, Origins
<1>5. text[i] = w
  BY <1>2, <1>4, OriginText
<1>6. PICK m \in DetectToken(text, d) : m.start <= i /\ i <= m.end
  <2>1. i \in 1 .. Len(text)
    BY <1>1
  <2> QED BY <1>1, <1>5, <2>1, TokensFound
<1>7. i \in Covered(text, M)
  BY <1>1, <1>6 DEF Covered
<1> QED BY <1>4, <1>7 DEF Origin

-----------------------------------------------------------------------------
(***************************************************************************)
(* What one call of redact_text returns, and what every call returns.      *)
(***************************************************************************)
Leakless(text, enabled, secrets, result) ==
    /\ BlocksMarked(text, AllMatches(text, enabled, secrets), result)
    /\ \A s \in secrets : ~ Occurs(s, result.redacted)
    /\ \A d \in enabled \cap DOMAIN Tokens : Tokens[d] \cap ToSet(result.redacted) = {}

LEMMA DetectedTokens ==
    ASSUME NEW d \in DOMAIN Tokens, NEW text
    PROVE  Detect(d, text) = DetectToken(text, d)
<1>1. d # "bearer_token" /\ d # "private_key" /\ d # "assignment"
  BY RedactorAssumption DEF Patterns
<1> QED BY <1>1 DEF Detect

\* One call: a text that is not too long is returned with a marker for each
\* block of matches, without a configured secret and without a token.
LEMMA RedactTextHides ==
    ASSUME NEW text \in Seq(Lexemes), NEW enabled, enabled \subseteq Detectors,
           NEW secrets, SecretSet(secrets), ~ (Len(text) > MaxInput)
    PROVE  Leakless(text, enabled, secrets, RedactText(text, enabled, secrets))
<1> DEFINE M == AllMatches(text, enabled, secrets)
           merged == MergeOverlapping(M)
           n == Len(text)
           result == RedactText(text, enabled, secrets)
<1>1. /\ result.redacted = ApplyRedactions(text, merged) /\ result.count = Len(merged)
      /\ result.categories = {merged[i].category : i \in DOMAIN merged}
  BY DEF RedactText
<1>2. /\ DetectExact(text, secrets) \subseteq M
      /\ \A d \in enabled : Detect(d, text) \subseteq M
  BY DEF AllMatches
<1>3. M \subseteq Spans(n, Categories) /\ IsFiniteSet(M)
  BY MatchesSpan, Zenon
<1> HIDE DEF M, result
<1>4. n \in Nat /\ "password" \in Categories
  BY DEF Categories
<1>5. merged \in Seq(Spans(n, Categories)) /\ Blocks(merged, M)
  <2> HIDE DEF n
  <2> QED BY <1>3, <1>4, MergeResult, Zenon
<1>6. Merged(text, n, Categories, M, merged)
  BY <1>3, <1>4, <1>5 DEF Merged
<1> HIDE DEF merged
<1>7. PICK pre : Showing(Glyphs, text, M, pre) /\ pre[n] = ShownText(text, M)
  <2> HIDE DEF n
  <2> QED BY <1>6, ShownPrefixes, Zenon
<1>8. ApplyRedactions(text, merged) = pre[n]
  <2>1. \A c \in Categories : Marker(c) \in Glyphs
    BY DEF Glyphs
  <2>2. n = Len(text)
    OBVIOUS
  <2> HIDE DEF n
  <2> QED BY <1>6, <1>7, <2>1, <2>2, ApplyResult
<1>9. Seen(text, n, M, pre)
  <2>1. \A i \in 1 .. n : /\ Shown(text, M, i) \in Seq(Glyphs)
                          /\ i \in BlockStarts(text, M) =>
                                \E c \in Categories : Shown(text, M, i) = <<Marker(c)>>
    <3> HIDE DEF n
    <3> QED BY <1>6, ShownType
  <2> QED BY <1>4, <1>7, <2>1 DEF Seen
<1>10. BlocksMarked(text, M, result)
  <2>1. Cardinality(BlockStarts(text, M)) = Len(merged)
    <3> HIDE DEF n
    <3> QED BY <1>6, CountOfBlocks
  <2>2. BlockStarts(text, M) = {merged[j].start : j \in DOMAIN merged}
    <3> HIDE DEF n
    <3> QED BY <1>6, StartsOfBlocks
  <2>3. \A j \in DOMAIN merged : BlockCategory(text, M, merged[j].start) = merged[j].category
    <3> HIDE DEF n
    <3> QED BY <1>6, CategoryOfBlock
  <2>4. {merged[j].category : j \in DOMAIN merged}
           = {BlockCategory(text, M, i) : i \in BlockStarts(text, M)}
    BY <2>2, <2>3
  <2> QED BY <1>1, <1>7, <1>8, <2>1, <2>4 DEF BlocksMarked
<1>11. \A s \in secrets : ~ Occurs(s, result.redacted)
  <2> HIDE DEF n
  <2>1. \A s \in secrets : ~ Occurs(s, pre[n])
    BY <1>2, <1>9, SecretGone
  <2> QED BY <1>1, <1>8, <2>1
<1>12. \A d \in enabled \cap DOMAIN Tokens : Tokens[d] \cap ToSet(result.redacted) = {}
  <2> HIDE DEF n
  <2> TAKE d \in enabled \cap DOMAIN Tokens
  <2>1. DetectToken(text, d) \subseteq M
    BY <1>2, DetectedTokens
  <2>2. Tokens[d] \cap ToSet(pre[n]) = {}
    BY <1>9, <2>1, TokenGone
  <2> QED BY <1>1, <1>8, <2>2
<1> QED BY <1>10, <1>11, <1>12 DEF Leakless, M, result

\* What the redactor holds in every state: secrets that add has let through, some
\* of the detectors, and the result of the last call for exactly these.
RedactorState ==
    /\ SecretSet(container)
    /\ SecretSet(redactor.secrets) /\ redactor.enabled \subseteq Detectors
    /\ \/ call.result.err # "ok"
       \/ /\ redactor.built /\ call.text \in Inputs
          /\ ~ (Len(call.text) > MaxInput)
          /\ call.result = RedactText(call.text, redactor.enabled, redactor.secrets)

LEMMA RedactorStates == RedactorSpec => []RedactorState
<1>1. RedactorInit => RedactorState
  BY DEF RedactorInit, RedactorState, None, Idle, SecretSet
<1>2. ASSUME RedactorState, [RedactorNext]_redactorVars PROVE RedactorState'
  <2>1. CASE UNCHANGED redactorVars
    BY <1>2, <2>1 DEF RedactorState, redactorVars
  <2>2. ASSUME NEW s \in SecretTexts, AddSecret(s) PROVE RedactorState'
    <3>1. SecretSet(container')
      BY <1>2, <2>2, RedactorAssumption DEF RedactorState, AddSecret, Refused, SecretSet
    <3> QED BY <1>2, <2>2, <3>1 DEF RedactorState, AddSecret
  <2>3. ASSUME NEW enabled \in DetectorSets, Build(enabled) PROVE RedactorState'
    <3> QED BY <1>2, <2>3, RedactorAssumption DEF RedactorState, Build, SecretSet
  <2>4. CASE Redact
    <3>1. PICK text \in Inputs :
             call' = [text |-> text,
                      result |-> RedactText(text, redactor.enabled, redactor.secrets)]
      BY <2>4 DEF Redact
    <3>2. container' = container /\ redactor' = redactor
      BY <2>4 DEF Redact
    <3>3. RedactText(text, redactor.enabled, redactor.secrets).err = "ok"
             => ~ (Len(text) > MaxInput)
      BY DEF RedactText
    <3>4. redactor.built
      BY <2>4 DEF Redact
    <3> QED BY <1>2, <3>1, <3>2, <3>3, <3>4 DEF RedactorState
  <2>5. CASE Return
    BY <1>2, <2>5 DEF RedactorState, Return, Idle
  <2> QED BY <1>2, <2>1, <2>2, <2>3, <2>4, <2>5 DEF RedactorNext
<1> QED BY <1>1, <1>2, PTL DEF RedactorSpec

\* Whatever secrets are configured, whatever detectors a builder switches on, and
\* whatever text is redacted, of any length up to MAX_INPUT_BYTES: redact_text puts one
\* marker for each block that the matches cover, leaves everything else in its place,
\* and returns neither a configured secret nor a word of an enabled token shape
\* (merge_overlapping and apply_redactions, however the matches overlap).
THEOREM RedactorLeaksNothing == RedactorSpec => []NothingLeaks
<1>1. ASSUME RedactorState PROVE NothingLeaks
  <2> SUFFICES ASSUME call.result.err = "ok"
               PROVE  Leakless(call.text, redactor.enabled, redactor.secrets, call.result)
    BY DEF NothingLeaks, Leakless
  <2> DEFINE text == call.text
             enabled == redactor.enabled
             secrets == redactor.secrets
  <2>1. /\ SecretSet(secrets) /\ enabled \subseteq Detectors
        /\ text \in Seq(Lexemes) /\ ~ (Len(text) > MaxInput)
        /\ call.result = RedactText(text, enabled, secrets)
    BY <1>1, RedactorAssumption DEF RedactorState
  <2> HIDE DEF text, enabled, secrets
  <2>2. Leakless(text, enabled, secrets, RedactText(text, enabled, secrets))
    BY <2>1, RedactTextHides, Zenon
  <2> QED BY <2>1, <2>2 DEF text, enabled, secrets
<1> QED BY <1>1, RedactorStates, PTL
=============================================================================
