--------------------------- MODULE NetworkEnforcer ---------------------------
(***************************************************************************)
(* The network adapter (crates/kavach-enforcement/src/network.rs): a       *)
(* request and the redirects its server answers with.  Every look-up of a  *)
(* name may give another answer, and the server decides every response.    *)
(***************************************************************************)
EXTENDS CoreRequest

CONSTANTS
    Endpoints,        \* requests with their NetworkInput
    Answers,          \* what a look-up may answer: sequences of addresses
    Locations,        \* Location headers of a redirect: [form, scheme, userinfo, host]
    MetadataHosts,    \* hosts is_metadata_host accepts
    AllowHttp, AllowLoopback,
    RequestBodyLimit, RedirectLimit, MaxHeaders,
    BodyChunks,       \* sizes of the chunks a response body comes in
    NetworkPermits

\* The addresses there are: four octets, or eight segments of 16 bits.
Octet == {n \in Nat : n <= 255}
Segment == {n \in Nat : n <= 65535}
Address == [v : {4}, parts : [1..4 -> Octet]] \cup [v : {6}, parts : [1..8 -> Segment]]

ASSUME NetworkAssumption ==
    /\ RedirectLimit \in Nat /\ RequestBodyLimit \in Nat /\ MaxHeaders \in Nat
    /\ AllowHttp \in BOOLEAN /\ AllowLoopback \in BOOLEAN
    /\ BodyChunks \subseteq Nat \ {0}
    /\ Answers \subseteq Seq(Address)

VARIABLES
    net,          \* the request: step, the url it checked, addresses, redirects, outcome
    connections,  \* the connections it opened
    used          \* permits consumed by this adapter

networkVars == <<net, connections, used>>

Returned(outcome) == [step |-> "returned", input |-> Null, url |-> Null, addresses |-> <<>>,
                      redirects |-> 0, got |-> 0, outcome |-> outcome]

NetworkInit ==
    /\ net = Returned("none")
    /\ connections = <<>>
    /\ used = {}

-----------------------------------------------------------------------------
(***************************************************************************)
(* Addresses: the octets of version 4, the segments of version 6.          *)
(***************************************************************************)
V4(octets) == [v |-> 4, parts |-> octets]
V6(segments) == [v |-> 6, parts |-> segments]
IsMapped(a) == a.v = 6 /\ SubSeq(a.parts, 1, 6) = <<0, 0, 0, 0, 0, 65535>>
Embedded(a) == V4(<<a.parts[7] \div 256, a.parts[7] % 256,
                    a.parts[8] \div 256, a.parts[8] % 256>>)

\* Ipv6Addr::is_loopback knows nothing of the mapped forms.
IsLoopback(a) == IF a.v = 4 THEN a.parts[1] = 127
                 ELSE a.parts = <<0, 0, 0, 0, 0, 0, 0, 1>>

BlockedIpv4(o) ==
    \/ o[1] \in {0, 10, 127} \cup 224..239
    \/ o[1] = 172 /\ o[2] \in 16..31
    \/ o[1] = 192 /\ o[2] = 168
    \/ o[1] = 169 /\ o[2] = 254
    \/ o[1] = 100 /\ o[2] \in 64..127
    \/ o = <<255, 255, 255, 255>>

BlockedIpv6(a) ==
    \/ a.parts[1] >= 65280                         \* multicast ff00::/8
    \/ SubSeq(a.parts, 1, 7) = <<0, 0, 0, 0, 0, 0, 0>> /\ a.parts[8] \in {0, 1}
    \/ a.parts[1] = 65152                          \* fe80
    \/ a.parts[1] \in 64512..65023                 \* fc00..fdff
    \/ IsMapped(a) /\ BlockedIpv4(Embedded(a).parts)

BlockedIp(a) == IF a.v = 4 THEN BlockedIpv4(a.parts) ELSE BlockedIpv6(a)
MetadataIp(a) == a.v = 4 /\ a.parts = <<169, 254, 169, 254>>
Refused(a) == ~ (AllowLoopback /\ IsLoopback(a)) /\ BlockedIp(a)

-----------------------------------------------------------------------------
(***************************************************************************)
(* The checks of a request.                                                *)
(***************************************************************************)
SchemeFault(scheme) ==
    FirstFault(<<Unless(scheme \in {"http", "https"}, "unsupported_scheme"),
                 Unless(scheme = "http" => AllowHttp, "plain_http_disabled")>>)

\* validate_host; the hosts with an '@' carry credentials.
HostFault(host) ==
    FirstFault(<<Unless(host # "", "invalid_url"),
                 Unless(host # "user@host", "credentials_in_url"),
                 Unless(CleanOrEmpty(host), "invalid_url")>>)

ForbiddenHeaders ==
    {"host", "connection", "proxy-authorization", "proxy-connection", "transfer-encoding",
     "upgrade", "cookie", "set-cookie", "authorization", "x-forwarded-for",
     "x-forwarded-host", "x-forwarded-proto", "forwarded", "via"}
HeadersFault(headers) ==
    IF \/ Cardinality(headers) > MaxHeaders
       \/ \E h \in headers : ~ Clean(h) \/ Lower(h) \in ForbiddenHeaders
    THEN "invalid_header" ELSE "ok"

\* execute, up to the look-up of the name: the first check that fails.
NetworkFault(in) ==
    FirstFault(<<SchemeFault(in.url.scheme), HostFault(in.url.host), HeadersFault(in.headers),
                 Unless(in.body <= RequestBodyLimit, "request_body_limit"),
                 Unless(in.url.host \notin MetadataHosts, "metadata_endpoint_blocked")>>)

\* parse_url_parts: what stands before the first ':', or before the path, is
\* taken for the host, so a name in front of a password is.  The client reads
\* the location in its own way and sends the host behind the '@' to the server.
ParseUrlParts(loc) ==
    [scheme |-> loc.scheme,
     host |-> CASE Len(loc.userinfo) = 0 -> loc.host
                [] Len(loc.userinfo) = 1 -> "user@host"
                [] OTHER -> loc.userinfo[1]]

\* The check of a redirect: form, scheme, host and metadata host.
RedirectFault(loc) ==
    LET url == ParseUrlParts(loc)
    IN  FirstFault(<<Unless(loc.form = "absolute", "redirect_rejected"),
                     Unless(url.scheme = "http" => AllowHttp, "redirect_rejected"),
                     HostFault(url.host),
                     Unless(url.host \notin MetadataHosts, "metadata_endpoint_blocked")>>)

-----------------------------------------------------------------------------
(***************************************************************************)
(* Execution.                                                              *)
(***************************************************************************)
NetworkReturn(outcome) == net' = Returned(outcome) /\ UNCHANGED connections

ExecuteNetwork(in, p, expired, matches) ==
    /\ net.step = "returned"
    /\ IF ~ in.valid THEN NetworkReturn("invalid_request") /\ UNCHANGED used
       ELSE IF in.operation # "network_request"
       THEN NetworkReturn("unsupported_operation") /\ UNCHANGED used
       ELSE IF expired THEN NetworkReturn("permit_expired") /\ UNCHANGED used
       ELSE IF p \in used THEN NetworkReturn("permit_consumed") /\ UNCHANGED used
       ELSE IF ~ matches THEN NetworkReturn("invalid_permit") /\ UNCHANGED used
       ELSE /\ used' = used \cup {p}
            /\ IF NetworkFault(in) # "ok" THEN NetworkReturn(NetworkFault(in))
               ELSE /\ net' = [Returned("none") EXCEPT !.step = "lookup", !.input = in,
                                                       !.url = in.url]
                    /\ connections' = <<>>

\* resolve_host and the check of every address it answers, for the request
\* and again for every redirect.  The addresses are kept for the connection.
Lookup(answer) ==
    LET first == net.redirects = 0
        faulty == \E i \in DOMAIN answer : Refused(answer[i])
        metadata == \E i \in DOMAIN answer :
                        MetadataIp(answer[i]) /\ ~ Refused(answer[i])
    IN  /\ net.step = "lookup"
        /\ IF answer = <<>> THEN NetworkReturn("dns_resolution_failed")
           ELSE IF faulty
           THEN NetworkReturn(IF first THEN "blocked_address" ELSE "redirect_rejected")
           ELSE IF first /\ metadata THEN NetworkReturn("metadata_endpoint_blocked")
           ELSE /\ net' = [net EXCEPT !.step = "connect", !.addresses = answer]
                /\ UNCHANGED connections
        /\ UNCHANGED used

\* The client looks the name up again when it connects.
Connect_Resolves(answer, i) ==
    /\ net.step = "connect" /\ i \in DOMAIN answer
    /\ connections' = Append(connections, [address |-> answer[i], url |-> net.url])
    /\ net' = [net EXCEPT !.step = "response"]
    /\ UNCHANGED used

\* SsrfResolver: whatever the name means by now, the client connects to one of
\* the addresses that were checked.
Connect(answer, i) ==
    /\ net.step = "connect" /\ i \in DOMAIN net.addresses
    /\ connections' = Append(connections, [address |-> net.addresses[i], url |-> net.url])
    /\ net' = [net EXCEPT !.step = "response"]
    /\ UNCHANGED used

\* map_ureq_error: a failed connection, a time-out, or a status from 400 on.
TransportErrors == {"connect_timeout", "request_timeout", "transport_failure"}
TransportFails(error) ==
    /\ net.step \in {"connect", "response", "body"}
    /\ net.step = "body" => error = "transport_failure"
    /\ NetworkReturn(error)
    /\ UNCHANGED used

\* A redirect is followed only when the caller allows it and it names a
\* location; the method, the headers and the body go with it.
Redirect(loc) ==
    /\ net.step = "response" /\ ~ net.input.no_redirect
    /\ IF net.redirects >= RedirectLimit THEN NetworkReturn("redirect_limit_exceeded")
       ELSE IF RedirectFault(loc) # "ok" THEN NetworkReturn(RedirectFault(loc))
       ELSE /\ net' = [net EXCEPT !.step = "lookup", !.url = ParseUrlParts(loc),
                                  !.redirects = @ + 1, !.addresses = <<>>]
            /\ UNCHANGED connections
    /\ UNCHANGED used

\* Any other response: its body follows.
Respond ==
    /\ net.step = "response"
    /\ net' = [net EXCEPT !.step = "body"]
    /\ UNCHANGED <<connections, used>>

\* Keeps reading and drops what is over the limit.
ReadBody_Truncate(n) ==
    /\ net.step = "body"
    /\ net' = [net EXCEPT !.got = IF @ + n > net.input.body_limit THEN @ ELSE @ + n]
    /\ UNCHANGED <<connections, used>>

\* One read of the body; a chunk that does not fit ends the request.
ReadBody(n) ==
    /\ net.step = "body"
    /\ IF net.got + n > net.input.body_limit THEN NetworkReturn("response_body_limit")
       ELSE net' = [net EXCEPT !.got = @ + n] /\ UNCHANGED connections
    /\ UNCHANGED used

EndOfBody ==
    /\ net.step = "body"
    /\ NetworkReturn("ok")
    /\ UNCHANGED used

Places == UNION {DOMAIN answer : answer \in Answers}

NetworkNext ==
    \/ \E in \in Endpoints, p \in NetworkPermits, expired, matches \in BOOLEAN :
            ExecuteNetwork(in, p, expired, matches)
    \/ \E answer \in Answers : Lookup(answer)
    \/ \E answer \in Answers, i \in Places : Connect(answer, i)
    \/ \E error \in TransportErrors : TransportFails(error)
    \/ \E loc \in Locations : Redirect(loc)
    \/ Respond
    \/ \E n \in BodyChunks : ReadBody(n)
    \/ EndOfBody

NetworkSpec == NetworkInit /\ [][NetworkNext]_networkVars

\* The resolver answers, a server answers or times out, and a body goes on or
\* times out; a server may redirect and send for ever.
NetworkFairness ==
    /\ WF_networkVars(\E answer \in Answers : Lookup(answer))
    /\ WF_networkVars(\E answer \in Answers, i \in Places : Connect(answer, i))
    /\ WF_networkVars((\E loc \in Locations : Redirect(loc)) \/ Respond)
    /\ WF_networkVars(\E n \in BodyChunks : ReadBody(n))

-----------------------------------------------------------------------------
(***************************************************************************)
(* Properties.                                                             *)
(***************************************************************************)

\* The special-purpose ranges, by the first two octets.
PrivateRanges ==
    {<<0, 255>>, <<2560, 2815>>, <<25664, 25727>>, <<32512, 32767>>, <<43518, 43518>>,
     <<44048, 44063>>, <<49320, 49320>>, <<57344, 61439>>}
Private(a) == LET o == IF a.v = 4 THEN a.parts ELSE Embedded(a).parts
                  n == 256 * o[1] + o[2]
              IN  /\ a.v = 4 \/ IsMapped(a)
                  /\ \E r \in PrivateRanges : r[1] <= n /\ n <= r[2]

\* Whatever the names mean when the client connects, and over any chain of
\* redirects, no connection goes to an address of a private range (in version
\* 4 or mapped into version 6), to an address that was looked up for a metadata
\* host, or over plain HTTP when that is off.  The host of a connection is the
\* one that was checked and looked up; the client may name another to the server.
ConnectionsVetted ==
    \A i \in DOMAIN connections :
        LET c == connections[i]
        IN  /\ Private(c.address) => AllowLoopback /\ IsLoopback(c.address)
            /\ c.url.host \notin MetadataHosts
            /\ c.url.scheme = "http" => AllowHttp

\* A request returns, though its server redirects and sends without end.
NetworkReturns == net.step # "returned" ~> net.step = "returned"
=============================================================================
