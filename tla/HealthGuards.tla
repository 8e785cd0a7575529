----------------------------- MODULE HealthGuards -----------------------------
(* What the health server of nvlx admits.  Every module http_v1...py derives a *)
(* HealthServer from the one before it and wraps its Handler, so a request     *)
(* passes through a chain of gates: each calls super().parse_request() first,  *)
(* and refuses what its own predicate does not accept.  This module has one    *)
(* operator per gate, and the order in which they speak.                       *)
(*                                                                             *)
(* A request is what the gates can tell apart: the shape of the request line,  *)
(* its method, path and version, whether the blank line that ends the headers  *)
(* came, and the header fields in order.  A field has its name, the parts of   *)
(* its value between commas (stripped and in lower case, as the gates compare  *)
(* them), how its raw line is spelled, and how much of the byte budget it      *)
(* takes.  "" is a part that is no token; "0 " is the one part whose trailing  *)
(* blank matters, because two gates disagree about it.                         *)
EXTENDS Naturals, Sequences, FiniteSets, SequencesExt

CONSTANTS MaxHeaderBytes,   \* max_request_header_bytes, in units of one field
          MaxHeaderFields   \* max_request_header_fields

ASSUME BudgetAssumption == MaxHeaderBytes \in Nat /\ MaxHeaderFields \in Nat

Methods == {"GET", "HEAD", "POST"}
LivePaths == {"/livez", "/readyz", "/metrics"}
Paths == LivePaths \cup {"/other"}
Versions == {"HTTP/0.9", "HTTP/1.0", "HTTP/1.1", "HTTP/1.2", "HTTP/2.0"}
LineShapes == {"plain", "long", "blank", "malformed", "target", "spacing", "escape", "lf"}
Spellings == {"plain", "fold", "badname", "badvalue", "lf"}

Field == [name : STRING, parts : Seq(STRING), raw : Spellings, size : Nat]

(* get_all of an email Message: where the fields of that name are.             *)
Named(r, name) == {i \in DOMAIN r.fields : r.fields[i].name = name}
Present(r, name) == Named(r, name) # {}
(* There is one field of that name, and its value is one of these.             *)
Once(r, name, values) ==
  \E i \in DOMAIN r.fields : Named(r, name) = {i} /\ r.fields[i].parts \in values
Spelled(r, spelling) == \E i \in DOMAIN r.fields : r.fields[i].raw = spelling

(* The options of every Connection field: field i has its j-th at <<i, j>>.     *)
Options(r) == UNION {{i} \X DOMAIN r.fields[i].parts : i \in Named(r, "connection")}
Option(r, at) == r.fields[at[1]].parts[at[2]]
Nominates(r, name) == \E at \in Options(r) : Option(r, at) = name
-----------------------------------------------------------------------------
(* Before any gate: the request-line budget, CPython's own request line parser *)
(* and the two budgets that end the reading of the header section.             *)
RequestLineBudget(r) == r.line # "long"
WellFormedLine(r) == r.line # "malformed" /\ (r.version = "HTTP/0.9" => r.method = "GET")
ParsableVersion(r) == r.version # "HTTP/2.0"
HeaderSize(r) == 1 + SumFunction([i \in DOMAIN r.fields |-> r.fields[i].size])
HeaderBytes(r) == HeaderSize(r) <= MaxHeaderBytes
HeaderFields(r) ==
  Cardinality({i \in DOMAIN r.fields : r.fields[i].raw # "fold"}) <= MaxHeaderFields

BodyFraming(r) ==
  /\ ~Present(r, "transfer-encoding")
  /\ \/ ~Present(r, "content-length")
     \/ Once(r, "content-length", {<<"0">>, <<"0 ">>})
UpgradeIsAVersion(r) ==
  r.version \in {"HTTP/1.0", "HTTP/1.1"} /\ ~Nominates(r, "upgrade")
SupportedVersion(r) == r.version \in {"HTTP/1.0", "HTTP/1.1"}
SingleHost(r) ==
  \/ r.version = "HTTP/1.0"
  \/ \E i \in DOMAIN r.fields : /\ Named(r, "host") = {i} /\ Len(r.fields[i].parts) = 1
                               /\ r.fields[i].parts # <<"">>
OriginTarget(r) == r.line # "target"
NoFolding(r) == ~Spelled(r, "fold")
FieldNames(r) == ~Spelled(r, "badname")
FieldValues(r) == ~Spelled(r, "badvalue")
NoExpectation(r) == ~Present(r, "expect")

(* _authority_value_is_safe, by the kinds of authority it tells apart.         *)
SafeAuthorities == {"name", "name:port", "ipv4", "[ipv6]"}
HostAuthority(r) == r.version = "HTTP/1.0" \/ Once(r, "host", {<<a>> : a \in SafeAuthorities})
LineSpacing(r) == r.line # "spacing"
PercentEscapes(r) == r.line # "escape"
EndedByEOF(r) == r.line # "lf" /\ ~Spelled(r, "lf")
CanonicalCRLF(r) == r.line # "lf" /\ ~Spelled(r, "lf") /\ r.ended
NoUpgrade(r) == ~Present(r, "upgrade") /\ ~Nominates(r, "upgrade")
NoTrailer(r) == ~Present(r, "trailer")
NoTE(r) == ~Present(r, "te") /\ ~Nominates(r, "te")
NoProxyConnection(r) == ~Present(r, "proxy-connection") /\ ~Nominates(r, "proxy-connection")
-----------------------------------------------------------------------------
(* From here on each module's predicate calls the one before it, and a request *)
(* it does not accept is answered 400.                                         *)
TokenList(r) == ~Nominates(r, "")
Lifecycle(r) == TokenList(r) /\ ~(Nominates(r, "close") /\ Nominates(r, "keep-alive"))
CriticalOptions ==
  {"connection", "host", "content-length", "transfer-encoding", "trailer", "expect"}
CriticalNomination(r) == Lifecycle(r) /\ \A name \in CriticalOptions : ~Nominates(r, name)
UniqueOptions(r) ==
  CriticalNomination(r) /\ \A p, q \in Options(r) : Option(r, p) = Option(r, q) => p = q
SingleConnection(r) == UniqueOptions(r) /\ \A i, j \in Named(r, "connection") : i = j
KeepAliveOption(r) == SingleConnection(r) /\ ~Nominates(r, "keep-alive")
NoKeepAlive(r) == SingleConnection(r) /\ ~Present(r, "keep-alive")
Http2Settings(r) ==
  NoKeepAlive(r) /\ ~Present(r, "http2-settings") /\ ~Nominates(r, "http2-settings")
WebSocket(r) == Http2Settings(r) /\ ~Present(r, "sec-websocket-key")
ProxyAuthorization(r) ==
  WebSocket(r) /\ ~Present(r, "proxy-authorization") /\ ~Nominates(r, "proxy-authorization")

(* Eighty modules keep one end-to-end field each from being nominated as       *)
(* hop-by-hop by a Connection option.                                          *)
Authorization(r) == ProxyAuthorization(r) /\ ~Nominates(r, "authorization")
Cookie(r) == Authorization(r) /\ ~Nominates(r, "cookie")
Forwarded(r) == Cookie(r) /\ ~Nominates(r, "forwarded")
XForwardedFor(r) == Forwarded(r) /\ ~Nominates(r, "x-forwarded-for")
XForwardedHost(r) == XForwardedFor(r) /\ ~Nominates(r, "x-forwarded-host")
XForwardedProto(r) == XForwardedHost(r) /\ ~Nominates(r, "x-forwarded-proto")
XForwardedPort(r) == XForwardedProto(r) /\ ~Nominates(r, "x-forwarded-port")
XForwardedPrefix(r) == XForwardedPort(r) /\ ~Nominates(r, "x-forwarded-prefix")
XForwardedSsl(r) == XForwardedPrefix(r) /\ ~Nominates(r, "x-forwarded-ssl")
XForwardedServer(r) == XForwardedSsl(r) /\ ~Nominates(r, "x-forwarded-server")
XForwardedUri(r) == XForwardedServer(r) /\ ~Nominates(r, "x-forwarded-uri")
XOriginalUri(r) == XForwardedUri(r) /\ ~Nominates(r, "x-original-uri")
XOriginalUrl(r) == XOriginalUri(r) /\ ~Nominates(r, "x-original-url")
XRewriteUrl(r) == XOriginalUrl(r) /\ ~Nominates(r, "x-rewrite-url")
XForwardedScheme(r) == XRewriteUrl(r) /\ ~Nominates(r, "x-forwarded-scheme")
XRealIp(r) == XForwardedScheme(r) /\ ~Nominates(r, "x-real-ip")
XClientIp(r) == XRealIp(r) /\ ~Nominates(r, "x-client-ip")
TrueClientIp(r) == XClientIp(r) /\ ~Nominates(r, "true-client-ip")
CfConnectingIp(r) == TrueClientIp(r) /\ ~Nominates(r, "cf-connecting-ip")
XClusterClientIp(r) == CfConnectingIp(r) /\ ~Nominates(r, "x-cluster-client-ip")
FastlyClientIp(r) == XClusterClientIp(r) /\ ~Nominates(r, "fastly-client-ip")
FlyClientIp(r) == FastlyClientIp(r) /\ ~Nominates(r, "fly-client-ip")
XEnvoyExternalAddress(r) == FlyClientIp(r) /\ ~Nominates(r, "x-envoy-external-address")
XEnvoyOriginalDstHost(r) == XEnvoyExternalAddress(r) /\ ~Nominates(r, "x-envoy-original-dst-host")
XEnvoyOriginalPath(r) == XEnvoyOriginalDstHost(r) /\ ~Nominates(r, "x-envoy-original-path")
XEnvoyOriginalUrl(r) == XEnvoyOriginalPath(r) /\ ~Nominates(r, "x-envoy-original-url")
XEnvoyInternal(r) == XEnvoyOriginalUrl(r) /\ ~Nominates(r, "x-envoy-internal")
XEnvoyAttemptCount(r) == XEnvoyInternal(r) /\ ~Nominates(r, "x-envoy-attempt-count")
XEnvoyDecoratorOperation(r) == XEnvoyAttemptCount(r) /\ ~Nominates(r, "x-envoy-decorator-operation")
XEnvoyExpectedRqTimeoutMs(r) == XEnvoyDecoratorOperation(r) /\ ~Nominates(r, "x-envoy-expected-rq-timeout-ms")
XEnvoyUpstreamRqTimeoutMs(r) == XEnvoyExpectedRqTimeoutMs(r) /\ ~Nominates(r, "x-envoy-upstream-rq-timeout-ms")
XEnvoyUpstreamRqPerTryTimeoutMs(r) == XEnvoyUpstreamRqTimeoutMs(r) /\ ~Nominates(r, "x-envoy-upstream-rq-per-try-timeout-ms")
XEnvoyRetryOn(r) == XEnvoyUpstreamRqPerTryTimeoutMs(r) /\ ~Nominates(r, "x-envoy-retry-on")
XEnvoyRetryGrpcOn(r) == XEnvoyRetryOn(r) /\ ~Nominates(r, "x-envoy-retry-grpc-on")
XEnvoyMaxRetries(r) == XEnvoyRetryGrpcOn(r) /\ ~Nominates(r, "x-envoy-max-retries")
XEnvoyHedgeOnPerTryTimeout(r) == XEnvoyMaxRetries(r) /\ ~Nominates(r, "x-envoy-hedge-on-per-try-timeout")
XEnvoyRetriableHeaderNames(r) == XEnvoyHedgeOnPerTryTimeout(r) /\ ~Nominates(r, "x-envoy-retriable-header-names")
XEnvoyRetriableStatusCodes(r) == XEnvoyRetriableHeaderNames(r) /\ ~Nominates(r, "x-envoy-retriable-status-codes")
XEnvoyUpstreamAltStatName(r) == XEnvoyRetriableStatusCodes(r) /\ ~Nominates(r, "x-envoy-upstream-alt-stat-name")
XEnvoyUpstreamRqTimeoutAltResponse(r) == XEnvoyUpstreamAltStatName(r) /\ ~Nominates(r, "x-envoy-upstream-rq-timeout-alt-response")
XEnvoyIsTimeoutRetry(r) == XEnvoyUpstreamRqTimeoutAltResponse(r) /\ ~Nominates(r, "x-envoy-is-timeout-retry")
XEnvoyOriginalHost(r) == XEnvoyIsTimeoutRetry(r) /\ ~Nominates(r, "x-envoy-original-host")
XEnvoyUpstreamStreamDurationMs(r) == XEnvoyOriginalHost(r) /\ ~Nominates(r, "x-envoy-upstream-stream-duration-ms")
XEnvoyDownstreamServiceCluster(r) == XEnvoyUpstreamStreamDurationMs(r) /\ ~Nominates(r, "x-envoy-downstream-service-cluster")
XEnvoyDownstreamServiceNode(r) == XEnvoyDownstreamServiceCluster(r) /\ ~Nominates(r, "x-envoy-downstream-service-node")
XEnvoyForceTrace(r) == XEnvoyDownstreamServiceNode(r) /\ ~Nominates(r, "x-envoy-force-trace")
XEnvoyIpTags(r) == XEnvoyForceTrace(r) /\ ~Nominates(r, "x-envoy-ip-tags")
XForwardedClientCert(r) == XEnvoyIpTags(r) /\ ~Nominates(r, "x-forwarded-client-cert")
XRequestId(r) == XForwardedClientCert(r) /\ ~Nominates(r, "x-request-id")
XClientTraceId(r) == XRequestId(r) /\ ~Nominates(r, "x-client-trace-id")
XOtSpanContext(r) == XClientTraceId(r) /\ ~Nominates(r, "x-ot-span-context")
XB3Traceid(r) == XOtSpanContext(r) /\ ~Nominates(r, "x-b3-traceid")
XB3Spanid(r) == XB3Traceid(r) /\ ~Nominates(r, "x-b3-spanid")
XB3Parentspanid(r) == XB3Spanid(r) /\ ~Nominates(r, "x-b3-parentspanid")
XB3Sampled(r) == XB3Parentspanid(r) /\ ~Nominates(r, "x-b3-sampled")
SkipsSampled(r) == XB3Parentspanid(r) /\ ~Nominates(r, "x-b3-flags")
XB3Flags(r) == XB3Sampled(r) /\ ~Nominates(r, "x-b3-flags")
B3(r) == XB3Flags(r) /\ ~Nominates(r, "b3")
XDatadogTraceId(r) == B3(r) /\ ~Nominates(r, "x-datadog-trace-id")
XDatadogParentId(r) == XDatadogTraceId(r) /\ ~Nominates(r, "x-datadog-parent-id")
XDatadogSamplingPriority(r) == XDatadogParentId(r) /\ ~Nominates(r, "x-datadog-sampling-priority")
Sw8(r) == XDatadogSamplingPriority(r) /\ ~Nominates(r, "sw8")
XAmznTraceId(r) == Sw8(r) /\ ~Nominates(r, "x-amzn-trace-id")
Traceparent(r) == XAmznTraceId(r) /\ ~Nominates(r, "traceparent")
Tracestate(r) == Traceparent(r) /\ ~Nominates(r, "tracestate")
XEnvoyLocalOverloaded(r) == Tracestate(r) /\ ~Nominates(r, "x-envoy-local-overloaded")
Referer(r) == XEnvoyLocalOverloaded(r) /\ ~Nominates(r, "referer")
UserAgent(r) == Referer(r) /\ ~Nominates(r, "user-agent")
XEnvoyOriginalMethod(r) == UserAgent(r) /\ ~Nominates(r, "x-envoy-original-method")
XEnvoyPeerMetadata(r) == XEnvoyOriginalMethod(r) /\ ~Nominates(r, "x-envoy-peer-metadata")
XEnvoyPeerMetadataId(r) == XEnvoyPeerMetadata(r) /\ ~Nominates(r, "x-envoy-peer-metadata-id")
XEnvoyAuthPartialBody(r) == XEnvoyPeerMetadataId(r) /\ ~Nominates(r, "x-envoy-auth-partial-body")
XEnvoyOauthStatus(r) == XEnvoyAuthPartialBody(r) /\ ~Nominates(r, "x-envoy-oauth-status")
XEnvoyOauthFailureReason(r) == XEnvoyOauthStatus(r) /\ ~Nominates(r, "x-envoy-oauth-failure-reason")
GrpcTimeout(r) == XEnvoyOauthFailureReason(r) /\ ~Nominates(r, "grpc-timeout")
GrpcPreviousRpcAttempts(r) == GrpcTimeout(r) /\ ~Nominates(r, "grpc-previous-rpc-attempts")
GrpcEncoding(r) == GrpcPreviousRpcAttempts(r) /\ ~Nominates(r, "grpc-encoding")
GrpcAcceptEncoding(r) == GrpcEncoding(r) /\ ~Nominates(r, "grpc-accept-encoding")
GrpcMessageType(r) == GrpcAcceptEncoding(r) /\ ~Nominates(r, "grpc-message-type")
ContentType(r) == GrpcMessageType(r) /\ ~Nominates(r, "content-type")
GrpcStatus(r) == ContentType(r) /\ ~Nominates(r, "grpc-status")
-----------------------------------------------------------------------------
(* The order in which the gates speak, and the status each one refuses with.   *)
Gates(r) ==
  << <<RequestLineBudget(r), 414>>, <<ParsableVersion(r), 505>>, <<WellFormedLine(r), 400>>,
     <<HeaderBytes(r), 431>>, <<HeaderFields(r), 431>>, <<BodyFraming(r), 400>>,
     <<SupportedVersion(r), 505>>, <<SingleHost(r), 400>>, <<OriginTarget(r), 400>>,
     <<NoFolding(r), 400>>, <<FieldNames(r), 400>>, <<FieldValues(r), 400>>,
     <<NoExpectation(r), 417>>, <<HostAuthority(r), 400>>, <<LineSpacing(r), 400>>,
     <<PercentEscapes(r), 400>>, <<CanonicalCRLF(r), 400>>, <<NoUpgrade(r), 400>>,
     <<NoTrailer(r), 400>>, <<NoTE(r), 400>>, <<NoProxyConnection(r), 400>>,
     <<TokenList(r), 400>>, <<GrpcStatus(r), 400>> >>

(* What parse_request comes to: the first gate that objects answers, and 0     *)
(* stands for a request that every gate lets through.                          *)
Admitted(r) == LET gates == Gates(r) IN \A i \in DOMAIN gates : gates[i][1]
Refusal(r) ==
  LET gates == Gates(r)
      objecting == {i \in DOMAIN gates : ~gates[i][1]}
  IN IF objecting = {} THEN 0 ELSE gates[Min(objecting)][2]

(* After the gates: BaseHTTPRequestHandler looks for do_<method>, and the      *)
(* chain's send_error turns its 501 into 405 or 404.                           *)
UnknownMethod(r) == IF r.path \in LivePaths THEN 405 ELSE 404

(* _live_request_body_is_valid: do_GET and do_HEAD look at the length again,   *)
(* on live paths only, and take the canonical spelling alone.                  *)
LengthOfBlanks(r) == r.path \in LivePaths => BodyFraming(r)
LiveBody(r) ==
  \/ r.path \notin LivePaths
  \/ /\ ~Present(r, "transfer-encoding")
     /\ ~Present(r, "content-length") \/ Once(r, "content-length", {<<"0">>})

(* The answers that need nothing from the runtime; 0 when it must be asked.    *)
Dispatch(r) ==
  IF r.method \notin {"GET", "HEAD"} THEN UnknownMethod(r)
  ELSE IF ~LiveBody(r) THEN 400
  ELSE IF r.path = "/livez" THEN 200
  ELSE IF r.path \notin LivePaths THEN 404
  ELSE 0

(* A request line of blanks ends the connection without an answer.             *)
Silent(r) == r.line = "blank"
=============================================================================
