---------------------------- MODULE HealthRequests ----------------------------
(* Clients write requests of every kind to the health server: this module      *)
(* grows a request field by field and option by option, and compares what the  *)
(* chain of gates makes of it with the numbered list of README.md.             *)
EXTENDS HealthGuards

CONSTANT Clients  \* kinds of clients, by what each may write: the lines it begins with,
                  \* the fields and the Connection options it adds, how many of them

ASSUME ClientsAssumption ==
  \A c \in Clients :
    /\ c.lines \subseteq LineShapes \X Methods \X Paths \X Versions
    /\ c.fields \subseteq Field /\ c.options \subseteq STRING
    /\ c.maxFields \in Nat /\ c.maxOptions \in Nat

VARIABLES client, request

vars == <<client, request>>

Init ==
  /\ client \in Clients
  /\ \E l \in client.lines, ended \in BOOLEAN :
       request = [line |-> l[1], method |-> l[2], path |-> l[3], version |-> l[4],
                  fields |-> <<>>, ended |-> ended]

AddField(f) ==
  /\ Len(request.fields) < client.maxFields
  /\ request' = [request EXCEPT !.fields = Append(@, f)]

AddOption(i, o) ==
  /\ request.fields[i].name = "connection"
  /\ Cardinality(Options(request)) < client.maxOptions
  /\ request' = [request EXCEPT !.fields[i].parts = Append(@, o)]

AddsOption == \E i \in DOMAIN request.fields, o \in client.options : AddOption(i, o)

Next ==
  /\ (\E f \in client.fields : AddField(f)) \/ AddsOption
  /\ UNCHANGED client

Spec == Init /\ [][Next]_vars
-----------------------------------------------------------------------------
(* README.md, "Safety invariants": the fields that make a request refused by   *)
(* being there (10, 14 to 16, 22 to 25, and Transfer-Encoding), and the names  *)
(* no Connection option may have (13, 15, 16, 19, 23, 25 and 26 to 105).       *)
ForbiddenFields ==
  {"transfer-encoding", "expect", "upgrade", "trailer", "te", "proxy-connection",
   "keep-alive", "http2-settings", "sec-websocket-key", "proxy-authorization"}

ForbiddenOptions ==
  {"upgrade", "te", "proxy-connection", "connection", "host", "content-length",
   "transfer-encoding", "trailer", "expect", "http2-settings", "proxy-authorization",
   "authorization", "cookie", "forwarded", "x-forwarded-for", "x-forwarded-host",
   "x-forwarded-proto", "x-forwarded-port", "x-forwarded-prefix",
   "x-forwarded-ssl", "x-forwarded-server", "x-forwarded-uri", "x-original-uri",
   "x-original-url", "x-rewrite-url", "x-forwarded-scheme", "x-real-ip",
   "x-client-ip", "true-client-ip", "cf-connecting-ip", "x-cluster-client-ip",
   "fastly-client-ip", "fly-client-ip", "x-envoy-external-address",
   "x-envoy-original-dst-host", "x-envoy-original-path", "x-envoy-original-url",
   "x-envoy-internal", "x-envoy-attempt-count", "x-envoy-decorator-operation",
   "x-envoy-expected-rq-timeout-ms", "x-envoy-upstream-rq-timeout-ms",
   "x-envoy-upstream-rq-per-try-timeout-ms", "x-envoy-retry-on",
   "x-envoy-retry-grpc-on", "x-envoy-max-retries",
   "x-envoy-hedge-on-per-try-timeout", "x-envoy-retriable-header-names",
   "x-envoy-retriable-status-codes", "x-envoy-upstream-alt-stat-name",
   "x-envoy-upstream-rq-timeout-alt-response", "x-envoy-is-timeout-retry",
   "x-envoy-original-host", "x-envoy-upstream-stream-duration-ms",
   "x-envoy-downstream-service-cluster", "x-envoy-downstream-service-node",
   "x-envoy-force-trace", "x-envoy-ip-tags", "x-forwarded-client-cert",
   "x-request-id", "x-client-trace-id", "x-ot-span-context", "x-b3-traceid",
   "x-b3-spanid", "x-b3-parentspanid", "x-b3-sampled", "x-b3-flags", "b3",
   "x-datadog-trace-id", "x-datadog-parent-id", "x-datadog-sampling-priority",
   "sw8", "x-amzn-trace-id", "traceparent", "tracestate",
   "x-envoy-local-overloaded", "referer", "user-agent", "x-envoy-original-method",
   "x-envoy-peer-metadata", "x-envoy-peer-metadata-id",
   "x-envoy-auth-partial-body", "x-envoy-oauth-status",
   "x-envoy-oauth-failure-reason", "grpc-timeout", "grpc-previous-rpc-attempts",
   "grpc-encoding", "grpc-accept-encoding", "grpc-message-type", "content-type",
   "grpc-status"}

Documented(r) ==
  /\ r.line = "plain" /\ r.ended
  /\ r.version \in {"HTTP/1.0", "HTTP/1.1"}
  /\ \A i \in DOMAIN r.fields :
       r.fields[i].raw = "plain" /\ r.fields[i].name \notin ForbiddenFields
  /\ r.version = "HTTP/1.1" =>
       \E i \in DOMAIN r.fields :
         /\ r.fields[i].name = "host"
         /\ \E a \in SafeAuthorities : r.fields[i].parts = <<a>>
         /\ \A j \in DOMAIN r.fields : r.fields[j].name = "host" => j = i
  /\ \A i, j \in DOMAIN r.fields :
       (r.fields[i].name = r.fields[j].name /\ r.fields[i].name \in {"connection", "content-length"})
         => i = j
  /\ \A i \in DOMAIN r.fields :
       r.fields[i].name = "content-length" => r.fields[i].parts \in {<<"0">>, <<"0 ">>}
  /\ \A i \in DOMAIN r.fields : r.fields[i].name = "connection" =>
       LET options == ToSet(r.fields[i].parts) IN
       /\ "" \notin options
       /\ options \cap ForbiddenOptions = {}
       /\ ~{"close", "keep-alive"} \subseteq options
       /\ IsInjective(r.fields[i].parts)
  /\ Len(r.fields) <= MaxHeaderFields
  /\ HeaderSize(r) <= MaxHeaderBytes

(* A hundred modules each add one gate to the ones before it, and a slip in    *)
(* any of them (a predicate that calls the wrong predecessor, a name that is   *)
(* misspelled, a gate that refuses the field instead of its nomination) leaves *)
(* every other gate's tests green.  The chain admits exactly the requests of   *)
(* the documented list.                                                        *)
AdmittedAsDocumented == Silent(request) \/ (Admitted(request) <=> Documented(request))

(* "Earlier gates retain precedence" (README.md:17): once some gate refuses a  *)
(* request, nominating one more field changes nothing about the answer; a      *)
(* nomination is answered only when every inherited gate has let it pass.      *)
EarlierGatesKeepPrecedence ==
  [][AddsOption /\ ~Admitted(request) => Refusal(request') = Refusal(request)]_vars

(* What the runtime is asked for was looked at twice, once by the gates and    *)
(* once by do_GET, which read the same length field in different ways: nothing *)
(* with a body, or with a length the two could read differently, gets to the   *)
(* runtime, and neither does a method the server does not have.                *)
AskedOnlyForBodylessReads ==
  Admitted(request) /\ Dispatch(request) = 0 =>
    /\ request.method \in {"GET", "HEAD"}
    /\ request.path \in {"/readyz", "/metrics"}
    /\ \A i \in DOMAIN request.fields :
         /\ request.fields[i].name # "transfer-encoding"
         /\ request.fields[i].name = "content-length" => request.fields[i].parts = <<"0">>
=============================================================================
