-------------------------- MODULE HealthRequestsProofs --------------------------
(* What the chain of gates admits, for requests of any length, any budgets and *)
(* any clients: the runs grow requests of two or three fields.                 *)
EXTENDS HealthRequests, FiniteSetTheorems, WellFoundedInduction, TLAPS

-----------------------------------------------------------------------------
(* Requests.                                                                   *)

Request ==
  [line : LineShapes, method : Methods, path : Paths, version : Versions,
   fields : Seq(Field), ended : BOOLEAN]

TypeInv == client \in Clients /\ request \in Request

(* A field with one more option is a field.                                    *)
LEMMA LongerField ==
  ASSUME NEW f \in Field, NEW o \in STRING
  PROVE  [f EXCEPT !.parts = Append(@, o)] \in Field
<1>1. Append(f.parts, o) \in Seq(STRING)
  BY DEF Field
<1> QED BY <1>1 DEF Field

(* A client keeps to requests of these kinds.                                  *)
LEMMA Typed == Spec => []TypeInv
<1>1. Init => TypeInv
  <2> SUFFICES ASSUME Init
               PROVE  request \in Request /\ client \in Clients
    BY DEF TypeInv
  <2>1. PICK l \in client.lines, ended \in BOOLEAN :
          request = [line |-> l[1], method |-> l[2], path |-> l[3], version |-> l[4],
                     fields |-> <<>>, ended |-> ended]
    BY DEF Init
  <2>2. client \in Clients /\ l \in LineShapes \X Methods \X Paths \X Versions
    BY ClientsAssumption DEF Init
  <2>3. <<>> \in Seq(Field)
    OBVIOUS
  <2> QED BY <2>1, <2>2, <2>3 DEF Request
<1>2. TypeInv /\ [Next]_vars => TypeInv'
  <2> SUFFICES ASSUME TypeInv, [Next]_vars
               PROVE  TypeInv'
    OBVIOUS
  <2>1. CASE UNCHANGED vars
    BY <2>1 DEF TypeInv, vars
  <2>2. ASSUME NEW f \in client.fields, AddField(f), UNCHANGED client
        PROVE  TypeInv'
    <3>1. f \in Field /\ request.fields \in Seq(Field)
      BY ClientsAssumption DEF TypeInv, Request
    <3>2. Append(request.fields, f) \in Seq(Field)
      BY <3>1
    <3> QED BY <2>2, <3>2 DEF TypeInv, Request, AddField
  <2>3. ASSUME NEW i \in DOMAIN request.fields, NEW o \in client.options, AddOption(i, o),
               UNCHANGED client
        PROVE  TypeInv'
    <3> DEFINE longer == [request.fields EXCEPT ![i].parts = Append(@, o)]
    <3>1. o \in STRING /\ request.fields \in Seq(Field)
      BY ClientsAssumption DEF TypeInv, Request
    <3>2. request.fields[i] \in Field
      BY <3>1
    <3>3. longer = [request.fields EXCEPT ![i] = [request.fields[i] EXCEPT !.parts = Append(@, o)]]
      OBVIOUS
    <3>4. longer \in Seq(Field)
      BY <3>1, <3>2, <3>3, LongerField
    <3>5. request' = [request EXCEPT !.fields = longer]
      BY <2>3 DEF AddOption
    <3> HIDE DEF longer
    <3> QED BY <2>3, <3>4, <3>5 DEF TypeInv, Request
  <2> QED BY <2>1, <2>2, <2>3 DEF Next, AddsOption
<1> QED BY <1>1, <1>2, PTL DEF Spec

-----------------------------------------------------------------------------
(* The gates.                                                                  *)

(* The names that the eighty modules at the end of the chain keep from being   *)
(* nominated.                                                                  *)
EndToEnd ==
  ForbiddenOptions \ {"upgrade", "te", "proxy-connection", "connection", "host", "content-length",
   "transfer-encoding", "trailer", "expect", "http2-settings", "proxy-authorization"}

(* Each of these modules calls the one before it, down to ProxyAuthorization.  *)
LEMMA Chain ==
  ASSUME NEW r
  PROVE  GrpcStatus(r) <=> ProxyAuthorization(r) /\ \A o \in EndToEnd : ~Nominates(r, o)
BY DEF EndToEnd, ForbiddenOptions,
  Authorization, Cookie, Forwarded, XForwardedFor, XForwardedHost,
  XForwardedProto, XForwardedPort, XForwardedPrefix, XForwardedSsl,
  XForwardedServer, XForwardedUri, XOriginalUri, XOriginalUrl, XRewriteUrl,
  XForwardedScheme, XRealIp, XClientIp, TrueClientIp, CfConnectingIp,
  XClusterClientIp, FastlyClientIp, FlyClientIp, XEnvoyExternalAddress,
  XEnvoyOriginalDstHost, XEnvoyOriginalPath, XEnvoyOriginalUrl,
  XEnvoyInternal, XEnvoyAttemptCount, XEnvoyDecoratorOperation,
  XEnvoyExpectedRqTimeoutMs, XEnvoyUpstreamRqTimeoutMs,
  XEnvoyUpstreamRqPerTryTimeoutMs, XEnvoyRetryOn, XEnvoyRetryGrpcOn,
  XEnvoyMaxRetries, XEnvoyHedgeOnPerTryTimeout, XEnvoyRetriableHeaderNames,
  XEnvoyRetriableStatusCodes, XEnvoyUpstreamAltStatName,
  XEnvoyUpstreamRqTimeoutAltResponse, XEnvoyIsTimeoutRetry,
  XEnvoyOriginalHost, XEnvoyUpstreamStreamDurationMs,
  XEnvoyDownstreamServiceCluster, XEnvoyDownstreamServiceNode,
  XEnvoyForceTrace, XEnvoyIpTags, XForwardedClientCert, XRequestId,
  XClientTraceId, XOtSpanContext, XB3Traceid, XB3Spanid, XB3Parentspanid,
  XB3Sampled, XB3Flags, B3, XDatadogTraceId, XDatadogParentId,
  XDatadogSamplingPriority, Sw8, XAmznTraceId, Traceparent, Tracestate,
  XEnvoyLocalOverloaded, Referer, UserAgent, XEnvoyOriginalMethod,
  XEnvoyPeerMetadata, XEnvoyPeerMetadataId, XEnvoyAuthPartialBody,
  XEnvoyOauthStatus, XEnvoyOauthFailureReason, GrpcTimeout,
  GrpcPreviousRpcAttempts, GrpcEncoding, GrpcAcceptEncoding, GrpcMessageType,
  ContentType, GrpcStatus

(* What Admitted asks of a request, gate by gate.                              *)
LEMMA EveryGate ==
  ASSUME NEW r
  PROVE  Admitted(r) <=>
           /\ RequestLineBudget(r) /\ ParsableVersion(r) /\ WellFormedLine(r) /\ HeaderBytes(r)
           /\ HeaderFields(r) /\ BodyFraming(r) /\ SupportedVersion(r) /\ SingleHost(r)
           /\ OriginTarget(r) /\ NoFolding(r) /\ FieldNames(r) /\ FieldValues(r)
           /\ NoExpectation(r) /\ HostAuthority(r) /\ LineSpacing(r) /\ PercentEscapes(r)
           /\ CanonicalCRLF(r) /\ NoUpgrade(r) /\ NoTrailer(r) /\ NoTE(r)
           /\ NoProxyConnection(r) /\ TokenList(r) /\ GrpcStatus(r)
<1>1. DOMAIN Gates(r) = 1..23
  BY DEF Gates
<1>2. Admitted(r) <=> \A i \in 1..23 : Gates(r)[i][1]
  BY <1>1 DEF Admitted
<1> QED BY <1>2 DEF Gates

(* Where the options of the Connection fields stand.                           *)
LEMMA OptionAt ==
  ASSUME NEW r, NEW i \in Named(r, "connection"), NEW j \in DOMAIN r.fields[i].parts
  PROVE  <<i, j>> \in Options(r) /\ Option(r, <<i, j>>) = r.fields[i].parts[j]
BY DEF Options, Option

(* An option stands at some place in some Connection field.                    *)
LEMMA AtSomeField ==
  ASSUME NEW r, NEW at \in Options(r)
  PROVE  \E i \in Named(r, "connection") : \E j \in DOMAIN r.fields[i].parts : at = <<i, j>>
BY DEF Options

(* A name is nominated if it is an option of some Connection field.            *)
LEMMA Nominated ==
  ASSUME NEW r, NEW name
  PROVE  Nominates(r, name) <=>
           \E i \in DOMAIN r.fields : /\ r.fields[i].name = "connection"
                                     /\ \E j \in DOMAIN r.fields[i].parts : r.fields[i].parts[j] = name
<1>1. ASSUME NEW i \in Named(r, "connection"), NEW j \in DOMAIN r.fields[i].parts,
             r.fields[i].parts[j] = name
      PROVE  Nominates(r, name)
  BY <1>1, OptionAt DEF Nominates
<1>2. ASSUME NEW at \in Options(r), Option(r, at) = name
      PROVE  \E i \in Named(r, "connection") :
               \E j \in DOMAIN r.fields[i].parts : r.fields[i].parts[j] = name
  <2>1. PICK i \in Named(r, "connection") : \E j \in DOMAIN r.fields[i].parts : at = <<i, j>>
    BY AtSomeField
  <2>2. PICK j \in DOMAIN r.fields[i].parts : at = <<i, j>>
    BY <2>1
  <2>3. r.fields[i].parts[j] = name
    BY <1>2, <2>2, OptionAt
  <2> QED BY <2>3
<1>3. Nominates(r, name) => \E i \in Named(r, "connection") :
                              \E j \in DOMAIN r.fields[i].parts : r.fields[i].parts[j] = name
  BY <1>2 DEF Nominates
<1> QED BY <1>1, <1>3 DEF Named

(* With one Connection field, no option twice is no option twice in its value. *)
LEMMA OptionsOfOne ==
  ASSUME NEW r, \A i, j \in Named(r, "connection") : i = j
  PROVE  (\A p, q \in Options(r) : Option(r, p) = Option(r, q) => p = q)
           <=> \A i \in DOMAIN r.fields :
                 r.fields[i].name = "connection" => IsInjective(r.fields[i].parts)
<1>1. ASSUME \A p, q \in Options(r) : Option(r, p) = Option(r, q) => p = q,
             NEW i \in Named(r, "connection")
      PROVE  IsInjective(r.fields[i].parts)
  <2> SUFFICES ASSUME NEW a \in DOMAIN r.fields[i].parts, NEW b \in DOMAIN r.fields[i].parts,
                      r.fields[i].parts[a] = r.fields[i].parts[b]
               PROVE  a = b
    BY DEF IsInjective
  <2>1. /\ <<i, a>> \in Options(r) /\ Option(r, <<i, a>>) = r.fields[i].parts[a]
        /\ <<i, b>> \in Options(r) /\ Option(r, <<i, b>>) = r.fields[i].parts[b]
    BY OptionAt
  <2>2. <<i, a>> = <<i, b>>
    BY <1>1, <2>1
  <2> QED BY <2>2
<1>2. ASSUME \A i \in Named(r, "connection") : IsInjective(r.fields[i].parts),
             NEW p \in Options(r), NEW q \in Options(r), Option(r, p) = Option(r, q)
      PROVE  p = q
  <2>1. PICK i \in Named(r, "connection") : \E a \in DOMAIN r.fields[i].parts : p = <<i, a>>
    BY AtSomeField
  <2>2. PICK k \in Named(r, "connection") : \E b \in DOMAIN r.fields[k].parts : q = <<k, b>>
    BY AtSomeField
  <2>3. PICK a \in DOMAIN r.fields[i].parts : p = <<i, a>>
    BY <2>1
  <2>4. PICK b \in DOMAIN r.fields[k].parts : q = <<k, b>>
    BY <2>2
  <2>5. i = k
    OBVIOUS
  <2>6. /\ Option(r, p) = r.fields[i].parts[a]
        /\ Option(r, q) = r.fields[i].parts[b] /\ b \in DOMAIN r.fields[i].parts
    BY <2>3, <2>4, <2>5, OptionAt
  <2>7. a = b
    BY <1>2, <2>6 DEF IsInjective
  <2> QED BY <2>3, <2>4, <2>5, <2>7
<1> QED BY <1>1, <1>2 DEF Named

(* The whole chain of predicates behind the last gate.                         *)
LEMMA ChainAsList ==
  ASSUME NEW r
  PROVE  GrpcStatus(r) <=>
           /\ ~Nominates(r, "") /\ ~(Nominates(r, "close") /\ Nominates(r, "keep-alive"))
           /\ \A o \in ForbiddenOptions \ {"upgrade", "te", "proxy-connection"} : ~Nominates(r, o)
           /\ \A p, q \in Options(r) : Option(r, p) = Option(r, q) => p = q
           /\ \A i, j \in Named(r, "connection") : i = j
           /\ ~Present(r, "keep-alive") /\ ~Present(r, "http2-settings")
           /\ ~Present(r, "sec-websocket-key") /\ ~Present(r, "proxy-authorization")
<1> DEFINE unique == \A p, q \in Options(r) : Option(r, p) = Option(r, q) => p = q
           single == \A i, j \in Named(r, "connection") : i = j
           named == CriticalOptions \cup {"http2-settings", "proxy-authorization"}
<1>1. ProxyAuthorization(r) <=>
        /\ ~Nominates(r, "") /\ ~(Nominates(r, "close") /\ Nominates(r, "keep-alive"))
        /\ \A o \in named : ~Nominates(r, o)
        /\ unique /\ single
        /\ ~Present(r, "keep-alive") /\ ~Present(r, "http2-settings")
        /\ ~Present(r, "sec-websocket-key") /\ ~Present(r, "proxy-authorization")
  <2> HIDE DEF unique, single
  <2>1. SingleConnection(r) <=> CriticalNomination(r) /\ unique /\ single
    BY DEF SingleConnection, UniqueOptions, unique, single
  <2> QED BY <2>1 DEF ProxyAuthorization, WebSocket, Http2Settings, NoKeepAlive,
                      CriticalNomination, Lifecycle, TokenList
<1>2. ForbiddenOptions \ {"upgrade", "te", "proxy-connection"} = named \cup EndToEnd
  BY DEF ForbiddenOptions, EndToEnd, CriticalOptions
<1> HIDE DEF unique, single, named
<1> QED BY <1>1, <1>2, Chain DEF unique, single

-----------------------------------------------------------------------------
(* What the gates ask, next to what the list says.                             *)

(* The gates of the request line let the plain line pass, of the two supported *)
(* versions, and no other.                                                     *)
LEMMA PlainLine ==
  ASSUME NEW r \in Request, ~Silent(r)
  PROVE  /\ RequestLineBudget(r) /\ ParsableVersion(r) /\ WellFormedLine(r) /\ SupportedVersion(r)
         /\ OriginTarget(r) /\ LineSpacing(r) /\ PercentEscapes(r) /\ r.line # "lf"
    <=> r.line = "plain" /\ r.version \in {"HTTP/1.0", "HTTP/1.1"}
BY DEF Request, LineShapes, Silent, RequestLineBudget, ParsableVersion, WellFormedLine,
       SupportedVersion, OriginTarget, LineSpacing, PercentEscapes

(* The gates of the raw header lines let plain fields pass alone.              *)
LEMMA PlainFields ==
  ASSUME NEW r \in Request
  PROVE  /\ NoFolding(r) /\ FieldNames(r) /\ FieldValues(r) /\ ~Spelled(r, "lf")
    <=> \A i \in DOMAIN r.fields : r.fields[i].raw = "plain"
<1>1. \A i \in DOMAIN r.fields : r.fields[i].raw \in Spellings
  <2>1. r.fields \in Seq(Field)
    BY DEF Request
  <2>2. \A i \in DOMAIN r.fields : r.fields[i] \in Field
    BY <2>1
  <2> QED BY <2>2 DEF Field
<1> QED BY <1>1 DEF Spellings, NoFolding, FieldNames, FieldValues, Spelled

(* Without folded lines the budget of fields counts the fields.                *)
LEMMA FieldsCounted ==
  ASSUME NEW r \in Request, \A i \in DOMAIN r.fields : r.fields[i].raw = "plain"
  PROVE  HeaderFields(r) <=> Len(r.fields) <= MaxHeaderFields
<1>1. {i \in DOMAIN r.fields : r.fields[i].raw # "fold"} = 1..Len(r.fields)
  BY DEF Request
<1>2. Cardinality(1..Len(r.fields)) = Len(r.fields)
  <2>1. Len(r.fields) \in Nat
    BY DEF Request
  <2> QED BY <2>1, FS_Interval
<1> QED BY <1>1, <1>2 DEF HeaderFields

(* The list's words about Host.                                                *)
HostListed(r) ==
  r.version = "HTTP/1.1" =>
    \E i \in DOMAIN r.fields :
      /\ r.fields[i].name = "host"
      /\ \E a \in SafeAuthorities : r.fields[i].parts = <<a>>
      /\ \A j \in DOMAIN r.fields : r.fields[j].name = "host" => j = i

(* The two Host gates together ask for what the list says.                     *)
LEMMA OneHost ==
  ASSUME NEW r, r.version \in {"HTTP/1.0", "HTTP/1.1"}
  PROVE  SingleHost(r) /\ HostAuthority(r) <=> HostListed(r)
<1>1. ASSUME NEW i \in DOMAIN r.fields
      PROVE  Named(r, "host") = {i} <=>
               /\ r.fields[i].name = "host"
               /\ \A j \in DOMAIN r.fields : r.fields[j].name = "host" => j = i
  BY DEF Named
<1>2. \A a \in SafeAuthorities : Len(<<a>>) = 1 /\ <<a>> # <<"">>
  BY DEF SafeAuthorities
<1>3. HostAuthority(r) <=>
        \/ r.version = "HTTP/1.0"
        \/ \E i \in DOMAIN r.fields : /\ Named(r, "host") = {i}
                                     /\ \E a \in SafeAuthorities : r.fields[i].parts = <<a>>
  BY DEF HostAuthority, Once
<1>4. HostAuthority(r) => SingleHost(r)
  BY <1>2, <1>3 DEF SingleHost
<1> QED BY <1>1, <1>3, <1>4 DEF HostListed

(* BodyFraming asks for no Transfer-Encoding and at most one Content-Length,   *)
(* of zero.                                                                    *)
LEMMA OneLength ==
  ASSUME NEW r
  PROVE  BodyFraming(r) <=>
           /\ ~Present(r, "transfer-encoding")
           /\ \A i, j \in Named(r, "content-length") : i = j
           /\ \A i \in Named(r, "content-length") : r.fields[i].parts \in {<<"0">>, <<"0 ">>}
<1> DEFINE lengths == Named(r, "content-length")
<1>1. lengths \subseteq DOMAIN r.fields
  BY DEF Named
<1>2. \/ lengths = {}
      \/ Once(r, "content-length", {<<"0">>, <<"0 ">>})
      <=> /\ \A i, j \in lengths : i = j
          /\ \A i \in lengths : r.fields[i].parts \in {<<"0">>, <<"0 ">>}
  <2>1. Once(r, "content-length", {<<"0">>, <<"0 ">>}) <=>
          \E i \in DOMAIN r.fields : lengths = {i} /\ r.fields[i].parts \in {<<"0">>, <<"0 ">>}
    BY DEF Once
  <2> HIDE DEF lengths
  <2> QED BY <1>1, <2>1
<1> QED BY <1>2 DEF BodyFraming, Present

(* The gates that refuse a field for being there refuse the fields of the      *)
(* list.                                                                       *)
LEMMA NoneForbidden ==
  ASSUME NEW r
  PROVE  /\ ~Present(r, "transfer-encoding") /\ NoExpectation(r)
         /\ ~Present(r, "upgrade") /\ NoTrailer(r) /\ ~Present(r, "te")
         /\ ~Present(r, "proxy-connection") /\ ~Present(r, "keep-alive")
         /\ ~Present(r, "http2-settings") /\ ~Present(r, "sec-websocket-key")
         /\ ~Present(r, "proxy-authorization")
    <=> \A i \in DOMAIN r.fields : r.fields[i].name \notin ForbiddenFields
<1>1. \A name : ~Present(r, name) <=> \A i \in DOMAIN r.fields : r.fields[i].name # name
  BY DEF Present, Named
<1> QED BY <1>1 DEF ForbiddenFields, NoExpectation, NoTrailer

(* The gates that refuse options refuse those of the list, in one Connection   *)
(* field at most.                                                              *)
LEMMA NoneNominated ==
  ASSUME NEW r
  PROVE  /\ ~Nominates(r, "") /\ ~(Nominates(r, "close") /\ Nominates(r, "keep-alive"))
         /\ \A o \in ForbiddenOptions : ~Nominates(r, o)
         /\ \A p, q \in Options(r) : Option(r, p) = Option(r, q) => p = q
         /\ \A i, j \in Named(r, "connection") : i = j
    <=> /\ \A i, j \in Named(r, "connection") : i = j
        /\ \A i \in DOMAIN r.fields : r.fields[i].name = "connection" =>
             LET options == ToSet(r.fields[i].parts) IN
             /\ "" \notin options
             /\ options \cap ForbiddenOptions = {}
             /\ ~{"close", "keep-alive"} \subseteq options
             /\ IsInjective(r.fields[i].parts)
<1> SUFFICES ASSUME \A i, j \in Named(r, "connection") : i = j
             PROVE  /\ ~Nominates(r, "") /\ ~(Nominates(r, "close") /\ Nominates(r, "keep-alive"))
                    /\ \A o \in ForbiddenOptions : ~Nominates(r, o)
                    /\ \A i \in DOMAIN r.fields : r.fields[i].name = "connection" => IsInjective(r.fields[i].parts)
                  <=> \A i \in DOMAIN r.fields : r.fields[i].name = "connection" =>
                            LET options == ToSet(r.fields[i].parts) IN
                            /\ "" \notin options
                            /\ options \cap ForbiddenOptions = {}
                            /\ ~{"close", "keep-alive"} \subseteq options
                            /\ IsInjective(r.fields[i].parts)
  BY OptionsOfOne
<1>1. \A name : Nominates(r, name) <=>
        \E i \in DOMAIN r.fields : r.fields[i].name = "connection" /\ name \in ToSet(r.fields[i].parts)
  BY Nominated DEF ToSet
<1>2. \A i, j \in DOMAIN r.fields :
        r.fields[i].name = "connection" /\ r.fields[j].name = "connection" => i = j
  BY DEF Named
<1> QED BY <1>1, <1>2

(* The chain admits what the list says, whatever the request.                  *)
LEMMA ChainIsList ==
  ASSUME NEW r \in Request, ~Silent(r)
  PROVE  Admitted(r) <=> Documented(r)
<1> DEFINE plain == \A i \in DOMAIN r.fields : r.fields[i].raw = "plain"
           named == \A i \in DOMAIN r.fields : r.fields[i].name \notin ForbiddenFields
           version == r.version \in {"HTTP/1.0", "HTTP/1.1"}
           oneConnection == \A i, j \in Named(r, "connection") : i = j
           oneLength == \A i, j \in Named(r, "content-length") : i = j
           length == \A i \in Named(r, "content-length") : r.fields[i].parts \in {<<"0">>, <<"0 ">>}
           nominated == \A i \in DOMAIN r.fields : r.fields[i].name = "connection" =>
                          LET options == ToSet(r.fields[i].parts) IN
                          /\ "" \notin options
                          /\ options \cap ForbiddenOptions = {}
                          /\ ~{"close", "keep-alive"} \subseteq options
                          /\ IsInjective(r.fields[i].parts)
<1>1. Documented(r) <=>
        /\ r.line = "plain" /\ r.ended /\ version /\ plain /\ named /\ HostListed(r)
        /\ oneConnection /\ oneLength /\ length /\ nominated
        /\ Len(r.fields) <= MaxHeaderFields /\ HeaderBytes(r)
  <2>1. oneConnection /\ oneLength <=>
          \A i, j \in DOMAIN r.fields :
            (r.fields[i].name = r.fields[j].name /\ r.fields[i].name \in {"connection", "content-length"})
              => i = j
    BY DEF Named
  <2>2. length <=> \A i \in DOMAIN r.fields :
                     r.fields[i].name = "content-length" => r.fields[i].parts \in {<<"0">>, <<"0 ">>}
    BY DEF Named
  <2>3. plain /\ named <=> \A i \in DOMAIN r.fields :
                             r.fields[i].raw = "plain" /\ r.fields[i].name \notin ForbiddenFields
    OBVIOUS
  <2> HIDE DEF plain, named, oneConnection, oneLength, length
  <2> QED BY <2>1, <2>2, <2>3 DEF Documented, HeaderBytes, HostListed
<1>2. Admitted(r) <=>
        /\ r.line = "plain" /\ r.ended /\ version /\ plain /\ named /\ HostListed(r)
        /\ oneConnection /\ oneLength /\ length /\ nominated
        /\ HeaderFields(r) /\ HeaderBytes(r)
  <2> HIDE DEF plain, named, oneConnection, oneLength, length, nominated
  <2>1. NoUpgrade(r) /\ NoTE(r) /\ NoProxyConnection(r) <=>
          /\ ~Present(r, "upgrade") /\ ~Present(r, "te") /\ ~Present(r, "proxy-connection")
          /\ \A o \in {"upgrade", "te", "proxy-connection"} : ~Nominates(r, o)
    BY DEF NoUpgrade, NoTE, NoProxyConnection
  <2>2. {"upgrade", "te", "proxy-connection"} \subseteq ForbiddenOptions
    BY DEF ForbiddenOptions
  <2>3. NoUpgrade(r) /\ NoTE(r) /\ NoProxyConnection(r) /\ TokenList(r) /\ GrpcStatus(r) <=>
          /\ ~Present(r, "upgrade") /\ ~Present(r, "te") /\ ~Present(r, "proxy-connection")
          /\ ~Present(r, "keep-alive") /\ ~Present(r, "http2-settings")
          /\ ~Present(r, "sec-websocket-key") /\ ~Present(r, "proxy-authorization")
          /\ oneConnection /\ nominated
    BY <2>1, <2>2, ChainAsList, NoneNominated DEF TokenList, oneConnection, nominated
  <2>4. CanonicalCRLF(r) <=> r.line # "lf" /\ ~Spelled(r, "lf") /\ r.ended
    BY DEF CanonicalCRLF
  <2>5. BodyFraming(r) <=> ~Present(r, "transfer-encoding") /\ oneLength /\ length
    BY OneLength DEF oneLength, length
  <2>6. ASSUME version
        PROVE  SingleHost(r) /\ HostAuthority(r) <=> HostListed(r)
    BY <2>6, OneHost
  <2>7. NoFolding(r) /\ FieldNames(r) /\ FieldValues(r) /\ ~Spelled(r, "lf") <=> plain
    BY PlainFields DEF plain
  <2>8. /\ ~Present(r, "transfer-encoding") /\ NoExpectation(r)
        /\ ~Present(r, "upgrade") /\ NoTrailer(r) /\ ~Present(r, "te")
        /\ ~Present(r, "proxy-connection") /\ ~Present(r, "keep-alive")
        /\ ~Present(r, "http2-settings") /\ ~Present(r, "sec-websocket-key")
        /\ ~Present(r, "proxy-authorization")
      <=> named
    BY NoneForbidden DEF named
  <2> QED BY <2>3, <2>4, <2>5, <2>6, <2>7, <2>8, PlainLine, EveryGate
<1>3. plain => (HeaderFields(r) <=> Len(r.fields) <= MaxHeaderFields)
  BY FieldsCounted
<1> HIDE DEF plain, named, version, oneConnection, oneLength, length, nominated
<1> QED BY <1>1, <1>2, <1>3

(* The list of README.md is what the chain of a hundred modules comes to, for  *)
(* requests of any length and any budgets.                                     *)
THEOREM ChainAdmitsTheList == Spec => []AdmittedAsDocumented
<1>1. TypeInv => AdmittedAsDocumented
  BY ChainIsList DEF TypeInv, AdmittedAsDocumented
<1> QED BY <1>1, Typed, PTL

(* The runtime is asked for reads without a body alone: the second look at the *)
(* length takes what both spellings of it agree on.                            *)
THEOREM OnlyBodylessReads == Spec => []AskedOnlyForBodylessReads
<1>1. AskedOnlyForBodylessReads
  <2> SUFFICES ASSUME Admitted(request), Dispatch(request) = 0
               PROVE  /\ request.method \in {"GET", "HEAD"}
                      /\ request.path \in {"/readyz", "/metrics"}
                      /\ \A i \in DOMAIN request.fields :
                           /\ request.fields[i].name # "transfer-encoding"
                           /\ request.fields[i].name = "content-length"
                                => request.fields[i].parts = <<"0">>
    BY DEF AskedOnlyForBodylessReads
  <2>1. /\ request.method \in {"GET", "HEAD"} /\ LiveBody(request)
        /\ request.path \in LivePaths /\ request.path # "/livez"
    BY DEF Dispatch, UnknownMethod
  <2>2. request.path \in {"/readyz", "/metrics"}
    BY <2>1 DEF LivePaths
  <2>3. /\ ~Present(request, "transfer-encoding")
        /\ ~Present(request, "content-length") \/ Once(request, "content-length", {<<"0">>})
    BY <2>1 DEF LiveBody
  <2>4. \A i \in DOMAIN request.fields : request.fields[i].name # "transfer-encoding"
    BY <2>3 DEF Present, Named
  <2>5. \A i \in Named(request, "content-length") : request.fields[i].parts = <<"0">>
    BY <2>3 DEF Present, Once
  <2> QED BY <2>1, <2>2, <2>4, <2>5 DEF Named
<1> QED BY <1>1, PTL

-----------------------------------------------------------------------------
(* One option more.                                                            *)

(* A request r with another option in a Connection field of its own.           *)
Extends(q, r) ==
  /\ q.line = r.line /\ q.method = r.method /\ q.version = r.version /\ q.ended = r.ended
  /\ DOMAIN q.fields = DOMAIN r.fields
  /\ \A k \in DOMAIN r.fields :
       /\ q.fields[k].name = r.fields[k].name /\ q.fields[k].raw = r.fields[k].raw
       /\ q.fields[k].size = r.fields[k].size
       /\ r.fields[k].name # "connection" => q.fields[k].parts = r.fields[k].parts
       /\ \A j \in DOMAIN r.fields[k].parts :
            j \in DOMAIN q.fields[k].parts /\ q.fields[k].parts[j] = r.fields[k].parts[j]

(* A client that adds an option extends the request.                           *)
LEMMA OneMore ==
  ASSUME TypeInv, AddsOption
  PROVE  Extends(request', request)
<1>1. PICK i \in DOMAIN request.fields, o \in client.options : AddOption(i, o)
  BY DEF AddsOption
<1> DEFINE longer == [request.fields EXCEPT ![i] = [request.fields[i] EXCEPT !.parts = Append(@, o)]]
<1>2. request' = [request EXCEPT !.fields = longer]
  BY <1>1 DEF AddOption
<1>3. request.fields \in Seq(Field) /\ request \in Request
  BY DEF TypeInv, Request
<1>4. request.fields[i] \in Field
  BY <1>3
<1>5. o \in STRING /\ request.fields[i].name = "connection"
  BY <1>1, ClientsAssumption DEF TypeInv, AddOption
<1>6. /\ request'.fields = longer /\ request'.line = request.line /\ request'.method = request.method
      /\ request'.version = request.version /\ request'.ended = request.ended
  BY <1>2, <1>3 DEF Request
<1>7. DOMAIN longer = DOMAIN request.fields
  OBVIOUS
<1>8. ASSUME NEW k \in DOMAIN request.fields
      PROVE  longer[k] = IF k = i THEN [request.fields[i] EXCEPT !.parts = Append(@, o)]
                         ELSE request.fields[k]
  OBVIOUS
<1>9. /\ \A j \in DOMAIN request.fields[i].parts :
           /\ j \in DOMAIN Append(request.fields[i].parts, o)
           /\ Append(request.fields[i].parts, o)[j] = request.fields[i].parts[j]
  <2>1. request.fields[i].parts \in Seq(STRING)
    BY <1>4 DEF Field
  <2> QED BY <1>5, <2>1
<1> HIDE DEF longer
<1>10. ASSUME NEW k \in DOMAIN request.fields
       PROVE  /\ longer[k].name = request.fields[k].name /\ longer[k].raw = request.fields[k].raw
              /\ longer[k].size = request.fields[k].size
              /\ request.fields[k].name # "connection" => longer[k].parts = request.fields[k].parts
              /\ \A j \in DOMAIN request.fields[k].parts :
                   /\ j \in DOMAIN longer[k].parts
                   /\ longer[k].parts[j] = request.fields[k].parts[j]
  <2>1. CASE k = i
    <3>1. longer[k] = [request.fields[i] EXCEPT !.parts = Append(request.fields[i].parts, o)]
      BY <1>8, <2>1
    <3>2. /\ longer[k].name = request.fields[i].name /\ longer[k].raw = request.fields[i].raw
          /\ longer[k].size = request.fields[i].size
          /\ longer[k].parts = Append(request.fields[i].parts, o)
      BY <1>4, <3>1 DEF Field
    <3> QED BY <1>5, <1>9, <2>1, <3>2
  <2>2. CASE k # i
    BY <1>8, <2>2
  <2> QED BY <2>1, <2>2
<1> QED BY <1>6, <1>7, <1>10 DEF Extends

(* The gates that do not look at options see no difference.                    *)
LEMMA EarlierGates ==
  ASSUME NEW q, NEW r, Extends(q, r)
  PROVE  /\ RequestLineBudget(q) = RequestLineBudget(r) /\ ParsableVersion(q) = ParsableVersion(r)
         /\ WellFormedLine(q) = WellFormedLine(r) /\ HeaderBytes(q) = HeaderBytes(r)
         /\ HeaderFields(q) = HeaderFields(r) /\ BodyFraming(q) = BodyFraming(r)
         /\ SupportedVersion(q) = SupportedVersion(r) /\ SingleHost(q) = SingleHost(r)
         /\ OriginTarget(q) = OriginTarget(r) /\ NoFolding(q) = NoFolding(r)
         /\ FieldNames(q) = FieldNames(r) /\ FieldValues(q) = FieldValues(r)
         /\ NoExpectation(q) = NoExpectation(r) /\ HostAuthority(q) = HostAuthority(r)
         /\ LineSpacing(q) = LineSpacing(r) /\ PercentEscapes(q) = PercentEscapes(r)
         /\ CanonicalCRLF(q) = CanonicalCRLF(r) /\ NoTrailer(q) = NoTrailer(r)
<1>1. /\ q.line = r.line /\ q.method = r.method /\ q.version = r.version /\ q.ended = r.ended
      /\ DOMAIN q.fields = DOMAIN r.fields
      /\ \A k \in DOMAIN r.fields :
           /\ q.fields[k].name = r.fields[k].name /\ q.fields[k].raw = r.fields[k].raw
           /\ q.fields[k].size = r.fields[k].size
           /\ r.fields[k].name # "connection" => q.fields[k].parts = r.fields[k].parts
  BY DEF Extends
<1>2. \A name : Named(q, name) = Named(r, name)
  BY <1>1 DEF Named
<1>3. \A name : Present(q, name) = Present(r, name)
  BY <1>2 DEF Present
<1>4. \A spelling : Spelled(q, spelling) = Spelled(r, spelling)
  BY <1>1 DEF Spelled
<1>5. ASSUME NEW name, name # "connection", NEW i \in DOMAIN r.fields, Named(r, name) = {i}
      PROVE  q.fields[i].parts = r.fields[i].parts
  BY <1>1, <1>5 DEF Named
<1>6. \A name, values : name # "connection" => Once(q, name, values) = Once(r, name, values)
  BY <1>1, <1>2, <1>5 DEF Once
<1>7. HeaderSize(q) = HeaderSize(r)
  <2>1. [k \in DOMAIN q.fields |-> q.fields[k].size] = [k \in DOMAIN r.fields |-> r.fields[k].size]
    BY <1>1
  <2> QED BY <2>1 DEF HeaderSize
<1>8. HeaderFields(q) = HeaderFields(r)
  <2>1. {k \in DOMAIN q.fields : q.fields[k].raw # "fold"} = {k \in DOMAIN r.fields : r.fields[k].raw # "fold"}
    BY <1>1
  <2> QED BY <2>1 DEF HeaderFields
<1>9. SingleHost(q) = SingleHost(r)
  <2>1. ASSUME NEW i \in DOMAIN r.fields
        PROVE  /\ Named(q, "host") = {i} /\ Len(q.fields[i].parts) = 1 /\ q.fields[i].parts # <<"">>
               <=> /\ Named(r, "host") = {i} /\ Len(r.fields[i].parts) = 1
                   /\ r.fields[i].parts # <<"">>
    BY <1>2, <1>5
  <2>2. (\E i \in DOMAIN q.fields : /\ Named(q, "host") = {i} /\ Len(q.fields[i].parts) = 1
                                     /\ q.fields[i].parts # <<"">>)
          <=> \E i \in DOMAIN r.fields : /\ Named(r, "host") = {i} /\ Len(r.fields[i].parts) = 1
                                         /\ r.fields[i].parts # <<"">>
    BY <1>1, <2>1
  <2> QED BY <1>1, <2>2 DEF SingleHost
<1>10. /\ RequestLineBudget(q) = RequestLineBudget(r) /\ ParsableVersion(q) = ParsableVersion(r)
       /\ WellFormedLine(q) = WellFormedLine(r) /\ SupportedVersion(q) = SupportedVersion(r)
       /\ OriginTarget(q) = OriginTarget(r) /\ LineSpacing(q) = LineSpacing(r)
       /\ PercentEscapes(q) = PercentEscapes(r)
  BY <1>1 DEF RequestLineBudget, ParsableVersion, WellFormedLine, SupportedVersion, OriginTarget,
              LineSpacing, PercentEscapes
<1>11. NoFolding(q) = NoFolding(r) /\ FieldNames(q) = FieldNames(r) /\ FieldValues(q) = FieldValues(r)
  BY <1>4 DEF NoFolding, FieldNames, FieldValues
<1>12. NoExpectation(q) = NoExpectation(r) /\ NoTrailer(q) = NoTrailer(r)
  BY <1>3 DEF NoExpectation, NoTrailer
<1>13. BodyFraming(q) = BodyFraming(r) /\ HostAuthority(q) = HostAuthority(r)
  BY <1>1, <1>3, <1>6 DEF BodyFraming, HostAuthority
<1>14. CanonicalCRLF(q) = CanonicalCRLF(r) /\ HeaderBytes(q) = HeaderBytes(r)
  BY <1>1, <1>4, <1>7 DEF CanonicalCRLF, HeaderBytes
<1> QED BY <1>8, <1>9, <1>10, <1>11, <1>12, <1>13, <1>14

(* The others can only begin to object.                                        *)
LEMMA LaterGates ==
  ASSUME NEW q, NEW r, Extends(q, r)
  PROVE  /\ NoUpgrade(q) => NoUpgrade(r)
         /\ NoTE(q) => NoTE(r)
         /\ NoProxyConnection(q) => NoProxyConnection(r)
         /\ TokenList(q) => TokenList(r)
         /\ GrpcStatus(q) => GrpcStatus(r)
<1>1. \A name : Named(q, name) = Named(r, name)
  BY DEF Extends, Named
<1>2. \A name : Present(q, name) = Present(r, name)
  BY <1>1 DEF Present
<1>3. ASSUME NEW at \in Options(r)
      PROVE  at \in Options(q) /\ Option(q, at) = Option(r, at)
  <2>1. PICK i \in Named(r, "connection") : \E j \in DOMAIN r.fields[i].parts : at = <<i, j>>
    BY AtSomeField
  <2>2. PICK j \in DOMAIN r.fields[i].parts : at = <<i, j>>
    BY <2>1
  <2>3. i \in Named(q, "connection") /\ i \in DOMAIN r.fields
    BY <1>1 DEF Named
  <2>4. j \in DOMAIN q.fields[i].parts /\ q.fields[i].parts[j] = r.fields[i].parts[j]
    BY <2>3 DEF Extends
  <2> QED BY <2>2, <2>3, <2>4, OptionAt
<1>4. \A name : Nominates(r, name) => Nominates(q, name)
  BY <1>3 DEF Nominates
<1>5. /\ NoUpgrade(q) => NoUpgrade(r)
      /\ NoTE(q) => NoTE(r)
      /\ NoProxyConnection(q) => NoProxyConnection(r)
      /\ TokenList(q) => TokenList(r)
  BY <1>2, <1>4 DEF NoUpgrade, NoTE, NoProxyConnection, TokenList
<1>6. ASSUME \A p1, p2 \in Options(q) : Option(q, p1) = Option(q, p2) => p1 = p2,
             NEW p1 \in Options(r), NEW p2 \in Options(r), Option(r, p1) = Option(r, p2)
      PROVE  p1 = p2
  BY <1>3, <1>6
<1>7. GrpcStatus(q) => GrpcStatus(r)
  BY <1>1, <1>2, <1>4, <1>6, ChainAsList
<1> QED BY <1>5, <1>7

(* A set of indices has a least one, which Min chooses.                        *)
LEMMA LeastIndex ==
  ASSUME NEW I \in SUBSET Nat, I # {}
  PROVE  \E m \in I : \A i \in I : m <= i
<1> DEFINE Upto == {1..m : m \in I}
<1>1. ASSUME NEW S \in Upto
      PROVE  S \in FiniteSubsetsOf(Nat)
  <2>1. PICK m \in I : S = 1..m
    OBVIOUS
  <2>2. IsFiniteSet(1..m)
    BY FS_Interval
  <2> QED BY <2>1, <2>2 DEF FiniteSubsetsOf
<1>2. PICK S \in Upto : \A T \in Upto : <<T, S>> \notin StrictSubsetOrdering(Nat)
  <2>1. Upto \subseteq FiniteSubsetsOf(Nat) /\ Upto # {}
    BY <1>1
  <2> HIDE DEF Upto
  <2>2. IsWellFoundedOn(StrictSubsetOrdering(Nat), FiniteSubsetsOf(Nat))
    BY FS_StrictSubsetOrderingWellFounded
  <2> QED BY <2>1, <2>2, WFMin
<1>3. PICK m \in I : S = 1..m
  OBVIOUS
<1>4. ASSUME NEW i \in I, i < m
      PROVE  FALSE
  <2>1. (1..i) \subseteq S /\ (1..i) # S
    BY <1>3, <1>4
  <2>2. 1..i \in Upto /\ S \in SUBSET Nat /\ 1..i \in SUBSET Nat
    BY <1>3
  <2> HIDE DEF Upto
  <2>3. <<1..i, S>> \in StrictSubsetOrdering(Nat)
    BY <2>1, <2>2 DEF StrictSubsetOrdering
  <2> QED BY <1>2, <2>2, <2>3
<1> QED BY <1>4

(* Of some gates that object, one is the first.                                *)
LEMMA MinOfSome ==
  ASSUME NEW I \in SUBSET (1..23), I # {}
  PROVE  Min(I) \in I /\ \A i \in I : Min(I) <= i
<1>1. I \in SUBSET Nat
  OBVIOUS
<1>2. \E m \in I : \A i \in I : m <= i
  BY <1>1, LeastIndex
<1> QED BY <1>2 DEF Min

(* The gates that object to a request; the first of them answers.              *)
Objecting(r) == {i \in 1..23 : ~Gates(r)[i][1]}

(* The first gate that objects gives the answer; none objects to what is       *)
(* admitted.                                                                   *)
LEMMA FirstAnswers ==
  ASSUME NEW r
  PROVE  /\ Refusal(r) = IF Objecting(r) = {} THEN 0 ELSE Gates(r)[Min(Objecting(r))][2]
         /\ Admitted(r) <=> Objecting(r) = {}
<1>1. DOMAIN Gates(r) = 1..23
  BY DEF Gates
<1> QED BY <1>1 DEF Refusal, Admitted, Objecting

(* Gates 1 to 17 say the same of both, and what the others say is a 400.       *)
LEMMA GatesOfBoth ==
  ASSUME NEW q, NEW r, Extends(q, r)
  PROVE  /\ \A i \in 1..17 : Gates(q)[i][1] = Gates(r)[i][1]
         /\ \A i \in 18..23 : Gates(q)[i][1] => Gates(r)[i][1]
         /\ \A i \in 1..23 : Gates(q)[i][2] = Gates(r)[i][2]
         /\ \A i \in 18..23 : Gates(r)[i][2] = 400
<1>1. /\ \A i \in 1..23 : Gates(q)[i][2] = Gates(r)[i][2]
      /\ \A i \in 18..23 : Gates(r)[i][2] = 400
  BY DEF Gates
<1>2. \A i \in 1..17 : Gates(q)[i][1] = Gates(r)[i][1]
  BY EarlierGates DEF Gates
<1>3. \A i \in 18..23 : Gates(q)[i][1] => Gates(r)[i][1]
  BY EarlierGates, LaterGates DEF Gates
<1> QED BY <1>1, <1>2, <1>3

(* "Earlier gates retain precedence": whatever a client nominates in addition, *)
(* a request that is refused gets the answer it got before.                    *)
THEOREM PrecedenceKept == Spec => EarlierGatesKeepPrecedence
<1>1. ASSUME TypeInv, AddsOption, ~Admitted(request)
      PROVE  Refusal(request') = Refusal(request)
  <2> DEFINE I == Objecting(request)
             J == Objecting(request')
  <2>1. Extends(request', request)
    BY <1>1, OneMore
  <2>2. I # {} /\ I \in SUBSET (1..23)
    BY <1>1, FirstAnswers DEF Objecting
  <2>3. \A i \in 1..17 : i \in I <=> i \in J
    <3>1. ASSUME NEW i \in 1..17
          PROVE  i \in I <=> i \in J
      <4>1. i \in 1..23 /\ Gates(request')[i][1] = Gates(request)[i][1]
        BY <2>1, GatesOfBoth
      <4> QED BY <4>1 DEF Objecting
    <3> QED BY <3>1
  <2>4. \A i \in 18..23 : i \in I => i \in J
    BY <2>1, GatesOfBoth DEF Objecting
  <2>5. J # {} /\ J \in SUBSET (1..23)
    BY <2>2, <2>3, <2>4 DEF Objecting
  <2>6. /\ Refusal(request) = Gates(request)[Min(I)][2]
        /\ Refusal(request') = Gates(request')[Min(J)][2]
    BY <2>2, <2>5, FirstAnswers
  <2> HIDE DEF I, J
  <2>7. /\ Min(I) \in I /\ Min(I) \in 1..23 /\ \A i \in I : Min(I) <= i
        /\ Min(J) \in J /\ Min(J) \in 1..23 /\ \A i \in J : Min(J) <= i
    BY <2>2, <2>5, MinOfSome
  <2>8. Min(J) <= Min(I)
    <3>1. Min(I) \in J
      BY <2>3, <2>4, <2>7
    <3> QED BY <2>7, <3>1
  <2>9. CASE Min(J) \in 1..17
    <3>1. Min(J) \in I
      BY <2>3, <2>7, <2>9
    <3>2. Min(I) = Min(J)
      BY <2>7, <2>8, <3>1
    <3> QED BY <2>1, <2>6, <2>7, <3>2, GatesOfBoth
  <2>10. CASE Min(J) \in 18..23
    <3>1. Min(I) \in 18..23
      BY <2>7, <2>8, <2>10
    <3> QED BY <2>1, <2>6, <2>7, <2>10, <3>1, GatesOfBoth
  <2> QED BY <2>7, <2>9, <2>10
<1>2. TypeInv /\ [Next]_vars
        => [AddsOption /\ ~Admitted(request) => Refusal(request') = Refusal(request)]_vars
  BY <1>1
<1> QED BY <1>2, Typed, PTL DEF Spec, EarlierGatesKeepPrecedence
=============================================================================
