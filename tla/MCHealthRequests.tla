--------------------------- MODULE MCHealthRequests ---------------------------
EXTENDS HealthRequests

F(name, parts) == [name |-> name, parts |-> parts, raw |-> "plain", size |-> 1]
Raw(spelling) == [name |-> "x-other", parts |-> <<"x">>, raw |-> spelling, size |-> 1]

(* Every option of the documented list, and three nothing forbids.             *)
MCEveryOption == ForbiddenOptions \cup {"", "close", "keep-alive", "x-other"}
MCHosts ==
  {F("host", p) : p \in {<<"name">>, <<"ipv4">>, <<"userinfo">>, <<"">>, <<"name", "name">>}}
MCLengths == {F("content-length", <<n>>) : n \in {"0", "0 ", "5"}}
MCNamed == {F(n, <<"x">>) : n \in {"expect", "upgrade", "trailer", "te", "transfer-encoding",
  "proxy-connection", "keep-alive", "http2-settings", "sec-websocket-key",
  "proxy-authorization", "cookie"}}
MCSpelled == {Raw(s) : s \in Spellings}
MCConnections == {F("connection", <<o>>) : o \in {"close", "x-other"}}

MCEveryField ==
  MCHosts \cup MCLengths \cup MCNamed \cup MCSpelled
    \cup MCConnections \cup {[Raw("plain") EXCEPT !.size = 3]}
MCNominating == {F("host", <<"name">>), F("expect", <<"x">>), Raw("lf")} \cup MCConnections

MCEveryLine ==
  {<<"plain", m, p, v>> : m \in {"GET", "POST"}, p \in {"/readyz", "/other"}, v \in Versions}
    \cup {<<l, m, "/livez", "HTTP/1.0">> : l \in LineShapes, m \in {"GET", "HEAD"}}
MCPlainLines ==
  {<<"plain", "GET", "/metrics", v>> : v \in {"HTTP/1.0", "HTTP/1.1"}}

(* One client writes fields of every kind, the other nominates every name.     *)
MCClients ==
  {[lines |-> MCEveryLine, fields |-> MCEveryField, options |-> {},
    maxFields |-> 2, maxOptions |-> 0],
   [lines |-> MCPlainLines, fields |-> MCNominating, options |-> MCEveryOption,
    maxFields |-> 3, maxOptions |-> 2]}
=============================================================================
