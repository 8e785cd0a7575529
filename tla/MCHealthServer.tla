---------------------------- MODULE MCHealthServer ----------------------------
EXTENDS HealthServer

R(line, method, path, version, fields) ==
  [line |-> line, method |-> method, path |-> path, version |-> version,
   fields |-> fields, ended |-> TRUE]
F(name, part) == [name |-> name, parts |-> <<part>>, raw |-> "plain", size |-> 1]

(* Without its field the first of these is a request the gates let pass.       *)
MCRefusable == R("plain", "GET", "/readyz", "HTTP/1.0", <<F("connection", "cookie")>>)
MCProbe == R("plain", "GET", "/readyz", "HTTP/1.0", <<>>)
MCProbes == {MCRefusable, MCProbe}
=============================================================================
