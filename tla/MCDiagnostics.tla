--------------------------- MODULE MCDiagnostics ----------------------------
(***************************************************************************)
(* Small instances of Diagnostics: the requests a host may pass on.        *)
(***************************************************************************)
EXTENDS Diagnostics

Get(route, role) ==
    [route |-> route, method |-> "GET", role |-> role, file |-> <<>>, body |-> "",
     xForwardedFor |-> "", xRealIP |-> ""]
Post(route, role, body) == [Get(route, role) EXCEPT !.method = "POST", !.body = body]

Plain == {[Get("health", "user") EXCEPT !.method = ""], Post("logout", "user", ""),
          Get("whoami", "user"), Get("unknown", "user"), Post("health", "user", ""),
          [Get("assets", "user") EXCEPT !.file = <<"google.svg">>],
          [Get("assets", "user") EXCEPT !.file = <<"..", "index.html">>],
          Get("admin", "admin"),
          [Get("admin", "admin") EXCEPT !.file = <<"assets", "app.js">>],
          Get("summary", "admin"), Get("summary", "user")}

Diagnosing == {Get("discovery", "admin"),
               [Get("discovery", "user") EXCEPT !.xForwardedFor = "10.1.1.1"],
               [Get("discovery", "admin") EXCEPT !.xRealIP = "10.1.1.1"],
               Post("decode", "admin", "json"), Post("decode", "admin", "text"),
               Post("simulate", "admin", "json"), Post("simulate", "admin", "text")}

Page == {<<"index.html">>, <<"assets", "app.js">>}
Icons == {<<"google.svg">>}

AllInputs == Plain \cup Diagnosing
DiscoveryInputs == {Get("discovery", "admin")}

URL(scheme, host, user) == [scheme |-> scheme, host |-> host, user |-> user]
Uris == {URL("https", "idp.example", FALSE), URL("http", "idp.example", FALSE),
         URL("http", "localhost", FALSE)}
=============================================================================
