------------------------------ MODULE MCHttpd ------------------------------
(* Small instances of Httpd: the table of the firmware, with entries of    *)
(* the library's other CGI functions in front of the "*".                  *)
EXTENDS Httpd

CONSTANTS c1, c2, c3

MCBuiltInUrls ==
    <<[urls |-> {"/"}, cgi |-> "cgiRedirect"],
      [urls |-> {"/slider_up"}, cgi |-> "cmd"],
      [urls |-> {"/secret"}, cgi |-> "authBasic"],
      [urls |-> {"/secret", "/page.tpl"}, cgi |-> "cgiEspFsTemplate"],
      [urls |-> {"/flash"}, cgi |-> "cgiReadFlash"],
      [urls |-> {"/upload"}, cgi |-> "cgiUploadFirmware"],
      [urls |-> {"/secret", "/page.tpl", "/a", "/b", "/zip", "/missing"},
       cgi |-> "cgiEspFsHook"]>>

MCFile == [url \in {"/secret", "/page.tpl", "/a", "/b", "/zip"} |->
    CASE url = "/a" -> <<"x", "x", "x">>
      [] url = "/b" -> <<"x", "x">>
      [] url = "/zip" -> <<"x">>
      [] url = "/secret" -> <<"x">>
      [] url = "/page.tpl" -> <<"x", "%", "x", "%", "%", "%", "x">>]

Get(url) == [url |-> url, head |-> 1, len |-> 0, auth |-> FALSE,
             gzip |-> "none", image |-> FALSE]
Post(url, n) == [Get(url) EXCEPT !.len = n]
Upload(n) == [Post("/upload", n) EXCEPT !.image = TRUE]

Pages == {Get("/"), Get("/missing"), Get("/secret"), [Get("/secret") EXCEPT !.auth = TRUE],
          Post("/slider_up", 1), Get("/a"), Get("/b"), [Get("/a") EXCEPT !.head = 3],
          Get(NULL), Get("/zip"), [Get("/zip") EXCEPT !.gzip = "gzip"],
          [Get("/zip") EXCEPT !.gzip = "other"], Get("/page.tpl"), Get("/flash"),
          Post("/a", 3), Upload(5), Post("/upload", 3), Upload(7)}

Ask(q1, q2, q3) == [c \in {c1, c2, c3} |->
    CASE c = c1 -> q1 [] c = c2 -> q2 [] c = c3 -> q3]

\* Every request by itself; those that keep something from callback to
\* callback beside another; three connections for two slots.
Beside == {Get("/a"), Get("/zip"), Get("/page.tpl"), Get("/flash"), Post("/a", 3)}

MCScenarios ==
    {Ask(q, NULL, NULL) : q \in Pages}
        \cup {Ask(q, Get("/a"), NULL) : q \in Beside}
        \cup {Ask(Get("/a"), Get("/b"), Get("/")),
              Ask(Upload(4), Upload(3), NULL)}
=============================================================================
