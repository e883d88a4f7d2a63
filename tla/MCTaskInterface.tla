-------------------------- MODULE MCTaskInterface --------------------------
(***************************************************************************)
(* The bounds of the task interfaces' model                                *)
(***************************************************************************)
EXTENDS TaskInterface

AllSystems(denied) ==
  {s \in [newdir : {"ok", "ENOENT"}, enabled : {"Y", "N", "ENOENT"}, avail : {"Y", "N", "ENOENT"}, syscall : {"ok", "ENOSYS", "late"},
          old : {"aa", "other"}, denied : denied] : Possible(s)}
Usual == [newdir |-> "ok", enabled |-> "Y", avail |-> "Y", syscall |-> "ENOSYS", old |-> "aa", denied |-> {}]
Stacked == [Usual EXCEPT !.enabled = "N", !.old = "other"]
Off == [Stacked EXCEPT !.avail = "N", !.newdir = "ENOENT"]
MCSystems == [user \in {"caller", "httpd", "pam", "aa_exec", "reader", "query"} |->
                CASE user = "caller" -> AllSystems({{}})
                  [] user = "reader" -> AllSystems({{}, {"newdir"}, {"newdir", "enabled"}})
                  [] user \in {"pam", "aa_exec"} -> {Usual, Stacked, Off}
                  [] OTHER -> {Usual}]
(* The systems of the web server and of PAM are those the theorems speak of. *)
ASSUME MCReaches == \A user \in {"httpd", "pam"} : \A s \in MCSystems[user] : Reaches(s)

Untrusted == "HANDLING_UNTRUSTED_INPUT"
Plain == [confined |-> TRUE, hats |-> {"d"}, profiles |-> {"p"}]
MCPolicies == [user \in DOMAIN MCSystems |->
                 CASE user = "httpd" -> {[Plain EXCEPT !.hats = h] : h \in {{Untrusted, "d", "v"}, {"d", "v", "DEFAULT_URI"}, {Untrusted}, {}}}
                   [] user = "pam" -> {[Plain EXCEPT !.hats = h, !.confined = c] : h \in SUBSET {"g", "u", "DEFAULT"}, c \in BOOLEAN}
                   [] user = "aa_exec" -> {[Plain EXCEPT !.profiles = {"p", "ns:p"}, !.confined = c] : c \in BOOLEAN}
                   [] OTHER -> {Plain}]

MCRequests == {[dir |-> "d", srv |-> "", host |-> "h", vhost_uri |-> "v", uri |-> "/"],
               [dir |-> "", srv |-> "s", host |-> "h", vhost_uri |-> "v", uri |-> "d"],
               [dir |-> "", srv |-> "", host |-> "h", vhost_uri |-> "x", uri |-> "/"]}
Orders == {<<"user">>, <<"group", "user", "default">>, <<"default", "group">>, <<"user", "user">>, <<"user", "other">>}
MCPamArgs == {<<>>, <<<<"debug">>>>, <<<<"bad">>>>, <<<<"order", "user">>, <<"bad">>>>, <<<<"bad">>, <<"debug">>>>,
              <<<<"order", "user">>, <<"order", "default">>>>} \union {<<<<"order">> \o o>> : o \in Orders}
MCExecArgs == {<<>>, <<<<"p", "p">>>>, <<<<"p", "x">>>>, <<<<"i">>, <<"p", "p">>>>, <<<<"p", "p">>, <<"n", "n">>, <<"i">>>>,
               <<<<"n", "n">>>>, <<<<"p", "p">>, <<"p", "x">>>>, <<<<"bad">>>>}

MCContexts == {[label |-> <<"u">>, mode |-> <<>>], [label |-> <<"u">>, mode |-> <<"m">>], [label |-> <<"a", " ", "(", "b", "c">>, mode |-> <<"m">>],
               [label |-> <<"a", "b", "c", "d", "e", "f", ")">>, mode |-> <<"m", "n">>]}
MCQueries == {[kind |-> k, mask |-> m, label |-> <<"l">>, path |-> p, target |-> IF k = "link" THEN <<"t", "u">> ELSE <<>>] :
                k \in {"file", "link"}, m \in SUBSET {"r", "w"}, p \in {<<"d">>, <<"d", "e">>}}
=============================================================================
