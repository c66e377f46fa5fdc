--------------------------- MODULE MCChangeInputs ---------------------------
(* Inputs of ChangeAnalysis: one file of every sort, and pairs of jobs. *)
EXTENDS Naturals, Sequences, SequencesExt

File(path, has, ext, patch, body, markers) ==
    [path |-> path, norm |-> path, has |-> has, ext |-> ext, patch |-> patch, body |-> body, markers |-> markers]

Auth == File("auth/jwt.go", {"auth/", "jwt"}, "go", {"go:auth_symbol"}, {"auth", "data_access"}, FALSE)
Query == File("query.go", {}, "go", {"go:function_change", "go:auth_symbol"}, {"data_access"}, FALSE)
Ddl == File("migrations/1.sql", {"^migrations/", ".sql$", "migration"}, "sql", {"sql:ddl"}, {"ddl"}, FALSE)
Values == File("deploy/values.yaml", {"deploy/", "values.yaml$"}, "yaml", {"yaml:runtime_key"}, {"runtime_key"}, FALSE)
OpenApi == File("openapi.yaml", {"openapi", "openapi.yaml$"}, "yaml", {}, {"openapi"}, FALSE)
Proto == File("v1.proto", {".proto$"}, "proto", {}, {}, FALSE)
Module == File("go.mod", {"go.mod$"}, "manifest", {}, {}, FALSE)
Module2 == [Module EXCEPT !.path = "./go.mod"]
Flow == File("ci.yaml", {".github/workflows/", "^.github/workflows/"}, "yaml", {}, {}, FALSE)
Alerts == File("alerts/a.txt", {"alerts/"}, "txt", {}, {}, FALSE)
Readme == File("README.md", {}, "md", {}, {}, FALSE)
Conflicted == File("merge.md", {}, "md", {}, {}, TRUE)
Unnamed == [File(" ", {}, "", {}, {}, TRUE) EXCEPT !.norm = ""]
Plain == {Auth, Query, Ddl, Values, OpenApi, Proto, Module, Module2, Flow, Alerts, Readme, Conflicted, Unnamed}

MCExternal ==
    [path \in {f.path : f \in Plain} |->
        CASE path = "auth/jwt.go" -> {[kind |-> "auth", severity |-> "critical", confidence |-> 50, files |-> {path}]}
          [] path = "README.md" -> {[kind |-> "infrastructure", severity |-> "low", confidence |-> 99, files |-> {path}]}
          [] OTHER -> {}]

Job(files, engine, criticality, drift, padding) ==
    [files |-> files, engine |-> engine, criticality |-> criticality, drift |-> drift, padding |-> padding]
Two(a, b) == [n |-> a, w |-> b]

Engines == {"default", "external"}

\* A file, and the same file before or after another one.
Wider ==
    {Two(Job(<<h>>, e, "normal", FALSE, 0), Job(w, e, "normal", FALSE, 0)) :
        h \in Plain, e \in Engines, w \in {<<f, g>> : f, g \in Plain}}
Nested == {i \in Wider : ToSet(i.n.files) \subseteq ToSet(i.w.files)}
\* The limits: many files, a stale base, an important system, nothing at all.
Limits ==
    {Two(Job(f, "default", c, d, n), Job(f \o g, "default", c, d2, n + m)) :
        f \in {<<>>, <<Auth, Ddl>>, <<Auth, OpenApi>>, <<Module>>}, g \in {<<>>, <<Values>>, <<Module2>>, <<Ddl>>},
        c \in {"normal", "high", "tier0"}, d \in {FALSE}, d2 \in BOOLEAN, n \in {0, 17, 20}, m \in {0, 1}}
MCJobs == Nested \cup Limits

\* The same change in the service and in a scan.
Same == {Two(Job(<<f>>, "external", "normal", FALSE, 0), Job(<<f>>, "default", "normal", FALSE, 0)) : f \in Plain}
Twice == {Two(Job(f, "default", "normal", FALSE, 0), Job(f, "default", "normal", FALSE, 0)) :
              f \in {<<Readme, Readme, Module, Module2>>}}

=============================================================================
