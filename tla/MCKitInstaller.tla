--------------------------- MODULE MCKitInstaller ---------------------------
(***************************************************************************)
(* Two of the kit's files, and the services that have one thing of their   *)
(* own at a time next to the runner they started with.                     *)
(***************************************************************************)
EXTENDS KitInstaller, FiniteSets

MCKitFiles == <<"jest.config.cjs", "jest.base.cjs">>
\* --no-install only by itself or with --force: installing does not depend on the other two.
MCOffered  == {o \in Options : o.install \/ ~(o.examples \/ o.mutation)}
MCEditable == {"jest.base.cjs", "project"}

Bare == [i \in Items |-> IF i = "types" THEN "theirs" ELSE "absent"]

\* No runner; Nest's Jest section; one's own Jest; an untouched Vitest template, one that was
\* extended, with Vitest among the dependencies; one's own Vitest.
NestJest   == [Bare EXCEPT !["jest.key"] = "nest", !["jest"] = "theirs", !["ts-jest"] = "theirs"]
OtherJest  == [Bare EXCEPT !["jest.config"] = "theirs", !["jest"] = "theirs"]
Template   == [Bare EXCEPT !["vitest.config"] = "template", !["vitest"] = "vitest",
                           !["types"] = "vitest"]
Extended   == [Template EXCEPT !["vitest.config"] = "extended", !["vitest"] = "dependency"]
OwnVitest  == [Bare EXCEPT !["vitest.config"] = "theirs", !["vitest"] = "vitest"]

Plain == [orm |-> FALSE, narrow |-> FALSE, builds |-> FALSE]
Orm   == [Plain EXCEPT !.orm = TRUE]
Build == [orm |-> FALSE, narrow |-> TRUE, builds |-> TRUE]

With(d, own) == [i \in Items |-> IF i \in own THEN "theirs" ELSE d[i]]
Service(d, own, f) == [disk |-> With(d, own), facts |-> f]

MCServices ==
    {Service(OtherJest, {}, Plain), Service(OwnVitest, {"vitest.scripts"}, Plain),
     Service(Bare, {"examples"}, Orm),
     Service(NestJest, {"modules", "stryker", "scripts"}, Orm),
     Service([NestJest EXCEPT !["jest.key"] = "extended"], {}, Plain),
     Service(Template, {"modules", "ignore"}, Build),
     Service(Extended, {"modules", "vitest.scripts"}, Orm),
     Service(Bare, {"project", "tsconfig.test", "jest.config.cjs", "jest"}, Build)}
=============================================================================
