---------------------------- MODULE KitInstaller ----------------------------
(***************************************************************************)
(* setup.sh: adds the kit to a service, in the directory it is run in.     *)
(* The script changes that directory in many small steps, a command that   *)
(* fails ends it (set -e), and the developer may interrupt it anywhere,    *)
(* edit or remove files, and run it again with other options.              *)
(*                                                                         *)
(* phase is the section of main() that is next:                            *)
(*   preflight -> download -> conflicts -> copy                            *)
(*     -> convert -> package -> types       (an untouched Vitest template) *)
(*     -> key -> project -> fill                                           *)
(*     -> examples -> lay -> fit            (--examples)                   *)
(*     -> compiler -> tsconfig -> exclude -> scripts                       *)
(*     -> mutation -> install -> check -> done                             *)
(* and idle, refused (fail) or cut (interrupted, or a command failed).     *)
(*                                                                         *)
(* disk gives what the directory holds of everything setup.sh looks at:    *)
(* "theirs" is what the service's developer wrote, "kit" the kit's.  The   *)
(* script recognises generated settings by a few of their lines, so what a *)
(* developer added to them is "extended": it passes for generated.         *)
(***************************************************************************)
EXTENDS Naturals, Sequences

CONSTANTS KitFiles,  \* the files to copy, in the script's order
          Config,    \* jest.config.cjs among them, where Jest looks for its settings
          Base,      \* test/setup/jest.base.cjs, the file that names the compiler
          Services,  \* the services it may be run in: the directory, and what the service is
          Editable,  \* what its developer edits or removes between runs
          Offered,   \* the combinations of options it is run with
          MaxRuns    \* bound on the runs of the script

Kit == {KitFiles[i] : i \in 1 .. Len(KitFiles)}

\* Everything else on disk the script reads or writes.
Others == {"jest.config",    \* a jest.config.js, .ts, .mjs or .json
           "jest.key",       \* the "jest" section of package.json
           "vitest.config",  \* vitest.config.ts and vitest.config.e2e.ts
           "vitest",         \* package.json's Vitest packages and the generated scripts that run it
          "vitest.scripts", \* scripts of the developer's own that run Vitest
           "types",          \* tsconfig.json's types, and the imports of test/app.e2e-spec.ts
           "project",        \* test/setup/project.ts
           "examples",       \* <source folder>/examples/
           "tsconfig.test",  \* tsconfig.test.json
           "exclude",        \* the test files tsconfig.json leaves out of the build
           "scripts",        \* test:unit and its kin, typecheck and check
           "ignore",         \* .gitignore
           "stryker",        \* stryker.config.mjs
           "modules",        \* node_modules
           "jest",           \* the jest package among the dependencies
           "swc",            \* the @swc/core and @swc/jest packages
           "ts-jest"}        \* the ts-jest package

Items == Kit \cup Others

\* What each item can be.  "template" is a Vitest setup as Nest generates it, or the kit's own
\* project.ts with nothing filled in; "nest" is Nest's default "jest" section; "extended" is
\* either of these two runners' settings with additions that the script does not notice.  Vitest
\* is among the devDependencies ("vitest") or the dependencies ("dependency").
Allowed(i) ==
    CASE i \in Kit             -> {"absent", "theirs", "kit", "ts-jest"}
      [] i = "jest.config"     -> {"absent", "theirs"}
      [] i = "jest.key"        -> {"absent", "theirs", "nest", "extended"}
      [] i = "vitest.config"   -> {"absent", "theirs", "template", "extended"}
      [] i = "vitest"          -> {"absent", "vitest", "dependency"}
      [] i = "vitest.scripts"  -> {"absent", "theirs"}
      [] i = "types"           -> {"theirs", "vitest", "jest"}
      [] i = "project"         -> {"absent", "theirs", "template", "filled"}
      [] i = "examples"        -> {"absent", "theirs", "empty", "copied", "fitted"}
      [] i = "exclude"         -> {"absent", "tests", "examples"}
      [] i = "ignore"          -> {"absent", "theirs", "coverage", "stryker"}
      [] OTHER                 -> {"absent", "theirs", "kit"}

Contents == {"absent", "theirs", "kit", "ts-jest", "nest", "template", "extended", "vitest",
             "dependency", "jest", "filled", "empty", "copied", "fitted", "tests", "examples",
             "coverage", "stryker"}
Disks    == {d \in [Items -> Contents] : \A i \in Items : d[i] \in Allowed(i)}

\* A service before its first run: nothing of the kit, and no part of a Vitest template without
\* Vitest.
IsService(d) ==
    /\ d \in Disks
    /\ \A i \in Kit \cup {"project", "examples", "tsconfig.test", "stryker", "modules", "jest",
                   "swc"} :
           d[i] \in {"absent", "theirs"}
    /\ d["types"] = "vitest" \/ d["vitest.config"] # "absent" => d["vitest"] # "absent"

\* orm: a CommonJS service on TypeORM and TypeScript 6 or earlier; narrow: its tsconfig.json is
\* only for the build; builds: the build compiles tsconfig.json itself.
Facts   == [orm: BOOLEAN, narrow: BOOLEAN, builds: BOOLEAN]
Options == [examples: BOOLEAN, force: BOOLEAN, install: BOOLEAN, mutation: BOOLEAN]

ASSUME KitInstallerAssumption ==
    /\ KitFiles \in Seq(Kit)
    /\ Config \in Kit /\ Base \in Kit
    /\ Kit \cap Others = {}
    /\ \A s \in Services : IsService(s.disk) /\ s.facts \in Facts
    /\ Editable \subseteq Kit \cup {"jest.config", "project"}
    /\ Offered \subseteq Options
    /\ MaxRuns \in Nat

VARIABLES phase,     \* the section of main() that is next
          opts,      \* the options of this run
          copied,    \* how many of KitFiles this run has copied
          disk,      \* the service's directory
          facts,     \* what the service is
          runs,      \* runs so far
          before,    \* history: the directory when this run started
          cuts,      \* history: the sections in which a run was cut
          accepted,  \* history: a run went past its checks, and the developer edited nothing since
          ready      \* history: the last run that ended well, with no cut or edit since

vars == <<phase, opts, copied, disk, facts, runs, before, cuts, accepted, ready>>

Ended    == {"idle", "refused", "cut", "done"}
Sections == {"preflight", "download", "conflicts", "copy", "convert", "package", "types", "key",
             "project", "fill", "examples", "lay", "fit", "compiler", "tsconfig", "exclude",
             "scripts", "mutation", "install", "check"}
Results  == [known: BOOLEAN, opts: Options, disk: Disks, modules: BOOLEAN]

TypeOK ==
    /\ phase \in Ended \cup Sections
    /\ opts \in Options
    /\ copied \in 0 .. Len(KitFiles)
    /\ disk \in Disks
    /\ facts \in Facts
    /\ runs \in 0 .. MaxRuns
    /\ before \in Disks
    /\ cuts \subseteq Sections
    /\ accepted \in BOOLEAN
    /\ ready \in Results

Init ==
    /\ phase = "idle"
    /\ opts = [examples |-> FALSE, force |-> FALSE, install |-> TRUE, mutation |-> FALSE]
    /\ copied = 0
    /\ \E s \in Services : disk = s.disk /\ facts = s.facts
    /\ runs = 0
    /\ before = disk
    /\ cuts = {}
    /\ accepted = FALSE
    /\ ready = [known |-> FALSE, opts |-> opts, disk |-> disk, modules |-> FALSE]

\* A section that leaves the directory alone, and one that writes one item of it.
Keep(here, next)        == phase = here /\ phase' = next /\ disk' = disk
Put(here, next, i, new) == phase = here /\ phase' = next /\ disk' = [disk EXCEPT ![i] = new]

-----------------------------------------------------------------------------
(***************************************************************************)
(* The developer, between runs.                                            *)
(***************************************************************************)
Run(o) ==
    /\ phase \in Ended
    /\ runs < MaxRuns
    /\ phase' = "preflight"
    /\ opts' = o
    /\ copied' = 0
    /\ runs' = runs + 1
    /\ before' = disk
    /\ UNCHANGED <<disk, facts, cuts, accepted, ready>>

Edit(i, new) ==
    /\ phase \in Ended
    /\ i \in Editable
    /\ disk' = [disk EXCEPT ![i] = new]
    /\ disk' # disk
    /\ phase' = "idle"
    /\ before' = disk'
    /\ accepted' = FALSE
    /\ ready' = [ready EXCEPT !.known = FALSE]
    /\ UNCHANGED <<opts, copied, facts, runs, cuts>>

\* npm install, by hand.
InstallModules ==
    /\ phase \in Ended
    /\ disk["modules"] = "absent"
    /\ disk' = [disk EXCEPT !["modules"] = "theirs"]
    /\ phase' = "idle"
    /\ before' = disk'
    /\ UNCHANGED <<opts, copied, facts, runs, cuts, accepted, ready>>

-----------------------------------------------------------------------------
(***************************************************************************)
(* Preflight, the download and the conflicts: nothing is written.          *)
(***************************************************************************)
\* A template by its configs' mention of vite-tsconfig-paths and globals: true, and by no test that
\* imports Vitest; a default "jest" section by its rootDir, its testRegex and a ts-jest transform.
UsesVitest   == disk["vitest"] # "absent"
IsTemplate   == disk["vitest.config"] \in {"template", "extended"}
Unacceptable == \/ UsesVitest /\ ~IsTemplate
                \/ disk["jest.config"] = "theirs"
                \/ disk["jest.key"] = "theirs"

\* Mutant: the examples folder is no conflict.
KitConflicts == {i \in Kit : disk[i] # "absent"}

Conflicts == {i \in Kit : disk[i] # "absent"}
                 \cup {i \in {"examples"} : opts.examples /\ disk[i] # "absent"}

history == <<opts, facts, runs, before, cuts, accepted, ready>>

Preflight ==
    /\ ~Unacceptable
    /\ Keep("preflight", "download")
    /\ UNCHANGED <<copied, history>>

Download ==
    /\ Keep("download", "conflicts")
    /\ UNCHANGED <<copied, history>>

\* Mutant: the template is converted before anything is copied.
ConvertFirst ==
    /\ Conflicts = {} \/ opts.force
    /\ Put("conflicts", "copy", "vitest.config", "absent")
    /\ accepted' = TRUE
    /\ UNCHANGED <<copied, opts, facts, runs, before, cuts, ready>>

Accept ==
    /\ Conflicts = {} \/ opts.force
    /\ Keep("conflicts", "copy")
    /\ accepted' = TRUE
    /\ UNCHANGED <<copied, opts, facts, runs, before, cuts, ready>>

\* Mutant: conflicts are refused with --force too.
RefuseForced ==
    /\ \/ phase = "preflight" /\ Unacceptable
       \/ phase = "conflicts" /\ Conflicts # {}
    /\ phase' = "refused"
    /\ UNCHANGED <<copied, disk, history>>

Refuse ==
    /\ \/ phase = "preflight" /\ Unacceptable
       \/ phase = "conflicts" /\ Conflicts # {} /\ ~opts.force
    /\ phase' = "refused"
    /\ UNCHANGED <<copied, disk, history>>

-----------------------------------------------------------------------------
(***************************************************************************)
(* The files, the old runner, and test/setup/project.ts.                   *)
(***************************************************************************)
Copy ==
    /\ copied < Len(KitFiles)
    /\ Put("copy", "copy", KitFiles[copied + 1], "kit")
    /\ copied' = copied + 1
    /\ UNCHANGED history

Copied ==
    /\ copied = Len(KitFiles)
    /\ Keep("copy", "convert")
    /\ UNCHANGED <<copied, history>>

\* convert_nest_vitest_template: the configs go first, then one node process rewrites package.json
\* and after it tsconfig.json and the e2e test.
RemoveVitestConfigs ==
    /\ UsesVitest
    /\ Put("convert", "package", "vitest.config", "absent")
    /\ UNCHANGED <<copied, history>>

\* Only devDependencies lose Vitest.  Of the scripts that run it the generated ones are pointed at
\* Jest, all others go.
ConvertPackage ==
    /\ phase = "package"
    /\ phase' = "types"
    /\ disk' = [disk EXCEPT !["vitest"] = IF @ = "dependency" THEN @ ELSE "absent",
                            !["vitest.scripts"] = "absent"]
    /\ UNCHANGED <<copied, history>>

ConvertTypes ==
    /\ Put("types", "key", "types", IF disk["types"] = "vitest" THEN "jest" ELSE disk["types"])
    /\ UNCHANGED <<copied, history>>

NothingToConvert ==
    /\ ~UsesVitest
    /\ Keep("convert", "key")
    /\ UNCHANGED <<copied, history>>

\* Preflight let no other section pass than one with the lines of Nest's default.
RemoveJestKey ==
    /\ Put("key", "project", "jest.key", "absent")
    /\ UNCHANGED <<copied, history>>

\* Mutant: --force overwrites what the kit wrote of project.ts, and fills in nothing.
Overwrite ==
    /\ disk["project"] # "absent"
    /\ IF opts.force /\ disk["project"] = "filled"
       THEN Put("project", "examples", "project", "template")
       ELSE Keep("project", "examples")
    /\ UNCHANGED <<copied, history>>

KeepProject ==
    /\ disk["project"] # "absent"
    /\ Keep("project", "examples")
    /\ UNCHANGED <<copied, history>>

CopyProject ==
    /\ disk["project"] = "absent"
    /\ Put("project", "fill", "project", "template")
    /\ UNCHANGED <<copied, history>>

\* Mutant: an error while filling it in does not stop the script.
FillNothing ==
    /\ Put("fill", "examples", "project", "template")
    /\ UNCHANGED <<copied, history>>

FillProject ==
    /\ Put("fill", "examples", "project", "filled")
    /\ UNCHANGED <<copied, history>>

-----------------------------------------------------------------------------
(***************************************************************************)
(* Examples, compiler, TypeScript, scripts, mutation testing.              *)
(***************************************************************************)
ClearExamples ==
    /\ opts.examples
    /\ Put("examples", "lay", "examples", "empty")
    /\ UNCHANGED <<copied, history>>

LayExamples ==
    /\ Put("lay", "fit", "examples", "copied")
    /\ UNCHANGED <<copied, history>>

\* Leaves out the examples whose packages, database or Redis the service does not have.
FitExamples ==
    /\ Put("fit", "compiler", "examples", "fitted")
    /\ UNCHANGED <<copied, history>>

NoExamples ==
    /\ ~opts.examples
    /\ Keep("examples", "compiler")
    /\ UNCHANGED <<copied, history>>

\* The TypeScript version is read in node_modules, before this run installs anything.
ChooseCompiler ==
    /\ IF facts.orm /\ disk["modules"] # "absent"
       THEN Put("compiler", "tsconfig", Base, "ts-jest")
       ELSE Keep("compiler", "tsconfig")
    /\ UNCHANGED <<copied, history>>

AddTestConfig ==
    /\ IF facts.narrow /\ disk["tsconfig.test"] = "absent"
       THEN Put("tsconfig", "exclude", "tsconfig.test", "kit")
       ELSE Keep("tsconfig", "exclude")
    /\ UNCHANGED <<copied, history>>

Excluded == disk["exclude"] = "examples" \/ (disk["exclude"] = "tests" /\ ~opts.examples)

ExcludeTests ==
    /\ IF facts.narrow /\ facts.builds /\ ~Excluded
       THEN Put("exclude", "scripts", "exclude", IF opts.examples THEN "examples" ELSE "tests")
       ELSE Keep("exclude", "scripts")
    /\ UNCHANGED <<copied, history>>

AddScripts ==
    /\ phase = "scripts"
    /\ phase' = "mutation"
    /\ disk' = [disk EXCEPT !["scripts"] = IF @ = "absent" THEN "kit" ELSE @,
                            !["ignore"]  = IF @ = "theirs" THEN "coverage" ELSE @]
    /\ UNCHANGED <<copied, history>>

AddStryker ==
    /\ opts.mutation
    /\ phase = "mutation"
    /\ phase' = "install"
    /\ disk' = [disk EXCEPT !["stryker"] = IF @ # "absent" /\ ~opts.force THEN @ ELSE "kit",
                            !["ignore"]  = "stryker"]
    /\ UNCHANGED <<copied, history>>

NoStryker ==
    /\ ~opts.mutation
    /\ Keep("mutation", "install")
    /\ UNCHANGED <<copied, history>>

-----------------------------------------------------------------------------
(***************************************************************************)
(* Installing, and the end of a run.                                       *)
(***************************************************************************)
\* Mutant: ts-jest is taken to be among the kit's packages.
InstallWithoutTsJest ==
    /\ opts.install
    /\ phase = "install"
    /\ phase' = "check"
    /\ disk' = [disk EXCEPT !["modules"] = IF @ = "absent" THEN "kit" ELSE @,
                            !["jest"]    = IF @ = "absent" THEN "kit" ELSE @,
                            !["swc"]     = IF @ = "absent" THEN "kit" ELSE @]
    /\ UNCHANGED <<copied, history>>

\* Only what the service does not have yet; ts-jest only for the compiler this run chose.
Install ==
    /\ opts.install
    /\ phase = "install"
    /\ phase' = "check"
    /\ disk' = [disk EXCEPT
                  !["modules"] = IF @ = "absent" THEN "kit" ELSE @,
                  !["jest"]    = IF @ = "absent" THEN "kit" ELSE @,
                  !["swc"]     = IF @ = "absent" THEN "kit" ELSE @,
                  !["ts-jest"] = IF @ = "absent" /\ disk[Base] = "ts-jest" THEN "kit" ELSE @]
    /\ UNCHANGED <<copied, history>>

Result == [known |-> TRUE, opts |-> opts, disk |-> disk, modules |-> before["modules"] # "absent"]

\* Jest started, or --no-install.
Finish ==
    /\ \/ Keep("check", "done")
       \/ ~opts.install /\ Keep("install", "done")
    /\ ready' = Result
    /\ UNCHANGED <<copied, opts, facts, runs, before, cuts, accepted>>

\* The developer interrupts the script, or a command of it fails.
Cut ==
    /\ phase \in Sections
    /\ phase' = "cut"
    /\ cuts' = cuts \cup {phase}
    /\ ready' = [ready EXCEPT !.known = FALSE]
    /\ UNCHANGED <<copied, disk, opts, facts, runs, before, accepted>>

Script ==
    \/ Preflight \/ Download \/ Accept \/ Refuse
    \/ Copy \/ Copied
    \/ RemoveVitestConfigs \/ ConvertPackage \/ ConvertTypes \/ NothingToConvert
    \/ RemoveJestKey \/ KeepProject \/ CopyProject \/ FillProject
    \/ ClearExamples \/ LayExamples \/ FitExamples \/ NoExamples
    \/ ChooseCompiler \/ AddTestConfig \/ ExcludeTests
    \/ AddScripts \/ AddStryker \/ NoStryker
    \/ Install \/ Finish

Next ==
    \/ \E o \in Offered : Run(o)
    \/ \E i \in Editable, new \in {"absent", "theirs"} : Edit(i, new)
    \/ InstallModules
    \/ Script
    \/ Cut

Spec == Init /\ [][Next]_vars

-----------------------------------------------------------------------------
(***************************************************************************)
(* Properties.                                                             *)
(***************************************************************************)
Own(content) == content \in {"theirs", "extended"}
Loses(i)     == Own(disk[i]) /\ ~Own(disk'[i])

\* The script undoes the developer's work only where it was told to or takes it for generated:
\* what a developer wrote is replaced with --force; additions to generated settings of a runner go
\* with them, and own scripts that run Vitest with a template; test/setup/project.ts, other
\* settings and the rest are never lost, and nothing of .gitignore, which is only appended to.
\* (setup.sh:11-12, 60-91, 137-144, 156-170, 709-749.)  TakenForGenerated is an exception to
\* setup.sh:61-63, "a project with its own Vitest tests or config is left alone", and README.md:116,
\* a custom "jest" section: "The script will not touch it".
Replaceable         == Kit \cup {"examples", "stryker"}
TakenForGenerated(i) == \/ disk[i] = "extended"
                        \/ i = "vitest.scripts" /\ before["vitest.config"] \in {"template", "extended"}
LosesOwnWork        == \E i \in Items \ {"ignore"} :
                           /\ Loses(i)
                           /\ ~(opts.force /\ i \in Replaceable)
                           /\ ~TakenForGenerated(i)
OwnWorkIsKept       == [][LosesOwnWork => phase \notin Sections]_vars

\* "Nothing was changed": a run that refuses leaves the directory as it found it, whatever runs
\* and interruptions came before. (setup.sh:39-144.)
RefusedRunChangesNothing == phase = "refused" => disk = before

\* Whether the tests of a directory d can run: with Vitest and its settings, with settings of
\* one's own for Jest, or with the kit's.  Jest refuses to choose between two places for its
\* settings, and needs the packages of the compiler they name.
Vitest(d)      == d["vitest"] # "absent" /\ d["vitest.config"] # "absent"
JestConfigs(d) == {i \in {"jest.config", "jest.key", Config} : d[i] # "absent"}
OwnJest(d)     == /\ d["jest"] # "absent"
                  /\ \E i \in JestConfigs(d) : JestConfigs(d) = {i} /\ d[i] # "kit"
Packages(d)    == /\ d["jest"] # "absent"
                  /\ IF d[Base] = "ts-jest" THEN d["ts-jest"] # "absent" ELSE d["swc"] # "absent"
KitJest(d)     == /\ \A k \in Kit : d[k] # "absent"
                  /\ JestConfigs(d) = {Config}
                  /\ Packages(d)
CanTest(d)     == Vitest(d) \/ OwnJest(d) \/ KitJest(d)

\* A service whose tests could run before the script can be without a runner only from the first
\* file copied to the packages installed, or where a run was cut there (a conversion is followed
\* by npm install, which may fail: then neither runner's packages are in package.json until
\* someone installs), or after --no-install; and no old runner's settings are gone before every
\* file of the kit is in place. (setup.sh:146-164, 646-691, 731-739.)
Gap          == Sections \ {"preflight", "download", "conflicts", "check"}
SettingsGone == \E i \in {"vitest.config", "jest.key"} : before[i] # "absent" /\ disk[i] = "absent"
Runnerless   == CanTest(before) /\ ~CanTest(disk)
RunnerlessHasACause ==
    /\ Runnerless => \/ phase \in Gap
                     \/ phase = "cut" /\ cuts \cap Gap # {}
                     \/ phase = "done" /\ ~opts.install
    /\ SettingsGone => \A k \in Kit : disk[k] \in {"kit", "ts-jest"}

\* A run that says Done leaves a kit that can run: all its files, no second runner (Vitest can
\* only have stayed among the dependencies), settings, scripts and, unless --no-install, the
\* packages of the compiler it chose. (setup.sh:146-697.)
Complete ==
    /\ \A k \in Kit : disk[k] \in {"kit", "ts-jest"}
    /\ JestConfigs(disk) = {Config}
    /\ disk["vitest"] # "absent" => before["vitest"] = "dependency"
    /\ disk["project"] # "absent"
    /\ disk["scripts"] # "absent"
    /\ opts.install => Packages(disk)
DoneIsComplete == phase = "done" => Complete

\* Between runs, something half done is found only where a run was cut in the section that does
\* it, and the next run need not repair it: a project.ts with nothing filled in is then "kept
\* yours", examples stay as they were copied. (setup.sh:169-177, 414-461, 731-762.)
LeftoversHaveACause ==
    phase \in Ended =>
        /\ disk["project"] = "template" => "fill" \in cuts
        /\ disk["examples"] = "empty" => "lay" \in cuts
        /\ disk["examples"] = "copied" => "fit" \in cuts
        /\ disk["types"] = "vitest" /\ disk["vitest"] = "absent" => "types" \in cuts

\* A service the script accepted once, and nobody edited since, is refused with --force only if
\* a run was cut between removing the Vitest configs and rewriting package.json, or if that left
\* Vitest among the dependencies: then no template is recognised any more, whatever options are
\* given. (setup.sh:48, 60-70, 711-739.)
RefusalHasACause ==
    phase = "refused" /\ opts.force /\ accepted => "package" \in cuts \/ disk["vitest"] = "dependency"

\* Running it again with the same options changes nothing, except that a run which found no
\* node_modules could not see the TypeScript version, so the next one may change the compiler and
\* install ts-jest. (setup.sh:464-484, 646-662.)
SameBut(s) == \A i \in Items \ s : disk[i] = ready.disk[i]
Repeats    == /\ SameBut({Base, "ts-jest", "modules"})
              /\ ready.modules \/ ~facts.orm => SameBut({"modules"})
RunsAgain == Finish /\ ready.known /\ ready.opts = opts
SameAgain == [][RunsAgain => Repeats]_vars
=============================================================================
