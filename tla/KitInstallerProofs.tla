------------------------- MODULE KitInstallerProofs -------------------------
(***************************************************************************)
(* What holds of setup.sh for every list of files, every service and every *)
(* number of runs, cut anywhere.                                           *)
(***************************************************************************)
EXTENDS KitInstaller, TLAPS

-----------------------------------------------------------------------------
(***************************************************************************)
(* The items and what each can be.                                         *)
(***************************************************************************)
LEMMA Apart == \A i \in Kit : i \notin Others
  <1>1. Kit \cap Others = {}
    BY KitInstallerAssumption
  <1> QED
    BY <1>1

LEMMA KitAllowed == \A i \in Kit : Allowed(i) = {"absent", "theirs", "kit", "ts-jest"}
  BY Apart DEF Allowed, Others

LEMMA OthersAllowed ==
    /\ Allowed("jest.config")   = {"absent", "theirs"}
    /\ Allowed("jest.key")      = {"absent", "theirs", "nest", "extended"}
    /\ Allowed("vitest.config") = {"absent", "theirs", "template", "extended"}
    /\ Allowed("vitest")        = {"absent", "vitest", "dependency"}
    /\ Allowed("vitest.scripts") = {"absent", "theirs"}
    /\ Allowed("types")         = {"theirs", "vitest", "jest"}
    /\ Allowed("project")       = {"absent", "theirs", "template", "filled"}
    /\ Allowed("examples")      = {"absent", "theirs", "empty", "copied", "fitted"}
    /\ Allowed("exclude")       = {"absent", "tests", "examples"}
    /\ Allowed("ignore")        = {"absent", "theirs", "coverage", "stryker"}
    /\ \A i \in {"tsconfig.test", "scripts", "stryker", "modules", "jest", "swc", "ts-jest"} :
           Allowed(i) = {"absent", "theirs", "kit"}
  BY Apart DEF Allowed, Others

LEMMA AllowedInContents == \A i \in Items : Allowed(i) \subseteq Contents
  BY KitAllowed, OthersAllowed DEF Items, Others, Contents

\* The script's files in order are files of the kit.
LEMMA FilesInKit ==
    /\ Len(KitFiles) \in Nat
    /\ \A i \in 1 .. Len(KitFiles) : KitFiles[i] \in Kit
    /\ \A k \in Kit : \E i \in 1 .. Len(KitFiles) : k = KitFiles[i]
  <1>1. KitFiles \in Seq(Kit)
    BY KitInstallerAssumption
  <1> QED
    BY <1>1 DEF Kit

LEMMA PutOne ==
    ASSUME NEW d \in Disks, NEW i \in Items, NEW v \in Allowed(i)
    PROVE  /\ [d EXCEPT ![i] = v] \in Disks
           /\ [d EXCEPT ![i] = v][i] = v
           /\ \A j \in Items \ {i} : [d EXCEPT ![i] = v][j] = d[j]
  <1>1. v \in Contents
    BY AllowedInContents
  <1> QED
    BY <1>1 DEF Disks

LEMMA OthersAreItems ==
    {"jest.config", "jest.key", "vitest.config", "vitest", "vitest.scripts", "types", "project",
     "examples", "tsconfig.test", "exclude", "scripts", "ignore", "stryker", "modules", "jest",
     "swc", "ts-jest"}
        \subseteq Items
  BY DEF Items, Others

-----------------------------------------------------------------------------
(***************************************************************************)
(* Type correctness.                                                       *)
(***************************************************************************)
LEMMA TypeInit == Init => TypeOK
  <1> SUFFICES ASSUME Init PROVE TypeOK
    OBVIOUS
  <1>1. disk \in Disks /\ facts \in Facts
    BY KitInstallerAssumption DEF Init, IsService
  <1>2. opts \in Options
    BY DEF Init, Options
  <1>3. ready \in Results
    BY <1>1, <1>2 DEF Init, Results
  <1>4. copied \in 0 .. Len(KitFiles) /\ runs \in 0 .. MaxRuns
    BY FilesInKit, KitInstallerAssumption DEF Init
  <1> QED
    BY <1>1, <1>2, <1>3, <1>4 DEF Init, TypeOK, Ended

\* Every section of the script writes what an item can be.
LEMMA ScriptTypes ==
    ASSUME TypeOK, Script
    PROVE  disk' \in Disks /\ copied' \in 0 .. Len(KitFiles) /\ phase' \in Ended \cup Sections
  <1> USE DEF Ended, Sections
  <1>1. disk \in Disks /\ copied \in 0 .. Len(KitFiles) /\ Len(KitFiles) \in Nat
    BY FilesInKit DEF TypeOK
  <1>2. CASE Preflight \/ Download \/ Accept \/ Refuse
    BY <1>1, <1>2 DEF Preflight, Download, Accept, Refuse, Keep
  <1>3. CASE Copy
    <2>1. KitFiles[copied + 1] \in Kit /\ copied + 1 \in 0 .. Len(KitFiles)
      BY <1>1, <1>3, FilesInKit DEF Copy
    <2>2. "kit" \in Allowed(KitFiles[copied + 1]) /\ KitFiles[copied + 1] \in Items
      BY <2>1, KitAllowed DEF Items
    <2> QED
      BY <1>1, <1>3, <2>1, <2>2, PutOne DEF Copy, Put
  <1>4. CASE Copied \/ NothingToConvert \/ KeepProject \/ NoExamples \/ NoStryker
    BY <1>1, <1>4 DEF Copied, NothingToConvert, KeepProject, NoExamples, NoStryker, Keep
  <1>5. CASE RemoveVitestConfigs
    BY <1>1, <1>5, PutOne, OthersAllowed, OthersAreItems DEF RemoveVitestConfigs, Put
  <1>6. CASE ConvertPackage
    <2> DEFINE v == IF disk["vitest"] = "dependency" THEN disk["vitest"] ELSE "absent"
               d == [disk EXCEPT !["vitest"] = v]
    <2>0. v \in Allowed("vitest") /\ "absent" \in Allowed("vitest.scripts")
      BY OthersAllowed
    <2>1. d \in Disks
      BY <1>1, <2>0, PutOne, OthersAreItems
    <2>2. [d EXCEPT !["vitest.scripts"] = "absent"] \in Disks
      BY <2>0, <2>1, PutOne, OthersAreItems
    <2>3. disk' = [d EXCEPT !["vitest.scripts"] = "absent"]
      BY <1>1, <1>6, OthersAreItems DEF ConvertPackage, Disks
    <2> QED
      BY <1>1, <1>6, <2>2, <2>3 DEF ConvertPackage
  <1>7. CASE ConvertTypes
    <2>1. disk["types"] \in Allowed("types")
      BY <1>1, OthersAreItems DEF Disks
    <2> QED
      BY <1>1, <1>7, <2>1, PutOne, OthersAllowed, OthersAreItems DEF ConvertTypes, Put
  <1>8. CASE RemoveJestKey
    BY <1>1, <1>8, PutOne, OthersAllowed, OthersAreItems DEF RemoveJestKey, Put
  <1>9. CASE CopyProject \/ FillProject
    <2>1. {"template", "filled"} \subseteq Allowed("project") /\ "project" \in Items
      BY OthersAllowed, OthersAreItems
    <2> QED
      BY <1>1, <1>9, <2>1, PutOne DEF CopyProject, FillProject, Put
  <1>10. CASE ClearExamples \/ LayExamples \/ FitExamples
    <2>1. {"empty", "copied", "fitted"} \subseteq Allowed("examples") /\ "examples" \in Items
      BY OthersAllowed, OthersAreItems
    <2> QED
      BY <1>1, <1>10, <2>1, PutOne DEF ClearExamples, LayExamples, FitExamples, Put
  <1>11. CASE ChooseCompiler
    <2>1. "ts-jest" \in Allowed(Base) /\ Base \in Items
      BY KitAllowed, KitInstallerAssumption DEF Items
    <2> QED
      BY <1>1, <1>11, <2>1, PutOne DEF ChooseCompiler, Put, Keep
  <1>12. CASE AddTestConfig
    BY <1>1, <1>12, PutOne, OthersAllowed, OthersAreItems DEF AddTestConfig, Put, Keep
  <1>13. CASE ExcludeTests
    <2>1. {"tests", "examples"} \subseteq Allowed("exclude") /\ "exclude" \in Items
      BY OthersAllowed, OthersAreItems
    <2> QED
      BY <1>1, <1>13, <2>1, PutOne DEF ExcludeTests, Put, Keep
  <1>14. CASE AddScripts
    <2>1. disk["scripts"] \in Allowed("scripts") /\ disk["ignore"] \in Allowed("ignore")
      BY <1>1, OthersAreItems DEF Disks
    <2> DEFINE s == IF disk["scripts"] = "absent" THEN "kit" ELSE disk["scripts"]
               g == IF disk["ignore"] = "theirs" THEN "coverage" ELSE disk["ignore"]
               d == [disk EXCEPT !["scripts"] = s]
    <2>2. s \in Allowed("scripts") /\ g \in Allowed("ignore")
      BY <2>1, OthersAllowed
    <2>3. d \in Disks
      BY <1>1, <2>2, PutOne, OthersAreItems
    <2>4. [d EXCEPT !["ignore"] = g] \in Disks
      BY <2>2, <2>3, PutOne, OthersAreItems
    <2>5. disk' = [d EXCEPT !["ignore"] = g]
      BY <1>1, <1>14, OthersAreItems DEF AddScripts, Disks
    <2> QED
      BY <1>1, <1>14, <2>4, <2>5 DEF AddScripts
  <1>15. CASE AddStryker
    <2>1. disk["stryker"] \in Allowed("stryker")
      BY <1>1, OthersAreItems DEF Disks
    <2> DEFINE s == IF disk["stryker"] # "absent" /\ ~opts.force THEN disk["stryker"] ELSE "kit"
               d == [disk EXCEPT !["stryker"] = s]
    <2>2. s \in Allowed("stryker") /\ "stryker" \in Allowed("ignore")
      BY <2>1, OthersAllowed
    <2>3. d \in Disks
      BY <1>1, <2>2, PutOne, OthersAreItems
    <2>4. [d EXCEPT !["ignore"] = "stryker"] \in Disks
      BY <2>2, <2>3, PutOne, OthersAreItems
    <2>5. disk' = [d EXCEPT !["ignore"] = "stryker"]
      BY <1>1, <1>15, OthersAreItems DEF AddStryker, Disks
    <2> QED
      BY <1>1, <1>15, <2>4, <2>5 DEF AddStryker
  <1>16. CASE Install
    <2>1. /\ disk["modules"] \in Allowed("modules")
          /\ disk["jest"] \in Allowed("jest")
          /\ disk["swc"] \in Allowed("swc")
          /\ disk["ts-jest"] \in Allowed("ts-jest")
      BY <1>1, OthersAreItems DEF Disks
    <2> DEFINE m == IF disk["modules"] = "absent" THEN "kit" ELSE disk["modules"]
               j == IF disk["jest"] = "absent" THEN "kit" ELSE disk["jest"]
               w == IF disk["swc"] = "absent" THEN "kit" ELSE disk["swc"]
               t == IF disk["ts-jest"] = "absent" /\ disk[Base] = "ts-jest"
                    THEN "kit" ELSE disk["ts-jest"]
               d == [disk EXCEPT !["modules"] = m]
               e == [d EXCEPT !["jest"] = j]
               f == [e EXCEPT !["swc"] = w]
    <2>2. /\ m \in Allowed("modules") /\ j \in Allowed("jest")
          /\ w \in Allowed("swc") /\ t \in Allowed("ts-jest")
      BY <2>1, OthersAllowed
    <2>3. d \in Disks
      BY <1>1, <2>2, PutOne, OthersAreItems
    <2>4. e \in Disks
      BY <2>2, <2>3, PutOne, OthersAreItems
    <2>5. f \in Disks
      BY <2>2, <2>4, PutOne, OthersAreItems
    <2>6. [f EXCEPT !["ts-jest"] = t] \in Disks
      BY <2>2, <2>5, PutOne, OthersAreItems
    <2>7. disk' = [f EXCEPT !["ts-jest"] = t]
      BY <1>1, <1>16, OthersAreItems DEF Install, Disks
    <2> QED
      BY <1>1, <1>16, <2>6, <2>7 DEF Install
  <1>17. CASE Finish
    BY <1>1, <1>17 DEF Finish, Keep
  <1> QED
    BY <1>2, <1>3, <1>4, <1>5, <1>6, <1>7, <1>8, <1>9, <1>10, <1>11, <1>12, <1>13, <1>14, <1>15,
       <1>16, <1>17 DEF Script

\* Nothing the script does but Accept and Finish touches the history.
LEMMA ScriptHistory ==
    ASSUME Script
    PROVE  /\ opts' = opts /\ facts' = facts /\ runs' = runs /\ before' = before /\ cuts' = cuts
           /\ accepted' = accepted \/ accepted' = TRUE
           /\ ready' = ready \/ ready' = Result
  BY DEF Script, history, Preflight, Download, Accept, Refuse, Copy, Copied, RemoveVitestConfigs,
     ConvertPackage, ConvertTypes, NothingToConvert, RemoveJestKey, KeepProject, CopyProject,
     FillProject, ClearExamples, LayExamples, FitExamples, NoExamples, ChooseCompiler,
     AddTestConfig, ExcludeTests, AddScripts, AddStryker, NoStryker, Install, Finish

LEMMA TypeNext ==
    ASSUME TypeOK, [Next]_vars
    PROVE  TypeOK'
  <1>1. CASE Script
    <2>1. disk' \in Disks /\ copied' \in 0 .. Len(KitFiles) /\ phase' \in Ended \cup Sections
      BY <1>1, ScriptTypes
    <2>2. Result \in Results
      BY DEF TypeOK, Result, Results
    <2> QED
      BY <1>1, <2>1, <2>2, ScriptHistory DEF TypeOK
  <1>2. ASSUME NEW o \in Offered, Run(o)
        PROVE  TypeOK'
    BY <1>2, KitInstallerAssumption, FilesInKit DEF Run, TypeOK, Sections
  <1>3. ASSUME NEW i \in Editable, NEW new \in {"absent", "theirs"}, Edit(i, new)
        PROVE  TypeOK'
    <2>1. i \in Items /\ new \in Allowed(i)
      BY KitInstallerAssumption, KitAllowed, OthersAllowed, OthersAreItems DEF Items
    <2>2. disk' \in Disks
      BY <1>3, <2>1, PutOne DEF Edit, TypeOK
    <2>3. ready' \in Results
      BY <1>3 DEF Edit, TypeOK, Results
    <2> QED
      BY <1>3, <2>2, <2>3 DEF Edit, TypeOK, Ended
  <1>4. CASE InstallModules
    <2>1. disk' \in Disks
      BY <1>4, PutOne, OthersAllowed, OthersAreItems DEF InstallModules, TypeOK
    <2> QED
      BY <1>4, <2>1 DEF InstallModules, TypeOK, Ended
  <1>5. CASE Cut
    <2>1. ready' \in Results
      BY <1>5 DEF Cut, TypeOK, Results
    <2> QED
      BY <1>5, <2>1 DEF Cut, TypeOK, Ended
  <1>6. CASE UNCHANGED vars
    BY <1>6 DEF vars, TypeOK
  <1> QED
    BY <1>1, <1>2, <1>3, <1>4, <1>5, <1>6 DEF Next

\* The script writes nothing but what each item can be, whatever was there. (setup.sh:118-697.)
THEOREM TypeCorrect == Spec => []TypeOK
  <1>1. Init => TypeOK
    BY TypeInit
  <1>2. TypeOK /\ [Next]_vars => TypeOK'
    BY TypeNext
  <1> QED
    BY <1>1, <1>2, PTL DEF Spec

-----------------------------------------------------------------------------
(***************************************************************************)
(* What each section changes, item by item.                                *)
(***************************************************************************)
Writes(here, next, S) ==
    /\ phase = here
    /\ phase' = next
    /\ \A j \in Items \ S : disk'[j] = disk[j]

LEMMA PutWrites ==
    ASSUME TypeOK, NEW here, NEW next, NEW i \in Items, NEW v, Put(here, next, i, v)
    PROVE  Writes(here, next, {i}) /\ disk'[i] = v
  BY DEF TypeOK, Disks, Put, Writes

LEMMA CopyWrites ==
    ASSUME TypeOK, Copy
    PROVE  /\ copied < Len(KitFiles) /\ copied' = copied + 1
           /\ KitFiles[copied'] \in Kit
           /\ Writes("copy", "copy", {KitFiles[copied']})
           /\ disk'[KitFiles[copied']] = "kit"
  <1>1. /\ copied' = copied + 1 /\ copied < Len(KitFiles)
        /\ KitFiles[copied + 1] \in Kit
    BY FilesInKit DEF Copy, TypeOK
  <1>2. KitFiles[copied + 1] \in Items
    BY <1>1 DEF Items
  <1> QED
    BY <1>1, <1>2, PutWrites DEF Copy

LEMMA RunnerWrites ==
    ASSUME TypeOK
    PROVE  /\ RemoveVitestConfigs => /\ Writes("convert", "package", {"vitest.config"})
                                     /\ disk'["vitest.config"] = "absent"
           /\ ConvertPackage =>
                  /\ Writes("package", "types", {"vitest", "vitest.scripts"})
                  /\ disk'["vitest"] = IF disk["vitest"] = "dependency" THEN "dependency" ELSE "absent"
           /\ ConvertTypes => /\ Writes("types", "key", {"types"})
                              /\ disk'["types"] # "vitest"
                              /\ disk["types"] = "theirs" => disk'["types"] = "theirs"
           /\ RemoveJestKey => /\ Writes("key", "project", {"jest.key"})
                               /\ disk'["jest.key"] = "absent"
  <1>1. {"vitest.config", "vitest", "vitest.scripts", "types", "jest.key"} \subseteq Items
    BY OthersAreItems
  <1>2. RemoveVitestConfigs => /\ Writes("convert", "package", {"vitest.config"})
                               /\ disk'["vitest.config"] = "absent"
    BY <1>1, PutWrites DEF RemoveVitestConfigs
  <1>3. ConvertPackage =>
            /\ Writes("package", "types", {"vitest", "vitest.scripts"})
            /\ disk'["vitest"] = IF disk["vitest"] = "dependency" THEN "dependency" ELSE "absent"
    BY <1>1 DEF ConvertPackage, Writes, TypeOK, Disks
  <1>4. ConvertTypes => /\ Writes("types", "key", {"types"})
                        /\ disk'["types"] = IF disk["types"] = "vitest" THEN "jest"
                                                                        ELSE disk["types"]
    BY <1>1, PutWrites DEF ConvertTypes
  <1>5. RemoveJestKey => Writes("key", "project", {"jest.key"}) /\ disk'["jest.key"] = "absent"
    BY <1>1, PutWrites DEF RemoveJestKey
  <1> QED
    BY <1>2, <1>3, <1>4, <1>5

LEMMA ProjectWrites ==
    ASSUME TypeOK
    PROVE  /\ CopyProject => /\ Writes("project", "fill", {"project"})
                             /\ disk["project"] = "absent" /\ disk'["project"] = "template"
           /\ FillProject => Writes("fill", "examples", {"project"}) /\ disk'["project"] = "filled"
           /\ ClearExamples => Writes("examples", "lay", {"examples"}) /\ opts.examples
                               /\ disk'["examples"] = "empty"
           /\ LayExamples => Writes("lay", "fit", {"examples"}) /\ disk'["examples"] = "copied"
           /\ FitExamples => Writes("fit", "compiler", {"examples"}) /\ disk'["examples"] = "fitted"
  <1>1. {"project", "examples"} \subseteq Items
    BY OthersAreItems
  <1>2. CopyProject => /\ Writes("project", "fill", {"project"})
                       /\ disk["project"] = "absent" /\ disk'["project"] = "template"
    BY <1>1, PutWrites DEF CopyProject
  <1>3. FillProject => Writes("fill", "examples", {"project"}) /\ disk'["project"] = "filled"
    BY <1>1, PutWrites DEF FillProject
  <1>4. ClearExamples => Writes("examples", "lay", {"examples"}) /\ opts.examples
                         /\ disk'["examples"] = "empty"
    BY <1>1, PutWrites DEF ClearExamples
  <1>5. LayExamples => Writes("lay", "fit", {"examples"}) /\ disk'["examples"] = "copied"
    BY <1>1, PutWrites DEF LayExamples
  <1>6. FitExamples => Writes("fit", "compiler", {"examples"}) /\ disk'["examples"] = "fitted"
    BY <1>1, PutWrites DEF FitExamples
  <1> QED
    BY <1>2, <1>3, <1>4, <1>5, <1>6

LEMMA ConfigWrites ==
    ASSUME TypeOK
    PROVE  /\ ChooseCompiler => /\ Writes("compiler", "tsconfig", {Base})
                                /\ disk'[Base] \in {disk[Base], "ts-jest"}
           /\ AddTestConfig => /\ Writes("tsconfig", "exclude", {"tsconfig.test"})
                               /\ disk["tsconfig.test"] = "theirs" => disk'["tsconfig.test"] = "theirs"
           /\ ExcludeTests => Writes("exclude", "scripts", {"exclude"})
           /\ AddScripts => /\ Writes("scripts", "mutation", {"scripts", "ignore"})
                            /\ disk'["scripts"] # "absent"
                            /\ disk["scripts"] = "theirs" => disk'["scripts"] = "theirs"
           /\ AddStryker => /\ Writes("mutation", "install", {"stryker", "ignore"})
                            /\ disk["stryker"] = "theirs" /\ ~opts.force => disk'["stryker"] = "theirs"
  <1>1. {"tsconfig.test", "exclude", "scripts", "ignore", "stryker"} \subseteq Items /\ Base \in Items
    BY OthersAreItems, KitInstallerAssumption DEF Items
  <1>2. ChooseCompiler => /\ Writes("compiler", "tsconfig", {Base})
                          /\ disk'[Base] \in {disk[Base], "ts-jest"}
    BY <1>1, PutWrites DEF ChooseCompiler, Keep, Writes
  <1>3. AddTestConfig => /\ Writes("tsconfig", "exclude", {"tsconfig.test"})
                         /\ disk["tsconfig.test"] = "theirs" => disk'["tsconfig.test"] = "theirs"
    BY <1>1, PutWrites DEF AddTestConfig, Keep, Writes
  <1>4. ExcludeTests => Writes("exclude", "scripts", {"exclude"})
    BY <1>1, PutWrites DEF ExcludeTests, Keep, Writes
  <1>5. AddScripts => /\ Writes("scripts", "mutation", {"scripts", "ignore"})
                      /\ disk'["scripts"] # "absent"
                      /\ disk["scripts"] = "theirs" => disk'["scripts"] = "theirs"
    BY <1>1 DEF AddScripts, Writes, TypeOK, Disks
  <1>6. AddStryker => /\ Writes("mutation", "install", {"stryker", "ignore"})
                      /\ disk["stryker"] = "theirs" /\ ~opts.force => disk'["stryker"] = "theirs"
    BY <1>1 DEF AddStryker, Writes, TypeOK, Disks
  <1> QED
    BY <1>2, <1>3, <1>4, <1>5, <1>6

LEMMA InstallWrites ==
    ASSUME TypeOK, Install
    PROVE  /\ Writes("install", "check", {"modules", "jest", "swc", "ts-jest"})
           /\ opts.install
           /\ disk'["jest"] # "absent" /\ disk'["swc"] # "absent"
           /\ disk[Base] = "ts-jest" => disk'["ts-jest"] # "absent"
           /\ \A i \in {"modules", "jest", "swc", "ts-jest"} :
                  disk[i] = "theirs" => disk'[i] = "theirs"
  <1>1. {"modules", "jest", "swc", "ts-jest"} \subseteq Items
    BY OthersAreItems
  <1> QED
    BY <1>1 DEF Install, Writes, TypeOK, Disks

\* The sections that write nothing.
Reads == \/ Preflight \/ Download \/ Accept \/ Refuse \/ Copied \/ NothingToConvert
         \/ KeepProject \/ NoExamples \/ NoStryker \/ Finish

LEMMA ReadsWriteNothing == Reads => disk' = disk
  BY DEF Reads, Preflight, Download, Accept, Refuse, Copied, NothingToConvert, KeepProject,
     NoExamples, NoStryker, Finish, Keep

-----------------------------------------------------------------------------
(***************************************************************************)
(* The inductive invariant, by how far a run has come.                     *)
(***************************************************************************)
ReadOnly     == {"preflight", "download", "conflicts"}
AfterScripts == {"mutation", "install", "check", "done"}
AfterProject == {"examples", "lay", "fit", "compiler", "tsconfig", "exclude", "scripts"}
                    \cup AfterScripts
AfterKey     == {"project", "fill"} \cup AfterProject
AfterVitest  == {"types", "key"} \cup AfterKey
AfterCopy    == {"convert", "package"} \cup AfterVitest

\* Until the first file is copied, nothing is written.
Unread == phase \in ReadOnly \cup {"idle", "refused"} => disk = before

\* What Preflight checked stays so as long as the run needs it.
Checked ==
    /\ phase \in {"download", "conflicts", "copy", "convert"} => ~Unacceptable
    /\ phase \in AfterCopy => disk["jest.config"] # "theirs"
    /\ phase \in {"package"} \cup AfterVitest => disk["jest.key"] # "theirs"

\* The files are in place, those copied so far and then all of them.
InPlace ==
    /\ phase \in ReadOnly => copied = 0
    /\ phase = "copy" => \A i \in 1 .. copied : disk[KitFiles[i]] = "kit"
    /\ phase \in AfterCopy => \A k \in Kit : disk[k] \in {"kit", "ts-jest"}

\* The old runner's settings are untouched while files are still being copied.
GoneInPlace == SettingsGone => \A k \in Kit : disk[k] \in {"kit", "ts-jest"}

RunnerInv ==
    /\ phase \in ReadOnly \cup {"copy", "convert", "idle", "refused"} => ~SettingsGone
    /\ GoneInPlace

LEMMA UnreadNext ==
    ASSUME TypeOK, Unread, [Next]_vars
    PROVE  Unread'
  <1> USE DEF Unread, ReadOnly
  <1>1. CASE Reads
    BY <1>1, ReadsWriteNothing, ScriptHistory DEF Reads, Script, Preflight, Download, Accept, Refuse,
       Copied, NothingToConvert, KeepProject, NoExamples, NoStryker, Finish, Keep
  <1>2. CASE Copy
    BY <1>2, CopyWrites DEF Writes
  <1>3. CASE RemoveVitestConfigs \/ ConvertPackage \/ ConvertTypes \/ RemoveJestKey
    BY <1>3, RunnerWrites DEF Writes
  <1>4. CASE CopyProject \/ FillProject \/ ClearExamples \/ LayExamples \/ FitExamples
    BY <1>4, ProjectWrites DEF Writes
  <1>5. CASE ChooseCompiler \/ AddTestConfig \/ ExcludeTests \/ AddScripts \/ AddStryker
    BY <1>5, ConfigWrites DEF Writes
  <1>6. CASE Install
    BY <1>6, InstallWrites DEF Writes
  <1>7. CASE \/ \E o \in Offered : Run(o)
             \/ \E i \in Editable, new \in {"absent", "theirs"} : Edit(i, new)
             \/ InstallModules \/ Cut \/ UNCHANGED vars
    BY <1>7 DEF Run, Edit, InstallModules, Cut, vars
  <1> QED
    BY <1>1, <1>2, <1>3, <1>4, <1>5, <1>6, <1>7 DEF Next, Script, Reads

LEMMA CheckedNext ==
    ASSUME TypeOK, Checked, [Next]_vars
    PROVE  Checked'
  <1> USE DEF Checked, AfterCopy, AfterVitest, AfterKey, AfterProject, AfterScripts,
              Unacceptable, UsesVitest, IsTemplate
  <1>0. {"jest.config", "jest.key", "vitest", "vitest.config"} \subseteq Items
    BY OthersAreItems
  <1>1. CASE Reads
    BY <1>1, ReadsWriteNothing DEF Reads, Preflight, Download, Accept, Refuse,
       Copied, NothingToConvert, KeepProject, NoExamples, NoStryker, Finish, Keep
  <1>2. CASE Copy
    <2>1. KitFiles[copied'] \notin {"jest.config", "jest.key", "vitest", "vitest.config"}
      BY <1>2, CopyWrites, Apart DEF Others
    <2> QED
      BY <1>0, <1>2, <2>1, CopyWrites DEF Writes
  <1>3. CASE RemoveVitestConfigs \/ ConvertPackage \/ ConvertTypes \/ RemoveJestKey
    BY <1>0, <1>3, RunnerWrites DEF Writes
  <1>4. CASE CopyProject \/ FillProject \/ ClearExamples \/ LayExamples \/ FitExamples
    BY <1>0, <1>4, ProjectWrites DEF Writes
  <1>5. CASE ChooseCompiler \/ AddTestConfig \/ ExcludeTests \/ AddScripts \/ AddStryker
    <2>1. Base \notin {"jest.config", "jest.key", "vitest", "vitest.config"}
      BY KitInstallerAssumption, Apart DEF Others
    <2> QED
      BY <1>0, <1>5, <2>1, ConfigWrites DEF Writes
  <1>6. CASE Install
    BY <1>0, <1>6, InstallWrites DEF Writes
  <1>7. CASE \/ \E o \in Offered : Run(o)
             \/ \E i \in Editable, new \in {"absent", "theirs"} : Edit(i, new)
             \/ InstallModules \/ Cut \/ UNCHANGED vars
    BY <1>7 DEF Run, Edit, InstallModules, Cut, vars
  <1> QED
    BY <1>1, <1>2, <1>3, <1>4, <1>5, <1>6, <1>7 DEF Next, Script, Reads

LEMMA InPlaceNext ==
    ASSUME TypeOK, InPlace, [Next]_vars
    PROVE  InPlace'
  <1> USE DEF InPlace, ReadOnly, AfterCopy, AfterVitest, AfterKey, AfterProject, AfterScripts
  <1>0. Kit \subseteq Items /\ \A k \in Kit : k \notin Others
    BY Apart DEF Items
  <1>1. CASE Reads
    <2>1. CASE Copied
      <3>1. copied = Len(KitFiles) /\ phase = "copy" /\ disk' = disk
        BY <2>1 DEF Copied, Keep
      <3>2. \A k \in Kit : disk[k] = "kit"
        BY <3>1, FilesInKit
      <3> QED
        BY <2>1, <3>1, <3>2 DEF Copied, Keep
    <2>2. CASE Accept
      <3>1. copied' = 0 /\ phase' = "copy"
        BY <2>2 DEF Accept, Keep
      <3> QED
        BY <3>1
    <2>3. CASE ~Copied /\ ~Accept
      BY <1>1, <2>3, ReadsWriteNothing DEF Reads, Preflight, Download, Refuse, history,
         NothingToConvert, KeepProject, NoExamples, NoStryker, Finish, Keep
    <2> QED
      BY <2>1, <2>2, <2>3
  <1>2. CASE Copy
    <2>1. copied \in Nat /\ copied' = copied + 1 /\ copied < Len(KitFiles) /\ Len(KitFiles) \in Nat
      BY <1>2, CopyWrites, FilesInKit DEF TypeOK
    <2>2. \A i \in 1 .. copied' : i \in 1 .. copied \/ i = copied'
      BY <2>1
    <2>3. \A i \in 1 .. copied : KitFiles[i] \in Items
      BY <2>1, FilesInKit DEF Items
    <2> QED
      BY <1>2, <2>2, <2>3, CopyWrites DEF Writes
  <1>3. CASE RemoveVitestConfigs \/ ConvertPackage \/ ConvertTypes \/ RemoveJestKey
    BY <1>0, <1>3, RunnerWrites DEF Writes, Others
  <1>4. CASE CopyProject \/ FillProject \/ ClearExamples \/ LayExamples \/ FitExamples
    BY <1>0, <1>4, ProjectWrites DEF Writes, Others
  <1>5. CASE ChooseCompiler \/ AddTestConfig \/ ExcludeTests \/ AddScripts \/ AddStryker
    BY <1>0, <1>5, ConfigWrites DEF Writes, Others
  <1>6. CASE Install
    BY <1>0, <1>6, InstallWrites DEF Writes, Others
  <1>7. CASE \/ \E o \in Offered : Run(o)
             \/ \E i \in Editable, new \in {"absent", "theirs"} : Edit(i, new)
             \/ InstallModules \/ Cut \/ UNCHANGED vars
    BY <1>7 DEF Run, Edit, InstallModules, Cut, vars
  <1> QED
    BY <1>1, <1>2, <1>3, <1>4, <1>5, <1>6, <1>7 DEF Next, Script, Reads

LEMMA RunnerNext ==
    ASSUME TypeOK, InPlace, RunnerInv, [Next]_vars
    PROVE  RunnerInv'
  <1> USE DEF RunnerInv, ReadOnly
  <1>0. {"jest.key", "vitest.config"} \subseteq Items
    BY OthersAreItems
  <1>1. CASE Script
    <2>1. before' = before
      BY <1>1, ScriptHistory
    <2>2. CASE Reads
      BY <2>1, <2>2, ReadsWriteNothing DEF Reads, Preflight, Download, Accept, Refuse, Copied,
         NothingToConvert, KeepProject, NoExamples, NoStryker, Finish, Keep, SettingsGone,
         GoneInPlace
    <2>3. CASE Copy
      <3>1. KitFiles[copied'] \notin {"jest.key", "vitest.config"}
        BY <2>3, CopyWrites, Apart DEF Others
      <3>2. phase = "copy" /\ phase' = "copy"
            /\ disk'["jest.key"] = disk["jest.key"] /\ disk'["vitest.config"] = disk["vitest.config"]
        BY <1>0, <2>3, <3>1, CopyWrites DEF Writes
      <3> QED
        BY <2>1, <3>2 DEF SettingsGone, GoneInPlace
    <2>4. CASE ~Reads /\ ~Copy
      <3>1. phase \in AfterCopy /\ phase' \notin ReadOnly \cup {"copy", "convert", "idle", "refused"}
        BY <1>1, <2>4, RunnerWrites, ProjectWrites, ConfigWrites, InstallWrites
           DEF Script, Reads, Writes, AfterCopy, AfterVitest, AfterKey, AfterProject, AfterScripts
      <3>2. phase' \in AfterCopy
        BY <1>1, <2>4, RunnerWrites, ProjectWrites, ConfigWrites, InstallWrites
           DEF Script, Reads, Writes, AfterCopy, AfterVitest, AfterKey, AfterProject, AfterScripts
      <3>3. InPlace'
        BY <1>1, InPlaceNext DEF Next
      <3> QED
        BY <3>1, <3>2, <3>3 DEF InPlace, GoneInPlace
    <2> QED
      BY <2>2, <2>3, <2>4
  <1>2. CASE \/ \E o \in Offered : Run(o)
             \/ \E i \in Editable, new \in {"absent", "theirs"} : Edit(i, new)
             \/ InstallModules
    <2>1. before' = disk'
      BY <1>2 DEF Run, Edit, InstallModules
    <2> QED
      BY <2>1 DEF SettingsGone, GoneInPlace
  <1>3. CASE Cut \/ UNCHANGED vars
    BY <1>3 DEF Cut, vars, SettingsGone, GoneInPlace
  <1> QED
    BY <1>1, <1>2, <1>3 DEF Next

-----------------------------------------------------------------------------
RunInv == TypeOK /\ Unread /\ Checked /\ InPlace /\ RunnerInv

LEMMA RunInit == Init => RunInv
  BY TypeInit DEF Init, RunInv, Unread, Checked, InPlace, RunnerInv, ReadOnly, AfterCopy, AfterVitest,
     AfterKey, AfterProject, AfterScripts, SettingsGone, GoneInPlace

LEMMA RunNext == RunInv /\ [Next]_vars => RunInv'
  BY TypeNext, UnreadNext, CheckedNext, InPlaceNext, RunnerNext DEF RunInv

LEMMA RunAlways == Spec => []RunInv
  BY RunInit, RunNext, PTL DEF Spec

\* A run that refuses has changed nothing, whatever was cut or edited before it.
THEOREM RefusalsChangeNothing == Spec => []RefusedRunChangesNothing
  <1>1. RunInv => RefusedRunChangesNothing
    BY DEF RunInv, Unread, RefusedRunChangesNothing
  <1> QED
    BY <1>1, RunAlways, PTL

-----------------------------------------------------------------------------
(***************************************************************************)
(* What a run that says Done has put in place.                             *)
(***************************************************************************)
Progress ==
    /\ disk["vitest"] = "dependency" => before["vitest"] = "dependency"
    /\ phase = "package" => disk["vitest.config"] = "absent"
    /\ phase \in AfterVitest /\ disk["vitest"] # "absent" =>
           disk["vitest"] = "dependency" /\ disk["vitest.config"] = "absent"
    /\ phase \in AfterKey => disk["jest.key"] = "absent"
    /\ phase \in {"fill"} \cup AfterProject => disk["project"] # "absent"
    /\ phase \in AfterScripts => disk["scripts"] # "absent"
    /\ phase = "check" => opts.install
    /\ phase \in {"check", "done"} /\ opts.install => Packages(disk) /\ disk["swc"] # "absent"

LEMMA ProgressNext ==
    ASSUME TypeOK, Progress, [Next]_vars
    PROVE  Progress'
  <1> USE DEF Progress, Packages, AfterVitest, AfterKey, AfterProject, AfterScripts
  <1> DEFINE Watched == {"vitest", "vitest.config", "jest.key", "project", "scripts", "jest", "swc",
                         "ts-jest"}
  <1>0. Watched \subseteq Items /\ Base \in Items /\ Base \notin Others /\ Watched \subseteq Others
    BY OthersAreItems, KitInstallerAssumption, Apart DEF Items, Others
  <1>a. Script => opts' = opts /\ before' = before
    BY ScriptHistory
  <1>1. CASE Reads
    <2>1. opts' = opts /\ disk' = disk /\ before' = before
      BY <1>1, ScriptHistory, ReadsWriteNothing DEF Script, Reads
    <2> QED
      BY <1>1, <2>1 DEF Reads, Preflight, Download, Accept, Refuse, Copied, UsesVitest,
         NothingToConvert, KeepProject, NoExamples, NoStryker, Finish, Keep
  <1>2. CASE Copy
    <2>1. KitFiles[copied'] \notin Watched
      BY <1>2, CopyWrites, Apart, <1>0
    <2> QED
      BY <1>0, <1>a, <1>2, <2>1, CopyWrites DEF Writes, Script
  <1>3. CASE RemoveVitestConfigs \/ ConvertPackage \/ ConvertTypes \/ RemoveJestKey
    BY <1>0, <1>a, <1>3, RunnerWrites DEF Writes, Script
  <1>4. CASE CopyProject \/ FillProject \/ ClearExamples \/ LayExamples \/ FitExamples
    BY <1>0, <1>a, <1>4, ProjectWrites DEF Writes, Script
  <1>5. CASE ChooseCompiler \/ AddTestConfig \/ ExcludeTests \/ AddScripts \/ AddStryker
    <2>1. \A j \in Watched : j # Base
      BY <1>0
    <2> QED
      BY <1>0, <1>a, <1>5, <2>1, ConfigWrites DEF Writes, Script
  <1>6. CASE Install
    BY <1>0, <1>a, <1>6, InstallWrites DEF Writes, Others, Script
  <1>7. CASE \/ \E o \in Offered : Run(o)
             \/ \E i \in Editable, new \in {"absent", "theirs"} : Edit(i, new)
             \/ InstallModules \/ Cut \/ UNCHANGED vars
    BY <1>7 DEF Run, Edit, InstallModules, Cut, vars, Ended
  <1> QED
    BY <1>1, <1>2, <1>3, <1>4, <1>5, <1>6, <1>7 DEF Next, Script, Reads

\* Past the conversions no other settings for Jest are left than the kit's.
LEMMA OnlyKitJest ==
    ASSUME RunInv, Progress, phase \in AfterScripts
    PROVE  (\A k \in Kit : disk[k] \in {"kit", "ts-jest"}) /\ JestConfigs(disk) = {Config}
  <1>1. disk["jest.config"] \in {"absent", "theirs"}
    BY OthersAreItems, OthersAllowed DEF RunInv, TypeOK, Disks
  <1>2. /\ \A k \in Kit : disk[k] \in {"kit", "ts-jest"}
        /\ disk["jest.config"] # "theirs" /\ disk["jest.key"] = "absent"
    BY DEF RunInv, InPlace, Checked, Progress, AfterCopy, AfterVitest, AfterKey, AfterProject,
       AfterScripts
  <1>3. disk[Config] # "absent"
    BY <1>2, KitInstallerAssumption
  <1> QED
    BY <1>1, <1>2, <1>3 DEF JestConfigs

\* Done means complete: every file, one runner, settings, scripts and packages.
THEOREM DoneMeansComplete == Spec => []DoneIsComplete
  <1>1. Init => Progress
    BY DEF Init, Progress, AfterVitest, AfterKey, AfterProject, AfterScripts
  <1>2. RunInv /\ Progress /\ [Next]_vars => Progress'
    BY ProgressNext DEF RunInv
  <1>3. RunInv /\ Progress => DoneIsComplete
    <2> SUFFICES ASSUME RunInv, Progress, phase = "done" PROVE Complete
      BY DEF DoneIsComplete
    <2>1. (\A k \in Kit : disk[k] \in {"kit", "ts-jest"}) /\ JestConfigs(disk) = {Config}
      BY OnlyKitJest DEF AfterScripts
    <2> QED
      BY <2>1 DEF Progress, Complete, AfterVitest, AfterKey, AfterProject, AfterScripts
  <1> QED
    BY <1>1, <1>2, <1>3, RunAlways, PTL DEF Spec

\* A service is without a runner only between the first copy and the installation, wherever a run
\* is cut, and its old settings are gone only with the whole kit in place.
THEOREM RunnerlessOnlyInTheGap == Spec => []RunnerlessHasACause
  <1> DEFINE IsCut == phase = "cut"
             Explained == Runnerless =>
                              \/ phase \in Gap
                              \/ phase = "cut" /\ cuts \cap Gap # {}
                              \/ phase = "done" /\ ~opts.install
  <1>1. Init => Progress /\ Explained
    BY DEF Init, Progress, AfterVitest, AfterKey, AfterProject, AfterScripts, Runnerless
  <1>2. RunInv /\ Progress /\ [Next]_vars => Progress'
    BY ProgressNext DEF RunInv
  <1>3. RunInv /\ Progress /\ ~IsCut => Explained
    <2> SUFFICES ASSUME RunInv, Progress, phase # "cut", phase \notin Gap,
                        ~(phase = "done" /\ ~opts.install), CanTest(before)
                 PROVE  CanTest(disk)
      BY DEF Runnerless
    <2>1. CASE phase \in ReadOnly \cup {"idle", "refused"}
      BY <2>1 DEF RunInv, Unread
    <2>2. CASE phase = "check" \/ (phase = "done" /\ opts.install)
      <3>1. (\A k \in Kit : disk[k] \in {"kit", "ts-jest"}) /\ JestConfigs(disk) = {Config}
        BY <2>2, OnlyKitJest DEF AfterScripts
      <3>2. Packages(disk)
        BY <2>2 DEF Progress
      <3> QED
        BY <3>1, <3>2 DEF CanTest, KitJest
    <2> QED
      BY <2>1, <2>2 DEF RunInv, TypeOK, Ended, Gap, ReadOnly
  <1>4. Explained /\ [Next]_vars /\ IsCut' => Explained'
    <2> SUFFICES ASSUME Explained, [Next]_vars, phase' = "cut"
                 PROVE  Explained'
      OBVIOUS
    <2>1. CASE Cut
      BY <2>1 DEF Cut, Runnerless, Ended, Sections
    <2>2. CASE UNCHANGED vars
      BY <2>2 DEF vars, Runnerless
    <2>3. CASE Next /\ ~Cut
      <3>1. phase' # "cut"
        BY <2>3 DEF Next, Run, Edit, InstallModules, Script, Preflight, Download, Accept, Refuse,
           Copied, NothingToConvert, KeepProject, NoExamples, NoStryker, Finish, Keep, Put, Copy,
           RemoveVitestConfigs, ConvertPackage, ConvertTypes, RemoveJestKey, CopyProject,
           FillProject, ClearExamples, LayExamples, FitExamples, ChooseCompiler, AddTestConfig,
           ExcludeTests, AddScripts, AddStryker, Install
      <3> QED
        BY <3>1
    <2> QED
      BY <2>1, <2>2, <2>3
  <1>5. RunInv /\ Explained => RunnerlessHasACause
    BY DEF RunInv, RunnerInv, GoneInPlace, RunnerlessHasACause
  <1>6. Spec => []Progress
    BY <1>1, <1>2, RunAlways, PTL DEF Spec
  <1> HIDE DEF IsCut, Explained
  <1> QED
    BY <1>1, <1>3, <1>4, <1>5, <1>6, RunAlways, PTL DEF Spec

-----------------------------------------------------------------------------
(***************************************************************************)
(* What an interruption leaves behind, and what it can be found by.        *)
(***************************************************************************)
CauseInv ==
    /\ disk["project"] = "template" => phase = "fill" \/ "fill" \in cuts
    /\ disk["examples"] = "empty" => phase = "lay" \/ "lay" \in cuts
    /\ disk["examples"] = "copied" => phase = "fit" \/ "fit" \in cuts
    /\ disk["types"] = "vitest" /\ disk["vitest"] = "absent" => phase = "types" \/ "types" \in cuts

Settled ==
    accepted =>
        /\ disk["jest.config"] # "theirs" /\ disk["jest.key"] # "theirs"
        /\ UsesVitest /\ ~IsTemplate =>
               phase = "package" \/ "package" \in cuts \/ disk["vitest"] = "dependency"

LEMMA EditWrites ==
    ASSUME TypeOK, NEW i \in Editable, NEW new \in {"absent", "theirs"}, Edit(i, new)
    PROVE  /\ \A j \in Others \ {"project", "jest.config"} : disk'[j] = disk[j]
           /\ disk'["project"] \in {disk["project"], "absent", "theirs"}
           /\ phase \in Ended /\ cuts' = cuts /\ accepted' = FALSE
  <1>1. i \in Kit \cup {"jest.config", "project"} /\ i \in Items
    BY KitInstallerAssumption, OthersAreItems DEF Items
  <1>2. disk' = [disk EXCEPT ![i] = new] /\ disk \in [Items -> Contents]
    BY DEF Edit, TypeOK, Disks
  <1>3. \A j \in Others \ {"project", "jest.config"} : j # i /\ j \in Items
    BY <1>1, Apart DEF Items
  <1> QED
    BY <1>1, <1>2, <1>3, OthersAreItems DEF Edit

LEMMA CauseNext ==
    ASSUME TypeOK, CauseInv, [Next]_vars
    PROVE  CauseInv'
  <1> USE DEF CauseInv
  <1> DEFINE Watched == {"project", "examples", "types", "vitest"}
  <1>0. Watched \subseteq Items /\ Watched \subseteq Others /\ Base \notin Watched
    BY OthersAreItems, KitInstallerAssumption, Apart DEF Others
  <1>1. CASE Script
    <2>0. cuts' = cuts
      BY <1>1, ScriptHistory
    <2>1. CASE Reads
      BY <2>0, <2>1, ReadsWriteNothing DEF Reads, Preflight, Download, Accept, Refuse, Copied,
         NothingToConvert, KeepProject, NoExamples, NoStryker, Finish, Keep
    <2>2. CASE Copy
      <3>1. KitFiles[copied'] \notin Watched
        BY <1>0, <2>2, CopyWrites, Apart
      <3> QED
        BY <1>0, <2>0, <2>2, <3>1, CopyWrites DEF Writes
    <2>3. CASE RemoveVitestConfigs \/ ConvertPackage \/ ConvertTypes \/ RemoveJestKey
      BY <1>0, <2>0, <2>3, RunnerWrites DEF Writes
    <2>4. CASE CopyProject \/ FillProject \/ ClearExamples \/ LayExamples \/ FitExamples
      BY <1>0, <2>0, <2>4, ProjectWrites DEF Writes
    <2>5. CASE ChooseCompiler \/ AddTestConfig \/ ExcludeTests \/ AddScripts \/ AddStryker
      BY <1>0, <2>0, <2>5, ConfigWrites DEF Writes
    <2>6. CASE Install
      BY <1>0, <2>0, <2>6, InstallWrites DEF Writes
    <2> QED
      BY <1>1, <2>1, <2>2, <2>3, <2>4, <2>5, <2>6 DEF Script, Reads
  <1>2. ASSUME NEW o \in Offered, Run(o) PROVE CauseInv'
    BY <1>2 DEF Run, Ended
  <1>3. ASSUME NEW i \in Editable, NEW new \in {"absent", "theirs"}, Edit(i, new) PROVE CauseInv'
    BY <1>3, EditWrites DEF Ended, Others
  <1>4. CASE InstallModules
    BY <1>0, <1>4 DEF InstallModules, TypeOK, Disks, Ended
  <1>5. CASE Cut \/ UNCHANGED vars
    BY <1>5 DEF Cut, vars
  <1> QED
    BY <1>1, <1>2, <1>3, <1>4, <1>5 DEF Next

LEMMA CauseInit == Init => CauseInv
  <1> SUFFICES ASSUME Init PROVE CauseInv
    OBVIOUS
  <1>1. IsService(disk)
    BY KitInstallerAssumption DEF Init
  <1> QED
    BY <1>1 DEF IsService, CauseInv

\* Half-done work is found between runs only where a run was cut while doing it.
THEOREM LeftoversAreExplained == Spec => []LeftoversHaveACause
  <1>1. CauseInv => LeftoversHaveACause
    BY DEF CauseInv, LeftoversHaveACause, Ended
  <1>2. RunInv /\ CauseInv /\ [Next]_vars => CauseInv'
    BY CauseNext DEF RunInv
  <1> QED
    BY <1>1, <1>2, CauseInit, RunAlways, PTL DEF Spec

LEMMA SettledNext ==
    ASSUME TypeOK, Checked, Settled, [Next]_vars
    PROVE  Settled'
  <1> USE DEF Settled, UsesVitest, IsTemplate
  <1> DEFINE Watched == {"jest.config", "jest.key", "vitest", "vitest.config"}
  <1>0. Watched \subseteq Items /\ Watched \subseteq Others /\ Base \notin Watched
    BY OthersAreItems, KitInstallerAssumption, Apart DEF Others
  <1>1. CASE Script
    <2>0. cuts' = cuts
      BY <1>1, ScriptHistory
    <2>1. CASE Accept
      BY <2>0, <2>1 DEF Accept, Keep, Checked, Unacceptable
    <2>2. CASE Reads /\ ~Accept
      BY <2>0, <2>2, ReadsWriteNothing DEF Reads, Preflight, Download, Refuse, Copied, history,
         NothingToConvert, KeepProject, NoExamples, NoStryker, Finish, Keep
    <2>3. CASE ~Reads
      <3>0. accepted' = accepted
        BY <1>1, <2>3 DEF Script, Reads, history, Copy, RemoveVitestConfigs, ConvertPackage,
           ConvertTypes, RemoveJestKey, CopyProject, FillProject, ClearExamples, LayExamples,
           FitExamples, ChooseCompiler, AddTestConfig, ExcludeTests, AddScripts, AddStryker, Install
      <3>2. CASE Copy
        <4>1. KitFiles[copied'] \notin Watched
          BY <1>0, <3>2, CopyWrites, Apart
        <4> QED
          BY <1>0, <2>0, <3>0, <3>2, <4>1, CopyWrites DEF Writes
      <3>3. CASE RemoveVitestConfigs \/ ConvertPackage \/ ConvertTypes \/ RemoveJestKey
        BY <1>0, <2>0, <3>0, <3>3, RunnerWrites DEF Writes
      <3>4. CASE CopyProject \/ FillProject \/ ClearExamples \/ LayExamples \/ FitExamples
        BY <1>0, <2>0, <3>0, <3>4, ProjectWrites DEF Writes
      <3>5. CASE ChooseCompiler \/ AddTestConfig \/ ExcludeTests \/ AddScripts \/ AddStryker
        BY <1>0, <2>0, <3>0, <3>5, ConfigWrites DEF Writes
      <3>6. CASE Install
        BY <1>0, <2>0, <3>0, <3>6, InstallWrites DEF Writes
      <3> QED
        BY <1>1, <2>3, <3>2, <3>3, <3>4, <3>5, <3>6 DEF Script, Reads
    <2> QED
      BY <2>1, <2>2, <2>3
  <1>2. ASSUME NEW o \in Offered, Run(o) PROVE Settled'
    BY <1>2 DEF Run, Ended
  <1>3. ASSUME NEW i \in Editable, NEW new \in {"absent", "theirs"}, Edit(i, new) PROVE Settled'
    BY <1>3, EditWrites
  <1>4. CASE InstallModules
    BY <1>0, <1>4 DEF InstallModules, TypeOK, Disks, Ended
  <1>5. CASE Cut \/ UNCHANGED vars
    BY <1>5 DEF Cut, vars
  <1> QED
    BY <1>1, <1>2, <1>3, <1>4, <1>5 DEF Next

\* Only a cut in the middle of the conversion, or Vitest among the dependencies, makes the script
\* refuse what it accepted.
THEOREM RefusalsAreExplained == Spec => []RefusalHasACause
  <1> DEFINE Refusal == phase = "refused" /\ opts.force /\ accepted =>
                            "package" \in cuts \/ disk["vitest"] = "dependency"
  <1>1. Init => Settled /\ Refusal
    BY DEF Init, Settled
  <1>2. RunInv /\ Settled /\ [Next]_vars => Settled'
    BY SettledNext DEF RunInv
  <1>3. Settled /\ Refusal /\ [Next]_vars => Refusal'
    <2> SUFFICES ASSUME Settled, Refusal, [Next]_vars, phase' = "refused", opts'.force, accepted'
                 PROVE  "package" \in cuts' \/ disk'["vitest"] = "dependency"
      OBVIOUS
    <2>1. CASE Refuse
      BY <2>1 DEF Refuse, history, Settled, Unacceptable
    <2>2. CASE Script /\ ~Refuse
      <3>1. phase' # "refused"
        BY <2>2 DEF Script, Preflight, Download, Accept, Copied, NothingToConvert, KeepProject,
           NoExamples, NoStryker, Finish, Keep, Put, Copy, RemoveVitestConfigs, ConvertPackage,
           ConvertTypes, RemoveJestKey, CopyProject, FillProject, ClearExamples, LayExamples,
           FitExamples, ChooseCompiler, AddTestConfig, ExcludeTests, AddScripts, AddStryker, Install
      <3> QED
        BY <3>1
    <2>3. CASE \/ \E o \in Offered : Run(o)
               \/ \E i \in Editable, new \in {"absent", "theirs"} : Edit(i, new)
               \/ InstallModules \/ Cut \/ UNCHANGED vars
      BY <2>3 DEF Run, Edit, InstallModules, Cut, vars
    <2> QED
      BY <2>1, <2>2, <2>3 DEF Next
  <1>4. Refusal => RefusalHasACause
    BY DEF RefusalHasACause
  <1> QED
    BY <1>1, <1>2, <1>3, <1>4, RunAlways, PTL DEF Spec

-----------------------------------------------------------------------------
(***************************************************************************)
(* The developer's own work.                                               *)
(***************************************************************************)
\* Without --force a run that was accepted found no file, and no examples, of anyone's.
OwnInv ==
    /\ phase \in {"copy"} \cup AfterCopy /\ ~opts.force => \A k \in Kit : disk[k] # "theirs"
    /\ phase \in {"copy", "convert", "package", "types", "key", "project", "fill", "examples"}
            /\ ~opts.force /\ opts.examples => disk["examples"] # "theirs"
    /\ phase = "fill" => disk["project"] = "template"
    /\ phase = "lay" => disk["examples"] = "empty"
    /\ phase = "fit" => disk["examples"] = "copied"

LEMMA OwnNext ==
    ASSUME TypeOK, OwnInv, [Next]_vars
    PROVE  OwnInv'
  <1> USE DEF OwnInv, AfterCopy, AfterVitest, AfterKey, AfterProject, AfterScripts
  <1>0. /\ Kit \subseteq Items /\ \A k \in Kit : k \notin Others
        /\ {"project", "examples"} \subseteq Items /\ Base \in Kit
        /\ {"project", "examples"} \subseteq Others
    BY OthersAreItems, Apart, KitInstallerAssumption DEF Items, Others
  <1>1. CASE Script
    <2>0. opts' = opts
      BY <1>1, ScriptHistory
    <2>1. CASE Accept
      BY <2>0, <2>1 DEF Accept, Keep, Conflicts
    <2>2. CASE Reads /\ ~Accept
      BY <2>0, <2>2, ReadsWriteNothing DEF Reads, Preflight, Download, Refuse, Copied,
         NothingToConvert, KeepProject, NoExamples, NoStryker, Finish, Keep
    <2>3. CASE Copy
      <3>1. KitFiles[copied'] \notin {"project", "examples"}
        BY <1>0, <2>3, CopyWrites
      <3> QED
        BY <1>0, <2>0, <2>3, <3>1, CopyWrites DEF Writes
    <2>4. CASE RemoveVitestConfigs \/ ConvertPackage \/ ConvertTypes \/ RemoveJestKey
      BY <1>0, <2>0, <2>4, RunnerWrites DEF Writes, Others
    <2>5. CASE CopyProject \/ FillProject \/ ClearExamples \/ LayExamples \/ FitExamples
      BY <1>0, <2>0, <2>5, ProjectWrites DEF Writes
    <2>6. CASE ChooseCompiler \/ AddTestConfig \/ ExcludeTests \/ AddScripts \/ AddStryker
      BY <1>0, <2>0, <2>6, ConfigWrites DEF Writes, Others
    <2>7. CASE Install
      BY <1>0, <2>0, <2>7, InstallWrites DEF Writes, Others
    <2> QED
      BY <1>1, <2>1, <2>2, <2>3, <2>4, <2>5, <2>6, <2>7 DEF Script, Reads
  <1>2. CASE \/ \E o \in Offered : Run(o)
             \/ \E i \in Editable, new \in {"absent", "theirs"} : Edit(i, new)
             \/ InstallModules \/ Cut \/ UNCHANGED vars
    BY <1>2 DEF Run, Edit, InstallModules, Cut, vars
  <1> QED
    BY <1>1, <1>2 DEF Next

\* The Vitest configs go in a run that found a template, or what passes for one.
TemplateInv ==
    /\ phase \in ReadOnly \cup {"copy", "convert"} => disk["vitest.config"] = before["vitest.config"]
    /\ phase = "package" => before["vitest.config"] \in {"template", "extended"}

LEMMA TemplateNext ==
    ASSUME TypeOK, Checked, TemplateInv, [Next]_vars
    PROVE  TemplateInv'
  <1> USE DEF TemplateInv, ReadOnly
  <1>0. "vitest.config" \in Items /\ "vitest.config" \in Others
    BY OthersAreItems DEF Others
  <1>a. Script => before' = before
    BY ScriptHistory
  <1>1. CASE Reads
    BY <1>a, <1>1, ReadsWriteNothing DEF Script, Reads, Preflight, Download, Accept, Refuse, Copied,
       NothingToConvert, KeepProject, NoExamples, NoStryker, Finish, Keep
  <1>2. CASE Copy
    <2>1. KitFiles[copied'] # "vitest.config"
      BY <1>0, <1>2, CopyWrites, Apart
    <2> QED
      BY <1>0, <1>a, <1>2, <2>1, CopyWrites DEF Writes, Script
  <1>3. CASE RemoveVitestConfigs
    <2>1. phase = "convert" /\ phase' = "package" /\ UsesVitest
      BY <1>3 DEF RemoveVitestConfigs, Put
    <2>2. disk["vitest.config"] \in {"template", "extended"}
      BY <2>1 DEF Checked, Unacceptable, IsTemplate
    <2> QED
      BY <1>a, <1>3, <2>1, <2>2 DEF Script
  <1>4. CASE ConvertPackage \/ ConvertTypes \/ RemoveJestKey
    BY <1>4, RunnerWrites DEF Writes
  <1>5. CASE CopyProject \/ FillProject \/ ClearExamples \/ LayExamples \/ FitExamples
    BY <1>5, ProjectWrites DEF Writes
  <1>6. CASE ChooseCompiler \/ AddTestConfig \/ ExcludeTests \/ AddScripts \/ AddStryker \/ Install
    BY <1>6, ConfigWrites, InstallWrites DEF Writes
  <1>7. CASE \/ \E o \in Offered : Run(o)
             \/ \E i \in Editable, new \in {"absent", "theirs"} : Edit(i, new)
             \/ InstallModules \/ Cut \/ UNCHANGED vars
    BY <1>7 DEF Run, Edit, InstallModules, Cut, vars
  <1> QED
    BY <1>1, <1>2, <1>3, <1>4, <1>5, <1>6, <1>7 DEF Next, Script, Reads

LEMMA NothingOwnIsLost ==
    ASSUME RunInv, OwnInv, TemplateInv, [Next]_vars, phase \in Sections
    PROVE  ~LosesOwnWork
  <1> SUFFICES ASSUME NEW i \in Items \ {"ignore"}, disk[i] = "theirs", disk'[i] # "theirs",
                      ~TakenForGenerated(i)
               PROVE  opts.force /\ i \in Replaceable
    BY DEF LosesOwnWork, Loses, Own, TakenForGenerated
  <1> USE DEF AfterCopy, AfterVitest, AfterKey, AfterProject, AfterScripts
  <1>0. TypeOK /\ Checked /\ InPlace
    BY DEF RunInv
  <1>1. CASE Reads
    BY <1>1, ReadsWriteNothing
  <1>2. CASE Copy
    BY <1>0, <1>2, CopyWrites DEF Writes, OwnInv, Replaceable
  <1>3. CASE RemoveVitestConfigs \/ ConvertPackage \/ ConvertTypes \/ RemoveJestKey
    <2>1. disk["vitest"] \in {"absent", "vitest", "dependency"}
      BY <1>0, OthersAllowed, OthersAreItems DEF TypeOK, Disks
    <2>2. RemoveVitestConfigs => IsTemplate
      BY <1>0 DEF RemoveVitestConfigs, Put, Checked, Unacceptable
    <2>3. ConvertPackage => i # "vitest.scripts"
      BY DEF ConvertPackage, TemplateInv, TakenForGenerated
    <2> QED
      BY <1>0, <1>3, <2>1, <2>2, <2>3, RunnerWrites DEF Writes, Checked, IsTemplate
  <1>4. CASE CopyProject \/ FillProject \/ ClearExamples \/ LayExamples \/ FitExamples
    BY <1>0, <1>4, ProjectWrites DEF Writes, OwnInv, Replaceable
  <1>5. CASE ChooseCompiler \/ AddTestConfig \/ ExcludeTests \/ AddScripts \/ AddStryker
    <2>1. disk["exclude"] \in {"absent", "tests", "examples"}
      BY <1>0, OthersAllowed, OthersAreItems DEF TypeOK, Disks
    <2>2. phase = "compiler" => disk[Base] \in {"kit", "ts-jest"}
      BY <1>0, KitInstallerAssumption DEF InPlace
    <2> QED
      BY <1>0, <1>5, <2>1, <2>2, ConfigWrites DEF Writes, Replaceable
  <1>6. CASE Install
    BY <1>0, <1>6, InstallWrites DEF Writes
  <1>7. CASE \/ \E o \in Offered : Run(o)
             \/ \E e \in Editable, new \in {"absent", "theirs"} : Edit(e, new)
             \/ InstallModules \/ Cut \/ UNCHANGED vars
    BY <1>7 DEF Run, Edit, InstallModules, Cut, vars, Ended, Sections
  <1> QED
    BY <1>1, <1>2, <1>3, <1>4, <1>5, <1>6, <1>7 DEF Next, Script, Reads

\* What a developer wrote is lost to --force, or where the script takes it for generated; project.ts
\* and settings it does not take for generated never are.
THEOREM DevelopersKeepTheirWork == Spec => OwnWorkIsKept
  <1>1. Init => OwnInv /\ TemplateInv
    BY DEF Init, OwnInv, TemplateInv, AfterCopy, AfterVitest, AfterKey, AfterProject, AfterScripts
  <1>2. RunInv /\ OwnInv /\ [Next]_vars => OwnInv'
    BY OwnNext DEF RunInv
  <1>3. RunInv /\ TemplateInv /\ [Next]_vars => TemplateInv'
    BY TemplateNext DEF RunInv
  <1>4. RunInv /\ OwnInv /\ TemplateInv /\ [Next]_vars => [LosesOwnWork => phase \notin Sections]_vars
    BY NothingOwnIsLost
  <1> QED
    BY <1>1, <1>2, <1>3, <1>4, RunAlways, PTL DEF Spec, OwnWorkIsKept

-----------------------------------------------------------------------------
(***************************************************************************)
(* Running it again.  Each section leaves what makes it leave the same     *)
(* things alone the next time.                                             *)
(***************************************************************************)
LEMMA ConfigSettles ==
    ASSUME TypeOK
    PROVE  /\ ChooseCompiler => disk'[Base] = IF facts.orm /\ disk["modules"] # "absent" THEN "ts-jest"
                                                                                      ELSE disk[Base]
           /\ AddTestConfig => /\ facts.narrow => disk'["tsconfig.test"] # "absent"
                               /\ facts.narrow => disk["tsconfig.test"] \in {"absent", disk'["tsconfig.test"]}
                               /\ ~facts.narrow => disk' = disk
           /\ ExcludeTests => /\ facts.narrow /\ facts.builds =>
                                   \/ disk'["exclude"] = "examples"
                                   \/ disk'["exclude"] = "tests" /\ ~opts.examples
                              /\ Excluded \/ ~facts.narrow \/ ~facts.builds => disk' = disk
           /\ AddScripts => /\ disk["scripts"] \in {"absent", disk'["scripts"]}
                            /\ disk'["ignore"] # "theirs"
                            /\ disk["ignore"] \in {"theirs", disk'["ignore"]}
  <1>1. {"tsconfig.test", "exclude", "scripts", "ignore"} \subseteq Items /\ Base \in Items
    BY OthersAreItems, KitInstallerAssumption DEF Items
  <1>2. disk \in [Items -> Contents]
    BY DEF TypeOK, Disks
  <1>3. ChooseCompiler => disk'[Base] = IF facts.orm /\ disk["modules"] # "absent" THEN "ts-jest"
                                                                                ELSE disk[Base]
    BY <1>1, <1>2 DEF ChooseCompiler, Put, Keep
  <1>4. AddTestConfig => /\ facts.narrow => disk'["tsconfig.test"] # "absent"
                         /\ facts.narrow => disk["tsconfig.test"] \in {"absent", disk'["tsconfig.test"]}
                         /\ ~facts.narrow => disk' = disk
    BY <1>1, <1>2 DEF AddTestConfig, Put, Keep
  <1>5. ExcludeTests => /\ facts.narrow /\ facts.builds =>
                             \/ disk'["exclude"] = "examples"
                             \/ disk'["exclude"] = "tests" /\ ~opts.examples
                        /\ Excluded \/ ~facts.narrow \/ ~facts.builds => disk' = disk
    BY <1>1, <1>2 DEF ExcludeTests, Excluded, Put, Keep
  <1>6. AddScripts => /\ disk["scripts"] \in {"absent", disk'["scripts"]}
                      /\ disk'["ignore"] # "theirs"
                      /\ disk["ignore"] \in {"theirs", disk'["ignore"]}
    BY <1>1, <1>2 DEF AddScripts
  <1> QED
    BY <1>3, <1>4, <1>5, <1>6

LEMMA StrykerSettles ==
    ASSUME TypeOK, AddStryker
    PROVE  /\ opts.mutation
           /\ disk'["ignore"] = "stryker" /\ disk'["stryker"] # "absent"
           /\ opts.force => disk'["stryker"] = "kit"
           /\ disk["stryker"] # "absent" /\ ~opts.force => disk'["stryker"] = disk["stryker"]
  <1>1. {"ignore", "stryker"} \subseteq Items
    BY OthersAreItems
  <1> QED
    BY <1>1 DEF AddStryker, TypeOK, Disks

LEMMA InstallSettles ==
    ASSUME TypeOK, Install
    PROVE  /\ disk'["modules"] # "absent"
           /\ disk["jest"] \in {"absent", disk'["jest"]}
           /\ disk["swc"] \in {"absent", disk'["swc"]}
           /\ disk["ts-jest"] # "absent" \/ disk[Base] # "ts-jest" => disk'["ts-jest"] = disk["ts-jest"]
  <1>1. {"modules", "jest", "swc", "ts-jest"} \subseteq Items
    BY OthersAreItems
  <1> QED
    BY <1>1 DEF Install, TypeOK, Disks

-----------------------------------------------------------------------------
AfterConfig   == {"exclude", "scripts", "mutation", "install", "check"}
AfterCompiler == {"tsconfig"} \cup AfterConfig
Building      == {"convert", "package", "types", "key", "project", "fill", "examples", "lay", "fit",
                  "compiler"}

\* What the sections passed have settled of a directory d, for options o; seen: node_modules was
\* there when the run began.
Places(d, seen) ==
    /\ \A k \in Kit \ {Base} : d[k] = "kit"
    /\ ~facts.orm => d[Base] = "kit"
    /\ facts.orm /\ seen => d[Base] = "ts-jest"

Excludes(d, o) ==
    facts.narrow /\ facts.builds => d["exclude"] = "examples" \/ (d["exclude"] = "tests" /\ ~o.examples)

Adds(d, o) ==
    o.mutation => /\ d["ignore"] = "stryker" /\ d["stryker"] # "absent"
                  /\ o.force => d["stryker"] = "kit"

\* What a run leaves that ends well: nothing for the next one to do.
Finished(d, o, seen) ==
    /\ d["vitest"] # "absent" => d["vitest"] = "dependency" /\ d["vitest.config"] = "absent"
    /\ d["jest.key"] = "absent"
    /\ d["project"] # "absent" /\ d["scripts"] # "absent" /\ d["ignore"] # "theirs"
    /\ o.examples => d["examples"] = "fitted"
    /\ facts.narrow => d["tsconfig.test"] # "absent"
    /\ Places(d, seen) /\ Excludes(d, o) /\ Adds(d, o)
    /\ seen => d["modules"] # "absent"
    /\ o.install => d["jest"] # "absent" /\ d["swc"] # "absent"
                    /\ (d[Base] = "ts-jest" => d["ts-jest"] # "absent")

Seen == before["modules"] # "absent"

\* What the run at hand has done, beyond what Progress says.
WorkInv ==
    /\ phase \in Sections \ {"check"} => disk["modules"] = before["modules"]
    /\ phase \in Sections /\ Seen => disk["modules"] # "absent"
    /\ phase \in Building => \A k \in Kit : disk[k] = "kit"
    /\ phase \in AfterCompiler => Places(disk, Seen)
    /\ phase \in {"lay", "fit"} => opts.examples
    /\ phase \in {"compiler"} \cup AfterCompiler /\ opts.examples => disk["examples"] = "fitted"
    /\ phase \in AfterConfig /\ facts.narrow => disk["tsconfig.test"] # "absent"
    /\ phase \in AfterConfig \ {"exclude"} => Excludes(disk, opts)
    /\ phase \in {"mutation", "install", "check"} => disk["ignore"] # "theirs"
    /\ phase \in {"install", "check"} => Adds(disk, opts)

Watching == {"modules", "examples", "tsconfig.test", "exclude", "ignore", "stryker"}

LEMMA WatchedItems ==
    /\ Watching \subseteq Items /\ Watching \subseteq Others
    /\ Kit \subseteq Items /\ \A k \in Kit : k \notin Others
    /\ Base \in Kit
  BY OthersAreItems, Apart, KitInstallerAssumption DEF Items, Others, Watching

LEMMA WorkNext ==
    ASSUME TypeOK, InPlace, WorkInv, [Next]_vars
    PROVE  WorkInv'
  <1> USE DEF WorkInv, Sections, Building, AfterCompiler, AfterConfig, Seen
  <1>1. CASE Script
    <2>0. opts' = opts /\ facts' = facts /\ before' = before
      BY <1>1, ScriptHistory
    <2>1. CASE Copied
      <3>1. copied = Len(KitFiles) /\ phase = "copy" /\ disk' = disk /\ phase' = "convert"
        BY <2>1 DEF Copied, Keep
      <3>2. \A k \in Kit : disk[k] = "kit"
        BY <3>1, FilesInKit DEF InPlace
      <3> QED
        BY <2>0, <3>1, <3>2
    <2>2. CASE Reads /\ ~Copied
      BY <2>0, <2>2, ReadsWriteNothing DEF Reads, Preflight, Download, Accept, Refuse, Places, Excludes,
         Adds, NothingToConvert, KeepProject, NoExamples, NoStryker, Finish, Keep
    <2>3. CASE Copy
      <3>1. phase = "copy" /\ phase' = "copy" /\ disk'["modules"] = disk["modules"]
        BY <2>3, CopyWrites, WatchedItems DEF Writes, Watching
      <3> QED
        BY <2>0, <3>1
    <2>4. CASE RemoveVitestConfigs \/ ConvertPackage \/ ConvertTypes \/ RemoveJestKey
      BY <2>0, <2>4, RunnerWrites, WatchedItems DEF Writes, Watching, Others
    <2>5. CASE CopyProject \/ FillProject \/ ClearExamples \/ LayExamples \/ FitExamples
      BY <2>0, <2>5, ProjectWrites, WatchedItems DEF Writes, Watching, Others
    <2>6. CASE ChooseCompiler
      BY <2>0, <2>6, ConfigWrites, ConfigSettles, WatchedItems DEF Writes, Watching, Others, Places
    <2>7. CASE AddTestConfig
      BY <2>0, <2>7, ConfigWrites, ConfigSettles, WatchedItems DEF Writes, Watching, Others, Places
    <2>8. CASE ExcludeTests
      BY <2>0, <2>8, ConfigWrites, ConfigSettles, WatchedItems
         DEF Writes, Watching, Others, Places, Excludes
    <2>9. CASE AddScripts
      BY <2>0, <2>9, ConfigWrites, ConfigSettles, WatchedItems
         DEF Writes, Watching, Others, Places, Excludes
    <2>10. CASE AddStryker
      BY <2>0, <2>10, ConfigWrites, StrykerSettles, WatchedItems
         DEF Writes, Watching, Others, Places, Excludes, Adds
    <2>11. CASE Install
      BY <2>0, <2>11, InstallWrites, InstallSettles, WatchedItems
         DEF Writes, Watching, Others, Places, Excludes, Adds
    <2> QED
      BY <1>1, <2>1, <2>2, <2>3, <2>4, <2>5, <2>6, <2>7, <2>8, <2>9, <2>10, <2>11 DEF Script, Reads
  <1>2. ASSUME NEW o \in Offered, Run(o) PROVE WorkInv'
    BY <1>2 DEF Run
  <1>3. CASE \/ \E i \in Editable, new \in {"absent", "theirs"} : Edit(i, new)
             \/ InstallModules \/ Cut
    BY <1>3 DEF Edit, InstallModules, Cut
  <1>4. CASE UNCHANGED vars
    BY <1>4 DEF vars, Places, Excludes, Adds
  <1> QED
    BY <1>1, <1>2, <1>3, <1>4 DEF Next

-----------------------------------------------------------------------------
(***************************************************************************)
(* A run that repeats the last one: what it may have changed so far.  Sure *)
(* is that the last one chose the compiler this one chooses.               *)
(***************************************************************************)
Sure == ready.modules \/ ~facts.orm

Redone == {Base, "ts-jest", "modules"} \cup (IF phase \in {"lay", "fit"} THEN {"examples"} ELSE {})

Repeating ==
    /\ phase \notin {"package", "types", "fill"}
    /\ SameBut(Redone)
    /\ phase # "check" \/ Sure => disk["ts-jest"] = ready.disk["ts-jest"]
    /\ phase \in AfterCompiler /\ Sure => disk[Base] = ready.disk[Base]

AgainInv ==
    ready.known =>
        /\ Finished(ready.disk, ready.opts, ready.modules)
        /\ ready.disk["modules"] # "absent" => disk["modules"] # "absent"
        /\ phase \in Ended \cup ReadOnly => SameBut({"modules"})
        /\ phase \in Sections /\ opts = ready.opts => Repeating

\* Once there, node_modules stays.
LEMMA ModulesStay ==
    ASSUME TypeOK, [Next]_vars, disk["modules"] # "absent"
    PROVE  disk'["modules"] # "absent"
  <1>1. CASE Reads
    BY <1>1, ReadsWriteNothing
  <1>2. CASE Copy
    BY <1>2, CopyWrites, WatchedItems DEF Writes, Watching
  <1>3. CASE RemoveVitestConfigs \/ ConvertPackage \/ ConvertTypes \/ RemoveJestKey
    BY <1>3, RunnerWrites, WatchedItems DEF Writes, Watching
  <1>4. CASE CopyProject \/ FillProject \/ ClearExamples \/ LayExamples \/ FitExamples
    BY <1>4, ProjectWrites, WatchedItems DEF Writes, Watching
  <1>5. CASE ChooseCompiler \/ AddTestConfig \/ ExcludeTests \/ AddScripts \/ AddStryker
    BY <1>5, ConfigWrites, WatchedItems DEF Writes, Watching
  <1>6. CASE Install
    BY <1>6, InstallSettles
  <1>7. ASSUME NEW i \in Editable, NEW new \in {"absent", "theirs"}, Edit(i, new)
        PROVE  disk'["modules"] # "absent"
    BY <1>7, EditWrites, WatchedItems DEF Watching
  <1>8. CASE (\E o \in Offered : Run(o)) \/ InstallModules \/ Cut \/ UNCHANGED vars
    BY <1>8 DEF Run, InstallModules, Cut, vars
  <1> QED
    BY <1>1, <1>2, <1>3, <1>4, <1>5, <1>6, <1>7, <1>8 DEF Next, Script, Reads

\* A run that ends well has left nothing to do.
LEMMA FinishFinishes ==
    ASSUME Progress, WorkInv, Finish
    PROVE  Finished(disk, opts, Seen)
  <1>1. phase \in {"install", "check"} /\ (phase = "install" => ~opts.install)
    BY DEF Finish, Keep
  <1>2. Places(disk, Seen) /\ Excludes(disk, opts) /\ Adds(disk, opts)
    BY <1>1 DEF WorkInv, AfterCompiler, AfterConfig
  <1> QED
    BY <1>1, <1>2 DEF Finished, WorkInv, Progress, Packages, Sections, AfterCompiler, AfterConfig,
       AfterVitest, AfterKey, AfterProject, AfterScripts

\* From where to where a run goes that writes nothing.
LEMMA ReadsMove ==
    ASSUME Reads, phase' \in Sections
    PROVE  /\ disk' = disk
           /\ phase \notin {"lay", "fit", "check"} /\ phase' \notin {"lay", "fit", "check"}
           /\ phase' \notin {"package", "types", "fill"}
           /\ phase' \in AfterCompiler => phase \in AfterCompiler
  <1>1. phase' \notin {"refused", "done"}
    BY DEF Sections
  <1> QED
    BY <1>1, ReadsWriteNothing DEF Reads, Preflight, Download, Accept, Refuse, Copied, NothingToConvert,
       KeepProject, NoExamples, NoStryker, Finish, Keep, AfterCompiler, AfterConfig

\* No section of a run that repeats the last one does more than the last one did.
LEMMA RepeatingNext ==
    ASSUME TypeOK, Checked, WorkInv, Finished(ready.disk, ready.opts, ready.modules),
           opts = ready.opts,
           ready.disk["modules"] # "absent" => disk["modules"] # "absent",
           phase \in Sections, Repeating, Script, ready' = ready, phase' \in Sections
    PROVE  Repeating'
  <1> USE DEF Repeating, Redone, SameBut, AfterCompiler, AfterConfig
  <1> DEFINE Kept == {"vitest", "vitest.config", "jest.key", "project", "scripts", "ts-jest", "swc",
                      "jest"} \cup Watching
  <1>0. Kept \subseteq Items /\ Kept \subseteq Others /\ Base \notin Others
    BY WatchedItems, OthersAreItems DEF Others
  <1>1. facts' = facts /\ opts' = opts
    BY ScriptHistory
  <1>2. CASE Reads
    BY <1>1, <1>2, ReadsMove DEF Sure
  <1>3. CASE Copy
    <2>1. KitFiles[copied'] # Base => ready.disk[KitFiles[copied']] = "kit"
      BY <1>3, CopyWrites DEF Finished, Places
    <2>2. KitFiles[copied'] \in Kit /\ KitFiles[copied'] # "ts-jest"
      BY <1>3, <1>0, CopyWrites, Apart
    <2>3. phase = "copy" /\ phase' = "copy" /\ disk'[KitFiles[copied']] = "kit"
          /\ \A j \in Items \ {KitFiles[copied']} : disk'[j] = disk[j]
      BY <1>3, CopyWrites DEF Writes
    <2> HIDE DEF AfterCompiler, AfterConfig
    <2>4. \A j \in Items \ Redone : disk'[j] = ready.disk[j]
      BY <2>1, <2>3
    <2>5. disk'["ts-jest"] = disk["ts-jest"] /\ Redone' = Redone
      BY <1>0, <2>2, <2>3
    <2> QED
      BY <1>1, <2>3, <2>4, <2>5 DEF AfterCompiler, AfterConfig
  <1>4. CASE RemoveVitestConfigs \/ ConvertPackage \/ ConvertTypes \/ RemoveJestKey
    <2>1. phase # "package" /\ phase # "types"
      OBVIOUS
    <2>a. /\ phase = "convert" => disk["vitest"] = ready.disk["vitest"]
          /\ phase = "convert" => disk["vitest.config"] = ready.disk["vitest.config"]
      BY <1>0 DEF Others
    <2>b. ~RemoveVitestConfigs
      BY <2>a DEF RemoveVitestConfigs, Put, Checked, Unacceptable, UsesVitest, IsTemplate, Finished
    <2>2. RemoveJestKey
      BY <1>4, <2>1, <2>b, RunnerWrites DEF Writes
    <2>3. ready.disk["jest.key"] = "absent"
      BY DEF Finished
    <2>4. Writes("key", "project", {"jest.key"}) /\ disk'["jest.key"] = "absent"
      BY <2>2, RunnerWrites
    <2> QED
      BY <1>0, <1>1, <2>3, <2>4 DEF Writes, Others
  <1>5. CASE CopyProject \/ FillProject \/ ClearExamples \/ LayExamples \/ FitExamples
    <2>1. disk["project"] # "absent" \/ phase # "project"
      BY <1>0 DEF Finished, Others
    <2>2. phase \in {"lay", "fit"} => ready.disk["examples"] = "fitted"
      BY DEF Finished, WorkInv
    <2>3. ~CopyProject /\ ~FillProject
      BY <2>1, ProjectWrites DEF Writes
    <2> QED
      BY <1>0, <1>1, <1>5, <2>2, <2>3, ProjectWrites DEF Writes, Others
  <1>6. CASE ChooseCompiler
    <2>1. Writes("compiler", "tsconfig", {Base})
      BY <1>6, ConfigWrites
    <2>2. Sure => disk'[Base] = ready.disk[Base]
      <3>1. CASE ~facts.orm
        BY <1>6, <2>1, <3>1, ConfigSettles, WatchedItems DEF Finished, Places, WorkInv, Building, Writes
      <3>2. CASE facts.orm /\ ready.modules
        BY <1>6, <3>2, ConfigSettles DEF Finished, Places
      <3> QED
        BY <3>1, <3>2 DEF Sure
    <2> QED
      BY <1>0, <1>1, <2>1, <2>2 DEF Writes, Sure
  <1>7. CASE AddTestConfig \/ ExcludeTests \/ AddScripts
    <2>1. facts.narrow => disk["tsconfig.test"] # "absent"
      BY <1>0, <1>7, ConfigWrites DEF Finished, Writes, Watching, Others
    <2>2. facts.narrow /\ facts.builds /\ phase = "exclude" => Excluded
      BY <1>0 DEF Finished, Excludes, Excluded, Watching, Others
    <2>3. phase = "scripts" => disk["scripts"] # "absent" /\ disk["ignore"] # "theirs"
      BY <1>0 DEF Finished, Watching, Others
    <2>4. \A j \in Items : disk'[j] = disk[j]
      BY <1>7, <2>1, <2>2, <2>3, ConfigWrites, ConfigSettles DEF Writes
    <2> QED
      BY <1>0, <1>1, <1>7, <2>4, ConfigWrites, WatchedItems DEF Writes, Sure
  <1>8. CASE AddStryker
    <2>1. Writes("mutation", "install", {"stryker", "ignore"})
      BY <1>8, ConfigWrites
    <2>2. /\ ready.disk["ignore"] = "stryker" /\ ready.disk["stryker"] # "absent"
          /\ opts.force => ready.disk["stryker"] = "kit"
      BY <1>8, StrykerSettles DEF Finished, Adds
    <2>3. disk["stryker"] = ready.disk["stryker"]
      BY <1>0, <2>1 DEF Writes, Watching, Others
    <2>4. disk'["ignore"] = ready.disk["ignore"] /\ disk'["stryker"] = ready.disk["stryker"]
      BY <1>8, <2>2, <2>3, StrykerSettles
    <2> QED
      BY <1>0, <1>1, <2>1, <2>4, WatchedItems DEF Writes, Sure, Others
  <1>9. CASE Install
    <2>1. Writes("install", "check", {"modules", "jest", "swc", "ts-jest"}) /\ opts.install
      BY <1>9, InstallWrites
    <2>2. disk'["jest"] = ready.disk["jest"] /\ disk'["swc"] = ready.disk["swc"]
      BY <1>0, <1>9, <2>1, InstallSettles DEF Finished, Writes, Others
    <2>3. Sure => disk'["ts-jest"] = ready.disk["ts-jest"]
      BY <1>0, <1>9, <2>1, InstallSettles DEF Finished, Writes, Sure
    <2> QED
      BY <1>0, <1>1, <2>1, <2>2, <2>3, WatchedItems DEF Writes, Sure, Others
  <1> QED
    BY <1>2, <1>3, <1>4, <1>5, <1>6, <1>7, <1>8, <1>9 DEF Script, Reads

LEMMA AgainNext ==
    ASSUME TypeOK, Checked, Progress, WorkInv, AgainInv, [Next]_vars
    PROVE  AgainInv'
  <1>0. /\ ready' = ready /\ facts' = facts /\ Finished(ready.disk, ready.opts, ready.modules)
           => Finished(ready.disk, ready.opts, ready.modules)'
    BY DEF Finished, Places, Excludes, Adds
  <1>1. CASE Finish
    <2>1. ready' = Result /\ disk' = disk /\ facts' = facts /\ phase' = "done"
      BY <1>1 DEF Finish, Keep
    <2>2. Finished(disk, opts, Seen)
      BY <1>1, FinishFinishes
    <2>3. ready'.disk = disk /\ ready'.opts = opts /\ ready'.modules = Seen
      BY <2>1 DEF Result, Seen
    <2>4. Finished(ready.disk, ready.opts, ready.modules)'
      BY <2>1, <2>2, <2>3 DEF Finished, Places, Excludes, Adds
    <2> QED
      BY <2>1, <2>3, <2>4 DEF AgainInv, SameBut, Sections
  <1>2. CASE Script /\ ~Finish
    <2>1. ready' = ready /\ opts' = opts /\ facts' = facts /\ phase \in Sections
      BY <1>2 DEF Script, history, Preflight, Download, Accept, Refuse, Copy, Copied,
         RemoveVitestConfigs, ConvertPackage, ConvertTypes, NothingToConvert, RemoveJestKey,
         KeepProject, CopyProject, FillProject, ClearExamples, LayExamples, FitExamples, NoExamples,
         ChooseCompiler, AddTestConfig, ExcludeTests, AddScripts, AddStryker, NoStryker, Install,
         Keep, Put, Sections
    <2> SUFFICES ASSUME ready.known PROVE AgainInv'
      BY <2>1 DEF AgainInv
    <2>2. /\ Finished(ready.disk, ready.opts, ready.modules)
          /\ ready.disk["modules"] # "absent" => disk["modules"] # "absent"
      BY DEF AgainInv
    <2>3. phase' \in Ended \cup ReadOnly => disk' = disk /\ phase \in ReadOnly
      BY <1>2, ReadsWriteNothing, RunnerWrites, ProjectWrites, ConfigWrites, InstallWrites, CopyWrites
         DEF Script, Reads, Preflight, Download, Accept, Refuse, Copied, NothingToConvert,
         KeepProject, NoExamples, NoStryker, Keep, Writes, Ended, ReadOnly
    <2>4. phase' \in Sections /\ opts = ready.opts => Repeating'
      BY <1>2, <2>1, <2>2, RepeatingNext DEF AgainInv
    <2> QED
      BY <1>0, <2>1, <2>2, <2>3, <2>4, ModulesStay DEF AgainInv, SameBut
  <1>3. ASSUME NEW o \in Offered, Run(o) PROVE AgainInv'
    <2>1. /\ ready' = ready /\ facts' = facts /\ disk' = disk
          /\ phase \in Ended /\ phase' = "preflight"
      BY <1>3 DEF Run
    <2> QED
      BY <1>0, <2>1, WatchedItems, OthersAreItems
         DEF AgainInv, SameBut, Repeating, Redone, AfterCompiler, AfterConfig, Ended
  <1>4. CASE (\E i \in Editable, new \in {"absent", "theirs"} : Edit(i, new)) \/ Cut
    <2>1. ready' = [ready EXCEPT !.known = FALSE] /\ ready \in Results
      BY <1>4 DEF Edit, Cut, TypeOK
    <2>2. ~ready'.known
      BY <2>1 DEF Results
    <2> QED
      BY <2>2 DEF AgainInv
  <1>5. CASE InstallModules
    <2>1. /\ ready' = ready /\ facts' = facts /\ phase \in Ended /\ phase' = "idle"
          /\ disk' = [disk EXCEPT !["modules"] = "theirs"]
      BY <1>5 DEF InstallModules
    <2>2. disk'["modules"] = "theirs" /\ \A j \in Items \ {"modules"} : disk'[j] = disk[j]
      BY <2>1, OthersAreItems DEF TypeOK, Disks
    <2> QED
      BY <1>0, <2>1, <2>2 DEF AgainInv, SameBut, Sections
  <1>6. CASE UNCHANGED vars
    BY <1>0, <1>6 DEF vars, AgainInv, SameBut, Repeating, Redone, Sure
  <1> QED
    BY <1>1, <1>2, <1>3, <1>4, <1>5, <1>6 DEF Next

\* A repeated run ends as the last one did, but for what node_modules was needed to see.
THEOREM RepeatedRunsChangeNothing == Spec => SameAgain
  <1>1. Init => Progress /\ WorkInv /\ AgainInv
    BY DEF Init, Progress, AfterVitest, AfterKey, AfterProject, AfterScripts, WorkInv, Sections, Building,
       AfterCompiler, AfterConfig, AgainInv
  <1>2. RunInv /\ Progress /\ [Next]_vars => Progress'
    BY ProgressNext DEF RunInv
  <1>3. RunInv /\ WorkInv /\ [Next]_vars => WorkInv'
    BY WorkNext DEF RunInv
  <1>4. RunInv /\ Progress /\ WorkInv /\ AgainInv /\ [Next]_vars => AgainInv'
    BY AgainNext DEF RunInv
  <1>5. RunInv /\ AgainInv => [RunsAgain => Repeats]_vars
    <2> SUFFICES ASSUME RunInv, AgainInv, Finish, ready.known, ready.opts = opts
                 PROVE  Repeats
      BY DEF RunsAgain
    <2>1. phase \in {"install", "check"} /\ (phase = "install" => ~opts.install)
      BY DEF Finish, Keep
    <2>2. Repeating
      BY <2>1 DEF AgainInv, Sections
    <2> QED
      BY <2>1, <2>2 DEF Repeating, Redone, Repeats, SameBut, Sure, AfterCompiler, AfterConfig
  <1> QED
    BY <1>1, <1>2, <1>3, <1>4, <1>5, RunAlways, PTL DEF Spec, SameAgain
=============================================================================
