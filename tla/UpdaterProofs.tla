---------------------------- MODULE UpdaterProofs ----------------------------
(***************************************************************************)
(* Proofs about Updater, for every number of miners, releases and starts:  *)
(* as long as no two installations are under way at once, no crash and no  *)
(* failing step leaves anything but a whole release under the executable's *)
(* name, and an installed release is found there.                          *)
(***************************************************************************)
EXTENDS Updater, TLAPS

\* Only a miner started under the executable's own name looks for updates, and
\* only one that is copying has a file open.
Careful(p) ==
    /\ p.pc \in {"check", "exec"} \cup Installing => p.mode # "plain"
    /\ p.mode # "plain" => p.name = 0
    /\ p.writes # Nowhere => p.pc = "staging"

CarefulInv == \A m \in Miners : Careful(miner[m])

\* A miner runs the executable, or an older release that has been replaced; the
\* target of its installation says which it was when the installation began.
RunsRelease(p, image) ==
    /\ p.pc # "down" /\ p.name = 0 =>
          IF p.replaced THEN image > p.version ELSE image = p.version
    /\ p.pc \in Installing =>
          /\ p.latest > p.version
          /\ IF p.target = 0 THEN image = p.version ELSE image > p.version
    /\ p.installed => image > p.version

\* Each file of the update holds the release that is installed when the step
\* that reads it comes.
FilesAreWhole(p, archived, extracted, copied) ==
    /\ p.pc \in {"extract", "extracting"} => archived = p.latest
    /\ p.pc \in {"stage", "staging"} => extracted = p.latest
    /\ p.pc = "staging" => p.writes = InScratch
    /\ p.pc = "rename" => copied = p.latest

OneInstaller ==
    \A m, o \in Miners :
        miner[m].pc \in Installing /\ miner[o].pc \in Installing => m = o

AloneInv ==
    ~overlapped =>
        /\ exe[0] \in Versions
        /\ OneInstaller
        /\ \A m \in Miners : /\ RunsRelease(miner[m], exe[0])
                             /\ FilesAreWhole(miner[m], archive, unpacked, staged)

IInv == TypeOK /\ CarefulInv /\ AloneInv

-----------------------------------------------------------------------------
(* Type correctness.  A miner at work under the second name never installs,   *)
(* so that no third name comes up.                                            *)

LEMMA DownTypes == Down \in Process /\ Careful(Down)
  BY BoundAssumption
     DEF Down, Process, Careful, Installing, Modes, Versions, Names, Nowhere, InScratch

LEMMA GoneTypes ==
    ASSUME NEW p \in Process
    PROVE  Gone(p) \in Process /\ Careful(Gone(p)) /\ Gone(p).pc = "down"
<1>1. p.version \in Versions /\ p.installed \in BOOLEAN
  BY Zenon DEF Process
<1>2. \A v \in Versions, i \in BOOLEAN :
          [Down EXCEPT !.version = v, !.installed = i] \in Process
  BY DownTypes DEF Process
<1>3. Gone(p) \in Process
  BY <1>1, <1>2 DEF Gone
<1>4. Gone(p).pc = "down" /\ Gone(p).writes = Nowhere /\ Gone(p).mode = "plain"
  BY DEF Gone, Down
<1> QED
  BY <1>3, <1>4 DEF Careful, Installing

\* One miner changes; the others stay what they were.
LEMMA ChangeOfOne ==
    ASSUME TypeOK, CarefulInv, NEW m \in Miners, NEW r \in Process, Careful(r),
           Becomes(m, r)
    PROVE  /\ miner' \in [Miners -> Process] /\ CarefulInv'
           /\ miner'[m] = r
           /\ \A o \in Miners \ {m} : miner'[o] = miner[o]
<1>1. miner \in [Miners -> Process] /\ miner' = [miner EXCEPT ![m] = r]
  BY DEF TypeOK, Becomes
<1>2. /\ miner' \in [Miners -> Process]
      /\ miner'[m] = r
      /\ \A o \in Miners \ {m} : miner'[o] = miner[o]
  BY <1>1
<1> QED
  BY <1>2 DEF CarefulInv, Careful

LEMMA InitTypes == Init => TypeOK /\ CarefulInv
<1> SUFFICES ASSUME Init PROVE TypeOK /\ CarefulInv
  OBVIOUS
<1>1. overlapped \in BOOLEAN
  BY Zenon DEF Init
<1>2. miner \in [Miners -> Process] /\ CarefulInv
  BY DownTypes DEF Init, CarefulInv
<1>3. /\ released \in Versions /\ starts \in 0 .. MaxStarts
      /\ exe \in [Names -> Contents]
      /\ {archive, unpacked, staged} \subseteq Contents
  BY BoundAssumption DEF Init, Versions, Contents, Absent, Torn, Names
<1> QED
  BY <1>1, <1>2, <1>3 DEF TypeOK

\* The path of a miner that looks for updates, or has found one.
LEMMA PathIsAName ==
    ASSUME TypeOK, CarefulInv, NEW m \in Miners,
           miner[m].pc \in {"check", "exec"} \cup Installing
    PROVE  GetExecutablePath(m) \in Names /\ miner[m].name = 0
<1>1. miner[m].name = 0
  BY DEF CarefulInv, Careful
<1>2. (IF miner[m].replaced THEN 1 ELSE 0) \in 0 .. 1
  OBVIOUS
<1> QED
  BY <1>1, <1>2 DEF GetExecutablePath, Names

\* What the steps of one miner make of it.
LEMMA StepTypes ==
    ASSUME TypeOK, CarefulInv, NEW m \in Miners
    PROVE  LET p == miner[m]
           IN  /\ p \in Process /\ Careful(p)
               /\ \A place \in {"mining", "downloading", "extract", "extracting", "stage"} :
                     p.pc \in {"check"} \cup Installing /\ p.pc # "staging" =>
                         /\ [p EXCEPT !.pc = place] \in Process
                         /\ Careful([p EXCEPT !.pc = place])
               /\ [p EXCEPT !.pc = "mining", !.writes = Nowhere] \in Process
               /\ Careful([p EXCEPT !.pc = "mining", !.writes = Nowhere])
<1> DEFINE p == miner[m]
<1>1. p \in Process /\ Careful(p)
  BY DEF TypeOK, CarefulInv
<1> HIDE DEF p
<1>2. \A place \in {"mining"} \cup Installing : [p EXCEPT !.pc = place] \in Process
  BY <1>1 DEF Process
<1>3. ASSUME NEW place \in {"mining"} \cup Installing,
             p.pc \in {"check"} \cup Installing, p.pc # "staging"
      PROVE  Careful([p EXCEPT !.pc = place])
  BY <1>1, <1>3 DEF Careful, Process
<1>4. [p EXCEPT !.pc = "mining", !.writes = Nowhere] \in Process
  BY <1>1 DEF Process
<1>5. Careful([p EXCEPT !.pc = "mining", !.writes = Nowhere])
  BY <1>1 DEF Careful, Process, Installing
<1> QED
  BY <1>1, <1>2, <1>3, <1>4, <1>5 DEF p, Installing

LEMMA NextTypes == TypeOK /\ CarefulInv /\ [Next]_vars => TypeOK' /\ CarefulInv'
<1> SUFFICES ASSUME TypeOK, CarefulInv, [Next]_vars PROVE TypeOK' /\ CarefulInv'
  OBVIOUS
<1> USE DEF scratch
<1>0. /\ \A n \in Names : exe[n] \in Contents
      /\ Versions \subseteq Contents /\ Torn \in Contents /\ Absent \in Contents
      /\ archive \in Contents /\ unpacked \in Contents /\ staged \in Contents
  BY DEF TypeOK, Contents
\* All but Rename change at most one miner, and the type of no file.
<1>1. ASSUME NEW m \in Miners, NEW r \in Process, Careful(r), Becomes(m, r),
             UNCHANGED released, exe' \in [Names -> Contents],
             {archive', unpacked', staged'} \subseteq Contents,
             starts' \in 0 .. MaxStarts, overlapped' \in BOOLEAN
      PROVE  TypeOK' /\ CarefulInv'
  BY <1>1, ChangeOfOne, Zenon DEF TypeOK
<1>2. ASSUME NEW m \in Miners, NEW r \in Process, Careful(r), Becomes(m, r),
             UNCHANGED <<released, exe, scratch, starts, overlapped>>
      PROVE  TypeOK' /\ CarefulInv'
  BY <1>1, <1>2, Zenon DEF TypeOK
<1>3. CASE Publish
  BY <1>3, BoundAssumption DEF Publish, TypeOK, Versions, CarefulInv
<1>4. ASSUME NEW m \in Miners, NEW mode \in Modes, Start(m, mode)
      PROVE  TypeOK' /\ CarefulInv'
  <2> DEFINE r == [Down EXCEPT !.pc = IF mode = "plain" THEN "mining" ELSE "check",
                               !.mode = mode, !.version = exe[0]]
  <2>1. r \in Process /\ Careful(r)
    BY <1>4, DownTypes
       DEF Start, Process, Careful, Down, Names, Nowhere, Installing
  <2>2. /\ Becomes(m, r) /\ starts' \in 0 .. MaxStarts
        /\ UNCHANGED <<released, exe, scratch, overlapped>>
    BY <1>4, BoundAssumption DEF Start, TypeOK
  <2> HIDE DEF r
  <2> QED
    BY <1>1, <2>1, <2>2, Zenon DEF TypeOK
<1>5. ASSUME NEW m \in Miners, Dies(m) PROVE TypeOK' /\ CarefulInv'
  BY <1>2, <1>5, StepTypes, GoneTypes DEF Dies
<1>6. ASSUME NEW m \in Miners, ChecksAtWork(m) PROVE TypeOK' /\ CarefulInv'
  <2> DEFINE r == [miner[m] EXCEPT !.pc = "check", !.at = "work"]
  <2>1. r \in Process /\ Careful(r)
    <3> DEFINE p == miner[m]
    <3>1. p \in Process /\ Careful(p) /\ p.pc = "mining" /\ p.mode # "plain"
      BY <1>6, StepTypes DEF ChecksAtWork, At
    <3> HIDE DEF p
    <3>2. [p EXCEPT !.pc = "check", !.at = "work"] \in Process
      BY <3>1 DEF Process
    <3>3. Careful([p EXCEPT !.pc = "check", !.at = "work"])
      BY <3>1 DEF Careful, Process
    <3> QED
      BY <3>2, <3>3 DEF p
  <2> QED
    BY <1>2, <1>6, <2>1 DEF ChecksAtWork
<1>7. ASSUME NEW m \in Miners, FindsUpdate(m) PROVE TypeOK' /\ CarefulInv'
  <2> DEFINE r == [miner[m] EXCEPT !.pc = "download", !.latest = released,
                                   !.target = GetExecutablePath(m)]
  <2>1. miner[m].pc = "check" /\ GetExecutablePath(m) \in Names
    BY <1>7, PathIsAName DEF FindsUpdate, At
  <2>2. r \in Process /\ Careful(r)
    <3> DEFINE p == miner[m]
    <3>1. p \in Process /\ Careful(p) /\ p.pc = "check"
      BY <2>1, StepTypes
    <3> HIDE DEF p
    <3>2. \A l \in Versions, t \in Names :
             [p EXCEPT !.pc = "download", !.latest = l, !.target = t] \in Process
      BY <3>1 DEF Process, Installing
    <3>3. \A l \in Versions, t \in Names :
             Careful([p EXCEPT !.pc = "download", !.latest = l, !.target = t])
      BY <3>1 DEF Careful, Process
    <3> QED
      BY <2>1, <3>2, <3>3 DEF p, TypeOK
  <2>3. overlapped' \in BOOLEAN
    BY <1>7, Zenon DEF FindsUpdate
  <2>4. Becomes(m, r) /\ UNCHANGED <<released, exe, scratch, starts>>
    BY <1>7 DEF FindsUpdate
  <2> HIDE DEF r
  <2> QED
    BY <1>1, <2>2, <2>3, <2>4, Zenon DEF TypeOK
<1>8. ASSUME NEW m \in Miners, FindsNone(m) PROVE TypeOK' /\ CarefulInv'
  <2>1. CASE Becomes(m, Gone(miner[m]))
    BY <1>2, <1>8, <2>1, StepTypes, GoneTypes DEF FindsNone
  <2>2. CASE Goto(m, "mining")
    BY <1>2, <1>8, <2>2, StepTypes DEF FindsNone, Goto, At
  <2> QED
    BY <1>8, <2>1, <2>2 DEF FindsNone
<1>9. ASSUME NEW m \in Miners, InstallFails(m) PROVE TypeOK' /\ CarefulInv'
  <2>1. CASE Becomes(m, Gone(miner[m]))
    BY <1>2, <1>9, <2>1, StepTypes, GoneTypes DEF InstallFails
  <2>2. CASE Becomes(m, [miner[m] EXCEPT !.pc = "mining", !.writes = Nowhere])
    BY <1>2, <1>9, <2>2, StepTypes DEF InstallFails
  <2> QED
    BY <1>9, <2>1, <2>2 DEF InstallFails
\* The steps that only move the miner on, and write a file.
<1>10. ASSUME NEW m \in Miners, NEW place \in {"downloading", "extract", "extracting", "stage"},
              Goto(m, place), miner[m].pc \in Installing, miner[m].pc # "staging",
              {archive', unpacked', staged'} \subseteq Contents,
              UNCHANGED <<released, exe, starts, overlapped>>
       PROVE  TypeOK' /\ CarefulInv'
  <2> DEFINE r == [miner[m] EXCEPT !.pc = place]
  <2>1. r \in Process /\ Careful(r)
    BY <1>10, StepTypes
  <2>2. Becomes(m, r)
    BY <1>10 DEF Goto
  <2> HIDE DEF r
  <2> QED
    BY <1>1, <1>10, <2>1, <2>2, Zenon DEF TypeOK
<1>11. ASSUME NEW m \in Miners, Download(m) PROVE TypeOK' /\ CarefulInv'
  BY <1>0, <1>10, <1>11 DEF Download, At, Installing
<1>12. ASSUME NEW m \in Miners, Downloaded(m) PROVE TypeOK' /\ CarefulInv'
  <2>1. archive' \in Contents
    BY <1>0, <1>12, StepTypes DEF Downloaded, Process
  <2> QED
    BY <1>0, <1>10, <1>12, <2>1 DEF Downloaded, At, Installing
<1>13. ASSUME NEW m \in Miners, Extract(m) PROVE TypeOK' /\ CarefulInv'
  BY <1>0, <1>10, <1>13 DEF Extract, At, Installing
<1>14. ASSUME NEW m \in Miners, Extracted(m) PROVE TypeOK' /\ CarefulInv'
  BY <1>0, <1>10, <1>14 DEF Extracted, At, Installing
<1>15. ASSUME NEW m \in Miners, Stage(m) PROVE TypeOK' /\ CarefulInv'
  <2> DEFINE r == [miner[m] EXCEPT !.pc = "staging", !.writes = InScratch]
  <2>1. r \in Process /\ Careful(r)
    <3> DEFINE p == miner[m]
    <3>1. p \in Process /\ Careful(p) /\ p.pc = "stage"
      BY <1>15, StepTypes DEF Stage, At
    <3> HIDE DEF p
    <3>2. [p EXCEPT !.pc = "staging", !.writes = InScratch] \in Process
      BY <3>1 DEF Process, Installing
    <3>3. Careful([p EXCEPT !.pc = "staging", !.writes = InScratch])
      BY <3>1 DEF Careful, Process, Installing
    <3> QED
      BY <3>2, <3>3 DEF p
  <2>2. /\ Becomes(m, r) /\ {archive', unpacked', staged'} \subseteq Contents
        /\ UNCHANGED <<released, exe, starts, overlapped>>
    BY <1>0, <1>15 DEF Stage
  <2> HIDE DEF r
  <2> QED
    BY <1>1, <2>1, <2>2, Zenon DEF TypeOK
<1>16. ASSUME NEW m \in Miners, Staged(m) PROVE TypeOK' /\ CarefulInv'
  <2> DEFINE r == [miner[m] EXCEPT !.pc = "rename", !.writes = Nowhere]
  <2>1. r \in Process /\ Careful(r)
    <3> DEFINE p == miner[m]
    <3>1. p \in Process /\ Careful(p) /\ p.pc = "staging"
      BY <1>16, StepTypes DEF Staged, At
    <3> HIDE DEF p
    <3>2. [p EXCEPT !.pc = "rename", !.writes = Nowhere] \in Process
      BY <3>1 DEF Process, Installing
    <3>3. Careful([p EXCEPT !.pc = "rename", !.writes = Nowhere])
      BY <3>1 DEF Careful, Process, Installing
    <3> QED
      BY <3>2, <3>3 DEF p
  <2>2. /\ Becomes(m, r) /\ exe' \in [Names -> Contents]
        /\ {archive', unpacked', staged'} \subseteq Contents
        /\ UNCHANGED <<released, starts, overlapped>>
    BY <1>0, <1>16 DEF Staged
  <2> HIDE DEF r
  <2> QED
    BY <1>1, <2>1, <2>2, Zenon DEF TypeOK
<1>17. ASSUME NEW m \in Miners, Rename(m) PROVE TypeOK' /\ CarefulInv'
  <2> DEFINE target == miner[m].target
             renamed(p) == [p EXCEPT !.installed = TRUE,
                                     !.pc = IF p.at = "start" THEN "exec" ELSE "mining"]
  <2>1. target \in Names /\ miner[m].pc = "rename"
    BY <1>17, StepTypes DEF Rename, At, Process
  <2> HIDE DEF target
  <2>2. ASSUME NEW o \in Miners
        PROVE  /\ Displaced(miner[o], target) \in Process
               /\ Careful(Displaced(miner[o], target))
               /\ Displaced(miner[o], target).pc = miner[o].pc
    <3> DEFINE p == miner[o]
    <3>1. p \in Process /\ Careful(p)
      BY StepTypes
    <3>2. \A b \in BOOLEAN, w \in {Nowhere, InScratch} \cup Names :
              [p EXCEPT !.replaced = b, !.writes = w] \in Process
      BY <3>1 DEF Process
    <3>3. (p.replaced \/ (p.pc # "down" /\ p.name = target)) \in BOOLEAN
      BY <3>1, Zenon DEF Process
    <3>4. (IF p.writes = target THEN Nowhere
           ELSE IF p.writes = InScratch THEN target ELSE p.writes)
               \in {Nowhere, InScratch} \cup Names
      BY <2>1, <3>1 DEF Process
    <3>5. Displaced(p, target) \in Process
      BY <3>2, <3>3, <3>4 DEF Displaced
    <3>6. /\ Displaced(p, target).pc = p.pc /\ Displaced(p, target).mode = p.mode
          /\ Displaced(p, target).name = p.name
          /\ p.writes = Nowhere => Displaced(p, target).writes = Nowhere
      BY <2>1, <3>1 DEF Displaced, Process, Names, Nowhere, InScratch
    <3>7. Careful(Displaced(p, target))
      BY <3>1, <3>6 DEF Careful
    <3> QED
      BY <3>5, <3>6, <3>7
  <2>3. /\ renamed(Displaced(miner[m], target)) \in Process
        /\ Careful(renamed(Displaced(miner[m], target)))
    <3> DEFINE p == Displaced(miner[m], target)
    <3>1. p \in Process /\ Careful(p) /\ p.pc = "rename"
      BY <2>1, <2>2
    <3> HIDE DEF p
    <3>2. renamed(p) \in Process
      BY <3>1 DEF Process
    <3>3. Careful(renamed(p))
      BY <3>1 DEF Careful, Process, Installing
    <3> QED
      BY <3>2, <3>3 DEF p
  <2>4. miner' = [o \in Miners |-> IF o # m THEN Displaced(miner[o], target)
                                   ELSE renamed(Displaced(miner[o], target))]
    BY <1>17 DEF Rename, target
  <2> HIDE DEF renamed
  <2>5. miner' \in [Miners -> Process] /\ CarefulInv'
    BY <2>2, <2>3, <2>4 DEF CarefulInv
  <2>6. /\ exe' \in [Names -> Contents] /\ staged' \in Contents
        /\ UNCHANGED <<released, archive, unpacked, starts, overlapped>>
    BY <1>0, <1>17, <2>1 DEF Rename, target, TypeOK
  <2> QED
    BY <1>0, <2>5, <2>6 DEF TypeOK
<1>18. ASSUME NEW m \in Miners, Reexec(m) PROVE TypeOK' /\ CarefulInv'
  <2> DEFINE path == GetExecutablePath(m)
             r == [Down EXCEPT !.pc = "mining", !.name = path, !.version = exe[path]]
  <2>1. CASE path \in Names /\ exe[path] \in Versions
    <3>1. r \in Process /\ Careful(r)
      BY <2>1, DownTypes DEF Process, Careful, Down, Installing, Nowhere
    <3>2. Becomes(m, r)
      BY <1>18, <2>1 DEF Reexec
    <3> HIDE DEF r
    <3> QED
      BY <1>2, <1>18, <3>1, <3>2 DEF Reexec
  <2>2. CASE ~(path \in Names /\ exe[path] \in Versions)
    <3>1. Becomes(m, Gone(miner[m]))
      BY <1>18, <2>2 DEF Reexec
    <3> QED
      BY <1>2, <1>18, <3>1, StepTypes, GoneTypes DEF Reexec
  <2> QED
    BY <2>1, <2>2
<1>19. CASE UNCHANGED vars
  BY <1>19 DEF vars, TypeOK, CarefulInv
<1> QED
  BY <1>3, <1>4, <1>5, <1>6, <1>7, <1>8, <1>9, <1>11, <1>12, <1>13, <1>14, <1>15,
     <1>16, <1>17, <1>18, <1>19 DEF Next, InstallStep

LEMMA TypesInvariance == Spec => [](TypeOK /\ CarefulInv)
  BY InitTypes, NextTypes, PTL DEF Spec

\* Every variable keeps its type; in particular no miner that was relaunched from
\* the replaced file's name installs anything.
THEOREM TypeCorrect == Spec => []TypeOK
  BY TypesInvariance, PTL

-----------------------------------------------------------------------------
(* One installation at a time *)

LEMMA InitAlone == Init => AloneInv
<1> SUFFICES ASSUME Init PROVE AloneInv
  OBVIOUS
<1>1. \A m \in Miners : miner[m].pc = "down" /\ ~miner[m].installed
  BY DEF Init, Down
<1>2. exe[0] \in Versions
  BY BoundAssumption DEF Init, Names, Versions
<1> QED
  BY <1>1, <1>2 DEF AloneInv, OneInstaller, RunsRelease, FilesAreWhole, Installing

\* A miner changes: it was the one that installs, or the files stay; and if it
\* installs now, no other does.
LEMMA AloneChange ==
    ASSUME TypeOK, AloneInv, ~overlapped,
           NEW m \in Miners, NEW r, Becomes(m, r), exe' = exe,
           miner[m].pc \in Installing \/ UNCHANGED scratch,
           r.pc \in Installing =>
               \A o \in Miners \ {m} : miner[o].pc \notin Installing,
           RunsRelease(r, exe[0]), FilesAreWhole(r, archive', unpacked', staged')
    PROVE  AloneInv'
<1>1. /\ miner'[m] = r
      /\ \A o \in Miners \ {m} : miner'[o] = miner[o]
  BY DEF TypeOK, Becomes
<1>2. /\ exe[0] \in Versions /\ OneInstaller
      /\ \A o \in Miners : /\ RunsRelease(miner[o], exe[0])
                           /\ FilesAreWhole(miner[o], archive, unpacked, staged)
  BY DEF AloneInv
<1>3. OneInstaller'
  BY <1>1, <1>2 DEF OneInstaller
<1>4. ASSUME NEW o \in Miners \ {m}
      PROVE  FilesAreWhole(miner'[o], archive', unpacked', staged')
  <2>1. CASE miner[m].pc \in Installing
    <3>1. miner[o].pc \notin Installing
      BY <1>2, <2>1 DEF OneInstaller
    <3> QED
      BY <1>1, <3>1 DEF FilesAreWhole, Installing
  <2>2. CASE UNCHANGED scratch
    BY <1>1, <1>2, <2>2 DEF FilesAreWhole, scratch
  <2> QED
    BY <2>1, <2>2
<1>5. FilesAreWhole(miner'[m], archive', unpacked', staged')
  BY <1>1 DEF FilesAreWhole
<1>6. \A o \in Miners : RunsRelease(miner'[o], exe'[0])
  BY <1>1, <1>2
<1> QED
  BY <1>2, <1>3, <1>4, <1>5, <1>6 DEF AloneInv, RunsRelease

\* What is known of a miner.
LEMMA OfOne ==
    ASSUME TypeOK, AloneInv, ~overlapped, NEW m \in Miners
    PROVE  /\ miner[m] \in Process
           /\ RunsRelease(miner[m], exe[0])
           /\ FilesAreWhole(miner[m], archive, unpacked, staged)
           /\ miner[m].pc \in Installing =>
                 \A o \in Miners \ {m} : miner[o].pc \notin Installing
           /\ exe[0] \in Int /\ released \in Int
           /\ miner[m].latest \in Int /\ miner[m].version \in Int
<1>1. miner[m] \in Process
  BY DEF TypeOK
<1>2. exe[0] \in Versions /\ released \in Versions
  BY DEF AloneInv, TypeOK
<1>3. miner[m].latest \in Versions /\ miner[m].version \in Versions
  BY <1>1 DEF Process
<1>4. Versions \subseteq Int
  BY BoundAssumption DEF Versions
<1> QED
  BY <1>1, <1>2, <1>3, <1>4 DEF AloneInv, OneInstaller

\* A miner that stops, or goes back to work, stays a witness of what it installed.
LEMMA GoneAlone ==
    ASSUME NEW p \in Process, NEW image, RunsRelease(p, image)
    PROVE  /\ Gone(p).pc = "down"
           /\ RunsRelease(Gone(p), image)
           /\ \A a, u, s : FilesAreWhole(Gone(p), a, u, s)
<1>1. /\ Gone(p).pc = "down" /\ Gone(p).version = p.version
      /\ Gone(p).installed <=> p.installed
  <2>1. Gone(p).pc = "down" /\ Gone(p).version = p.version
    BY DEF Gone, Down
  <2>2. Gone(p).installed = p.installed
    BY Zenon DEF Gone, Down
  <2> QED
    BY <2>1, <2>2, Zenon
<1> QED
  BY <1>1 DEF RunsRelease, FilesAreWhole, Installing

LEMMA MovedAlone ==
    ASSUME NEW p \in Process, NEW image, RunsRelease(p, image),
           NEW place, p.pc # "down",
           place \in Installing => p.pc \in Installing
    PROVE  /\ [p EXCEPT !.pc = place].pc = place
           /\ RunsRelease([p EXCEPT !.pc = place], image)
           /\ [p EXCEPT !.pc = place].latest = p.latest
           /\ [p EXCEPT !.pc = place].writes = p.writes
  BY DEF Process, RunsRelease

\* The old name has been given to a newer release, or the new name to any.
LEMMA DisplacedAlone ==
    ASSUME NEW p \in Process, NEW target \in Names, NEW image \in Int, NEW newer \in Int,
           RunsRelease(p, image), p.pc \notin Installing \/ p.pc = "rename",
           IF target = 0 THEN newer > image ELSE newer = image
    PROVE  LET q == Displaced(p, target)
           IN  /\ q.pc = p.pc /\ q.version = p.version /\ q.at = p.at
               /\ q.installed <=> p.installed
               /\ q.pc \notin Installing => RunsRelease(q, newer)
               /\ q.pc # "down" /\ q.name = 0 =>
                     IF q.replaced THEN newer > q.version ELSE newer = q.version
<1> DEFINE q == Displaced(p, target)
<1>1. /\ q.pc = p.pc /\ q.version = p.version /\ q.at = p.at /\ q.name = p.name
      /\ p.version \in Int
  BY DEF Displaced, Process, Versions
<1>2. q.installed <=> p.installed
  BY Zenon DEF Displaced, Process
<1>3. q.replaced <=> (p.replaced \/ (p.pc # "down" /\ p.name = target))
  BY Zenon DEF Displaced, Process
<1> HIDE DEF q
<1>4. /\ newer >= image
      /\ target = 0 => newer > image
      /\ target # 0 => newer = image
  BY DEF Names
<1>5. q.pc # "down" /\ q.name = 0 =>
         IF q.replaced THEN newer > q.version ELSE newer = q.version
  <2> SUFFICES ASSUME p.pc # "down", p.name = 0
               PROVE  IF q.replaced THEN newer > p.version ELSE newer = p.version
    BY <1>1
  <2>1. IF p.replaced THEN image > p.version ELSE image = p.version
    BY DEF RunsRelease
  <2>2. CASE p.replaced
    BY <1>1, <1>3, <1>4, <2>1, <2>2
  <2>3. CASE ~p.replaced /\ target = 0
    BY <1>1, <1>3, <1>4, <2>1, <2>3
  <2>4. CASE ~p.replaced /\ target # 0
    BY <1>1, <1>3, <1>4, <2>1, <2>4
  <2> QED
    BY <2>2, <2>3, <2>4
<1>6. p.installed => newer > p.version
  BY <1>1, <1>4 DEF RunsRelease
<1>7. q.pc \notin Installing => RunsRelease(q, newer)
  BY <1>1, <1>2, <1>5, <1>6 DEF RunsRelease
<1> QED
  BY <1>1, <1>2, <1>5, <1>7 DEF q

LEMMA NextAlone == IInv /\ [Next]_vars => AloneInv'
<1> SUFFICES ASSUME IInv, [Next]_vars, ~overlapped' PROVE AloneInv'
  BY DEF AloneInv
<1> USE DEF scratch
<1>0. TypeOK /\ CarefulInv /\ AloneInv
  BY DEF IInv
<1>1. ASSUME NEW m \in Miners, NEW r, Becomes(m, r),
             UNCHANGED <<released, exe, scratch, starts, overlapped>>,
             r.pc \in Installing => miner[m].pc \in Installing,
             RunsRelease(r, exe[0]), FilesAreWhole(r, archive, unpacked, staged)
      PROVE  AloneInv'
  BY <1>0, <1>1, AloneChange, OfOne
<1>2. ASSUME NEW m \in Miners, Becomes(m, Gone(miner[m])),
             UNCHANGED <<released, exe, scratch, starts, overlapped>>
      PROVE  AloneInv'
  <2>1. miner[m] \in Process /\ RunsRelease(miner[m], exe[0])
    BY <1>0, <1>2, OfOne
  <2>2. /\ Gone(miner[m]).pc \notin Installing /\ RunsRelease(Gone(miner[m]), exe[0])
        /\ FilesAreWhole(Gone(miner[m]), archive, unpacked, staged)
    BY <2>1, GoneAlone DEF Installing
  <2> QED
    BY <1>1, <1>2, <2>2
\* InstallUpdate's own steps before the last: the miner goes on, the executable
\* stays.
<1>3. ASSUME NEW m \in Miners, NEW place, Goto(m, place),
             miner[m].pc \in Installing, exe' = exe, overlapped' = overlapped,
             FilesAreWhole([miner[m] EXCEPT !.pc = place], archive', unpacked', staged')
      PROVE  AloneInv'
  <2> DEFINE r == [miner[m] EXCEPT !.pc = place]
  <2>1. /\ miner[m] \in Process /\ RunsRelease(miner[m], exe[0])
        /\ \A o \in Miners \ {m} : miner[o].pc \notin Installing
    BY <1>0, <1>3, OfOne
  <2>2. RunsRelease(r, exe[0])
    BY <1>3, <2>1, MovedAlone DEF Installing
  <2>3. Becomes(m, r)
    BY <1>3 DEF Goto
  <2> QED
    BY <1>0, <1>3, <2>1, <2>2, <2>3, AloneChange
<1>4. CASE Publish
  BY <1>0, <1>4 DEF Publish, AloneInv, OneInstaller
<1>5. ASSUME NEW m \in Miners, NEW mode \in Modes, Start(m, mode) PROVE AloneInv'
  <2> DEFINE r == [Down EXCEPT !.pc = IF mode = "plain" THEN "mining" ELSE "check",
                               !.mode = mode, !.version = exe[0]]
  <2>1. /\ r.pc \in {"mining", "check"} /\ r.version = exe[0]
        /\ ~r.replaced /\ ~r.installed
    BY DEF Down
  <2>2. Becomes(m, r) /\ exe' = exe /\ overlapped' = overlapped /\ UNCHANGED scratch
    BY <1>5 DEF Start
  <2> HIDE DEF r
  <2>3. /\ RunsRelease(r, exe[0]) /\ r.pc \notin Installing
        /\ FilesAreWhole(r, archive', unpacked', staged')
    BY <2>1 DEF RunsRelease, FilesAreWhole, Installing
  <2> QED
    BY <1>0, <2>2, <2>3, AloneChange
<1>6. ASSUME NEW m \in Miners, Dies(m) PROVE AloneInv'
  BY <1>2, <1>6 DEF Dies
<1>7. ASSUME NEW m \in Miners, ChecksAtWork(m) PROVE AloneInv'
  <2> DEFINE p == miner[m]
             r == [p EXCEPT !.pc = "check", !.at = "work"]
  <2>1. p \in Process /\ RunsRelease(p, exe[0]) /\ p.pc = "mining"
    BY <1>0, <1>7, OfOne DEF ChecksAtWork, At
  <2>2. Becomes(m, r) /\ UNCHANGED <<released, exe, scratch, starts, overlapped>>
    BY <1>7 DEF ChecksAtWork
  <2> HIDE DEF p
  <2>3. /\ RunsRelease(r, exe[0]) /\ r.pc \notin Installing
        /\ FilesAreWhole(r, archive, unpacked, staged)
    BY <2>1 DEF Process, RunsRelease, FilesAreWhole, Installing
  <2> QED
    BY <1>1, <2>2, <2>3
<1>8. ASSUME NEW m \in Miners, FindsUpdate(m) PROVE AloneInv'
  <2> DEFINE p == miner[m]
             path == GetExecutablePath(m)
             r == [p EXCEPT !.pc = "download", !.latest = released, !.target = path]
  <2>1. ~overlapped /\ \A o \in Miners : miner[o].pc \notin Installing
    BY <1>8 DEF FindsUpdate
  <2>2. /\ p \in Process /\ RunsRelease(p, exe[0]) /\ p.pc = "check"
        /\ released > p.version /\ exe[0] \in Int /\ p.version \in Int
    BY <1>0, <1>8, <2>1, OfOne DEF FindsUpdate, At, VersionLess
  <2>3. IF path = 0 THEN exe[0] = p.version ELSE exe[0] > p.version
    <3>1. p.name = 0 /\ IF p.replaced THEN exe[0] > p.version ELSE exe[0] = p.version
      BY <1>0, <2>2, PathIsAName DEF RunsRelease
    <3>2. path = IF p.replaced THEN 1 ELSE 0
      BY <3>1 DEF GetExecutablePath
    <3> QED
      BY <3>1, <3>2
  <2>4. Becomes(m, r) /\ exe' = exe /\ UNCHANGED scratch
    BY <1>8 DEF FindsUpdate
  <2> HIDE DEF p, path
  <2>5. /\ RunsRelease(r, exe[0]) /\ FilesAreWhole(r, archive', unpacked', staged')
    BY <2>2, <2>3 DEF Process, RunsRelease, FilesAreWhole
  <2> QED
    BY <1>0, <2>1, <2>4, <2>5, AloneChange
<1>9. ASSUME NEW m \in Miners, FindsNone(m) PROVE AloneInv'
  <2>1. CASE Goto(m, "mining")
    <3> DEFINE r == [miner[m] EXCEPT !.pc = "mining"]
    <3>1. /\ miner[m] \in Process /\ RunsRelease(miner[m], exe[0])
          /\ miner[m].pc = "check"
          /\ UNCHANGED <<released, exe, scratch, starts, overlapped>>
      BY <1>0, <1>9, OfOne DEF FindsNone, At
    <3>2. r.pc = "mining" /\ RunsRelease(r, exe[0])
      BY <3>1, MovedAlone DEF Installing
    <3>3. Becomes(m, r)
      BY <2>1 DEF Goto
    <3> HIDE DEF r
    <3> QED
      BY <1>1, <3>1, <3>2, <3>3 DEF FilesAreWhole, Installing
  <2> QED
    BY <1>2, <1>9, <2>1 DEF FindsNone
<1>10. ASSUME NEW m \in Miners, InstallFails(m) PROVE AloneInv'
  <2>1. CASE Becomes(m, [miner[m] EXCEPT !.pc = "mining", !.writes = Nowhere])
    <3> DEFINE p == miner[m]
               r == [p EXCEPT !.pc = "mining", !.writes = Nowhere]
    <3>1. /\ p \in Process /\ RunsRelease(p, exe[0]) /\ p.pc # "down"
          /\ UNCHANGED <<released, exe, scratch, starts, overlapped>>
      BY <1>0, <1>10, OfOne DEF InstallFails, Installing
    <3> HIDE DEF p
    <3>2. /\ RunsRelease(r, exe[0]) /\ r.pc \notin Installing
          /\ FilesAreWhole(r, archive, unpacked, staged)
      BY <3>1 DEF Process, RunsRelease, FilesAreWhole, Installing
    <3> QED
      BY <1>1, <2>1, <3>1, <3>2 DEF p
  <2> QED
    BY <1>2, <1>10, <2>1 DEF InstallFails
<1>11. ASSUME NEW m \in Miners, Download(m) PROVE AloneInv'
  <2>1. FilesAreWhole([miner[m] EXCEPT !.pc = "downloading"], archive', unpacked', staged')
    BY <1>0, OfOne DEF FilesAreWhole, Process
  <2> QED
    BY <1>3, <1>11, <2>1 DEF Download, At, Installing
<1>12. ASSUME NEW m \in Miners, Downloaded(m) PROVE AloneInv'
  <2> DEFINE p == miner[m]
  <2>1. /\ p \in Process /\ p.pc = "downloading"
        /\ \A o \in Miners \ {m} : miner[o].pc \notin Installing
    BY <1>0, <1>12, OfOne DEF Downloaded, At, Installing
  <2>2. archive' = p.latest
    BY <1>12, <2>1 DEF Downloaded, At, Installing
  <2> HIDE DEF p
  <2>3. FilesAreWhole([p EXCEPT !.pc = "extract"], archive', unpacked', staged')
    BY <2>1, <2>2 DEF FilesAreWhole, Process
  <2> QED
    BY <1>3, <1>12, <2>1, <2>3 DEF p, Downloaded, Installing
<1>13. ASSUME NEW m \in Miners, Extract(m) PROVE AloneInv'
  <2> DEFINE p == miner[m]
  <2>1. p \in Process /\ p.pc = "extract" /\ archive' = p.latest
    BY <1>0, <1>13, OfOne DEF Extract, At, FilesAreWhole
  <2> HIDE DEF p
  <2>2. FilesAreWhole([p EXCEPT !.pc = "extracting"], archive', unpacked', staged')
    BY <2>1 DEF FilesAreWhole, Process
  <2> QED
    BY <1>3, <1>13, <2>1, <2>2 DEF p, Extract, Installing
<1>14. ASSUME NEW m \in Miners, Extracted(m) PROVE AloneInv'
  <2> DEFINE p == miner[m]
  <2>1. p \in Process /\ p.pc = "extracting" /\ unpacked' = p.latest
    BY <1>0, <1>14, OfOne DEF Extracted, At, FilesAreWhole
  <2> HIDE DEF p
  <2>2. FilesAreWhole([p EXCEPT !.pc = "stage"], archive', unpacked', staged')
    BY <2>1 DEF FilesAreWhole, Process
  <2> QED
    BY <1>3, <1>14, <2>1, <2>2 DEF p, Extracted, Installing
<1>15. ASSUME NEW m \in Miners, Stage(m) PROVE AloneInv'
  <2> DEFINE p == miner[m]
             r == [p EXCEPT !.pc = "staging", !.writes = InScratch]
  <2>1. /\ p \in Process /\ p.pc = "stage" /\ unpacked' = p.latest
        /\ RunsRelease(p, exe[0])
        /\ \A o \in Miners \ {m} : miner[o].pc \notin Installing
    BY <1>0, <1>15, OfOne DEF Stage, At, FilesAreWhole, Installing
  <2>2. Becomes(m, r) /\ exe' = exe /\ overlapped' = overlapped /\ miner[m].pc \in Installing
    BY <1>15 DEF Stage, At, Installing
  <2> HIDE DEF p
  <2>3. RunsRelease(r, exe[0]) /\ FilesAreWhole(r, archive', unpacked', staged')
    BY <2>1 DEF Process, RunsRelease, FilesAreWhole, Installing
  <2> QED
    BY <1>0, <2>1, <2>2, <2>3, AloneChange
<1>16. ASSUME NEW m \in Miners, Staged(m) PROVE AloneInv'
  <2> DEFINE p == miner[m]
             r == [p EXCEPT !.pc = "rename", !.writes = Nowhere]
  <2>1. /\ p \in Process /\ p.pc = "staging" /\ unpacked = p.latest
        /\ p.writes = InScratch /\ RunsRelease(p, exe[0])
        /\ \A o \in Miners \ {m} : miner[o].pc \notin Installing
    BY <1>0, <1>16, OfOne DEF Staged, At, FilesAreWhole, Installing
  <2>2. exe' = exe /\ staged' = p.latest
    BY <1>0, <1>16, <2>1 DEF Staged, TypeOK, InScratch, Names
  <2>3. Becomes(m, r) /\ overlapped' = overlapped /\ miner[m].pc \in Installing
    BY <1>16 DEF Staged, At, Installing
  <2> HIDE DEF p
  <2>4. RunsRelease(r, exe[0]) /\ FilesAreWhole(r, archive', unpacked', staged')
    BY <2>1, <2>2 DEF Process, RunsRelease, FilesAreWhole, Installing
  <2> QED
    BY <1>0, <2>1, <2>2, <2>3, <2>4, AloneChange
\* The step all others prepare: the new image is newer than what any process ran.
<1>17. ASSUME NEW m \in Miners, Rename(m) PROVE AloneInv'
  <2> DEFINE target == miner[m].target
             image == exe[0]
             newer == IF target = 0 THEN staged ELSE exe[0]
  <2>1. /\ target \in Names /\ miner[m].pc = "rename" /\ staged = miner[m].latest
        /\ ~overlapped
    BY <1>0, <1>17, OfOne DEF Rename, At, Process, FilesAreWhole
  <2>2. /\ RunsRelease(miner[m], image) /\ image \in Int /\ staged \in Int
        /\ miner[m].version \in Int
        /\ \A o \in Miners \ {m} : miner[o].pc \notin Installing
    BY <1>0, <2>1, OfOne DEF Installing
  <2>3. /\ newer \in Int /\ newer > miner[m].version
        /\ IF target = 0 THEN newer > image ELSE newer = image
    BY <2>1, <2>2 DEF RunsRelease, Installing
  <2>4. exe'[0] = newer /\ exe'[0] \in Versions
    <3>1. exe'[0] = newer
      <4>1. exe' = [exe EXCEPT ![target] = staged]
        BY <1>17 DEF Rename
      <4>2. exe \in [Names -> Contents] /\ 0 \in Names
        BY <1>0 DEF TypeOK, Names
      <4> HIDE DEF target
      <4> QED
        BY <4>1, <4>2
    <3>2. staged \in Versions /\ exe[0] \in Versions
      BY <1>0, <2>1, OfOne DEF AloneInv, Process
    <3> QED
      BY <3>1, <3>2
  <2>5. /\ miner'[m] = [Displaced(miner[m], target) EXCEPT
               !.installed = TRUE,
               !.pc = IF Displaced(miner[m], target).at = "start" THEN "exec" ELSE "mining"]
        /\ \A o \in Miners \ {m} : miner'[o] = Displaced(miner[o], target)
    BY <1>17 DEF Rename
  <2> HIDE DEF target, image, newer
  <2>6. ASSUME NEW o \in Miners \ {m}
        PROVE  RunsRelease(miner'[o], newer) /\ miner'[o].pc \notin Installing
    <3>1. /\ miner[o] \in Process /\ RunsRelease(miner[o], image)
          /\ miner[o].pc \notin Installing
      BY <1>0, <2>1, <2>2, OfOne DEF image
    <3> QED
      BY <2>1, <2>2, <2>3, <2>5, <3>1, DisplacedAlone
  <2>7. RunsRelease(miner'[m], newer) /\ miner'[m].pc \notin Installing
    <3> DEFINE q == Displaced(miner[m], target)
    <3>0. miner[m] \in Process
      BY <1>0 DEF TypeOK
    <3>1. /\ q.version = miner[m].version /\ q.pc # "down"
          /\ q.name = 0 => IF q.replaced THEN newer > q.version ELSE newer = q.version
      BY <2>1, <2>2, <2>3, <3>0, DisplacedAlone
    <3>2. /\ miner'[m].pc \in {"exec", "mining"}
          /\ miner'[m].version = q.version /\ miner'[m].name = q.name
      BY <2>5, <3>0 DEF Displaced, Process
    <3>3. miner'[m].replaced <=> q.replaced
      BY <2>5, <3>0, Zenon DEF Displaced, Process
    <3> HIDE DEF q
    <3> QED
      BY <2>3, <3>1, <3>2, <3>3 DEF RunsRelease, Installing
  <2>8. \A o \in Miners : RunsRelease(miner'[o], exe'[0]) /\ miner'[o].pc \notin Installing
    BY <2>4, <2>6, <2>7
  <2> QED
    BY <2>4, <2>8 DEF AloneInv, OneInstaller, FilesAreWhole, Installing
<1>18. ASSUME NEW m \in Miners, Reexec(m) PROVE AloneInv'
  <2> DEFINE path == GetExecutablePath(m)
             r == [Down EXCEPT !.pc = "mining", !.name = path, !.version = exe[path]]
  <2>1. CASE path \in Names /\ exe[path] \in Versions
    <3>1. Becomes(m, r)
      BY <1>18, <2>1 DEF Reexec
    <3>2. /\ r.pc = "mining" /\ r.name = path /\ r.version = exe[path]
          /\ ~r.replaced /\ ~r.installed
      BY DEF Down
    <3> HIDE DEF r
    <3>3. /\ RunsRelease(r, exe[0]) /\ r.pc \notin Installing
          /\ FilesAreWhole(r, archive, unpacked, staged)
      BY <3>2 DEF RunsRelease, FilesAreWhole, Installing
    <3> QED
      BY <1>1, <1>18, <3>1, <3>3 DEF Reexec
  <2>2. CASE ~(path \in Names /\ exe[path] \in Versions)
    BY <1>2, <1>18, <2>2 DEF Reexec
  <2> QED
    BY <2>1, <2>2
<1>19. CASE UNCHANGED vars
  BY <1>0, <1>19 DEF vars, AloneInv, OneInstaller
<1> QED
  BY <1>4, <1>5, <1>6, <1>7, <1>8, <1>9, <1>10, <1>11, <1>12, <1>13, <1>14, <1>15,
     <1>16, <1>17, <1>18, <1>19 DEF Next, InstallStep

LEMMA Invariance == Spec => []IInv
<1>1. Init => IInv
  BY InitTypes, InitAlone DEF IInv
<1>2. IInv /\ [Next]_vars => IInv'
  BY NextTypes, NextAlone DEF IInv
<1> QED
  BY <1>1, <1>2, PTL DEF Spec

\* The executable is a whole release whatever steps of an installation fail or
\* are cut short, unless two miners of one home directory install at once.
THEOREM ExecutableIsWhole == Spec => []ExecutableStaysWhole
<1>1. IInv => ExecutableStaysWhole
  BY DEF IInv, AloneInv, ExecutableStaysWhole
<1> QED
  BY <1>1, Invariance, PTL

\* What a miner has installed, and what newer release may have followed it, is
\* under the executable's name at the next start.
THEOREM UpdateIsInstalled == Spec => []UpdateIsInPlace
<1>1. IInv => UpdateIsInPlace
  BY DEF IInv, AloneInv, RunsRelease, UpdateIsInPlace
<1> QED
  BY <1>1, Invariance, PTL
=============================================================================
