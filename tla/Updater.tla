------------------------------- MODULE Updater -------------------------------
(***************************************************************************)
(* The self-update: CheckForUpdate, InstallUpdate step by step on the file *)
(* system, and the two places that call them, the start of main (--update, *)
(* --auto-update) and the metrics thread of a miner at work.  Miners that  *)
(* share a home directory share the files of the update.                   *)
(*                                                                         *)
(* A file is absent, torn (being written, or left so by a crash), or a     *)
(* whole release, which is a number.  readlink of /proc/self/exe, once the *)
(* file a process runs has been replaced, gives its name with " (deleted)" *)
(* appended: names are counted by how often that has been done.            *)
(***************************************************************************)
EXTENDS Integers

CONSTANTS
    Miners,        \* processes of this machine and user
    MaxVersion,    \* bound: releases published
    MaxStarts      \* bound: times a miner is started by hand

ASSUME BoundAssumption == MaxVersion \in Nat \ {0} /\ MaxStarts \in Nat

Versions == 1 .. MaxVersion
Absent == 0
Torn == -1
Contents == {Absent, Torn} \cup Versions
Names == 0 .. 1
Nowhere == -2
InScratch == -1

VARIABLES
    released,    \* the latest release on the server
    exe,         \* the executable's name, and that with "(deleted)" appended
    archive, unpacked, staged,   \* the files in the update directory
    miner,       \* the processes
    starts,
    overlapped   \* history: two installations have been under way at once

scratch == <<archive, unpacked, staged>>
vars == <<released, exe, scratch, miner, starts, overlapped>>

Modes == {"plain", "auto", "update"}
Installing == {"download", "downloading", "extract", "extracting", "stage",
               "staging", "rename"}

Process ==
    [pc : {"down", "check", "exec", "mining"} \cup Installing,
     mode : Modes,             \* the update option it was started with
     at : {"start", "work"},   \* who called CheckForUpdate
     version : Versions,       \* kMinerVersion
     name : Names,             \* of the file it was started from
     replaced : BOOLEAN,       \* that file has been replaced since
     latest : Versions,        \* UpdateInfo::latest_version
     target : Names,           \* InstallUpdate's exe
     writes : {Nowhere, InScratch} \cup Names,
     installed : BOOLEAN]      \* InstallUpdate has returned true

\* That two names are enough is part of it: a miner that was relaunched from the
\* second looks for no update.
TypeOK ==
    /\ released \in Versions
    /\ exe \in [Names -> Contents]
    /\ {archive, unpacked, staged} \subseteq Contents
    /\ miner \in [Miners -> Process]
    /\ starts \in 0 .. MaxStarts
    /\ overlapped \in BOOLEAN

Down == [pc |-> "down", mode |-> "plain", at |-> "start", version |-> 1,
         name |-> 0, replaced |-> FALSE, latest |-> 1, target |-> 0,
         writes |-> Nowhere, installed |-> FALSE]

Init ==
    /\ released = 1
    /\ exe = [n \in Names |-> IF n = 0 THEN 1 ELSE Absent]
    /\ archive = Absent /\ unpacked = Absent /\ staged = Absent
    /\ miner = [m \in Miners |-> Down]
    /\ starts = 0
    /\ overlapped = FALSE

(* Definitions marked "Mutation" are bugs that the definition below them could *)
(* have; the specification does not use them.                                  *)

\* What is left of a process that is gone.
Gone(p) == [Down EXCEPT !.version = p.version, !.installed = p.installed]

At(m, place) == miner[m].pc = place
Becomes(m, r) == miner' = [miner EXCEPT ![m] = r]
Goto(m, place) == Becomes(m, [miner[m] EXCEPT !.pc = place])

GetExecutablePath(m) == miner[m].name + (IF miner[m].replaced THEN 1 ELSE 0)

\* Mutation: the release that is running is taken for an update.
VersionNotAbove(left, right) == left <= right
VersionLess(left, right) == left < right

-----------------------------------------------------------------------------
\* The server and the user.
Publish ==
    /\ released < MaxVersion
    /\ released' = released + 1
    /\ UNCHANGED <<exe, scratch, miner, starts, overlapped>>

Start(m, mode) ==
    /\ At(m, "down")
    /\ exe[0] \in Versions
    /\ starts < MaxStarts
    /\ starts' = starts + 1
    /\ Becomes(m, [Down EXCEPT !.pc = IF mode = "plain" THEN "mining" ELSE "check",
                               !.mode = mode, !.version = exe[0]])
    /\ UNCHANGED <<released, exe, scratch, overlapped>>

\* A crash, a kill, the machine going down: files stay as they are.
Dies(m) ==
    /\ ~At(m, "down")
    /\ Becomes(m, Gone(miner[m]))
    /\ UNCHANGED <<released, exe, scratch, starts, overlapped>>

\* metrics_loop, every half hour; kMinerVersion stays what it was, so that an
\* installed release is found, and installed, again.
ChecksAtWork(m) ==
    /\ At(m, "mining")
    /\ miner[m].mode = "auto"
    /\ Becomes(m, [miner[m] EXCEPT !.pc = "check", !.at = "work"])
    /\ UNCHANGED <<released, exe, scratch, starts, overlapped>>

\* CheckForUpdate's answer is an update; InstallUpdate asks for its target.
FindsUpdate(m) ==
    /\ At(m, "check")
    /\ VersionLess(miner[m].version, released)
    /\ Becomes(m, [miner[m] EXCEPT !.pc = "download", !.latest = released,
                                   !.target = GetExecutablePath(m)])
    /\ overlapped' = (overlapped \/ \E o \in Miners : miner[o].pc \in Installing)
    /\ UNCHANGED <<released, exe, scratch, starts>>

\* Up to date, or no answer: only a miner called with --update stops.
FindsNone(m) ==
    /\ At(m, "check")
    /\ IF miner[m].at = "start" /\ miner[m].mode = "update"
       THEN Becomes(m, Gone(miner[m]))
       ELSE Goto(m, "mining")
    /\ UNCHANGED <<released, exe, scratch, starts, overlapped>>

-----------------------------------------------------------------------------
(* InstallUpdate *)

\* InstallUpdate returns false.  At work that is not fatal; at the start main
\* returns, with --auto-update as well.
InstallFails(m) ==
    /\ miner[m].pc \in Installing
    /\ IF miner[m].at = "start"
       THEN Becomes(m, Gone(miner[m]))
       ELSE Becomes(m, [miner[m] EXCEPT !.pc = "mining", !.writes = Nowhere])
    /\ UNCHANGED <<released, exe, scratch, starts, overlapped>>

\* curl writes the archive in place.
Download(m) ==
    /\ At(m, "download")
    /\ archive' = Torn
    /\ Goto(m, "downloading")
    /\ UNCHANGED <<released, exe, unpacked, staged, starts, overlapped>>

\* Two curls at the same file may leave a mixture.
Downloaded(m) ==
    /\ At(m, "downloading")
    /\ archive' \in {miner[m].latest} \cup
          {Torn : o \in {o \in Miners \ {m} : At(o, "downloading")}}
    /\ Goto(m, "extract")
    /\ UNCHANGED <<released, exe, unpacked, staged, starts, overlapped>>

\* The directory is emptied and tar begins to fill it.
Extract(m) ==
    /\ At(m, "extract")
    /\ unpacked' = Torn
    /\ Goto(m, "extracting")
    /\ UNCHANGED <<released, exe, archive, staged, starts, overlapped>>

\* tar finds a torn archive out by its checksum.
Extractable(archived) == archived \in Versions

Extracted(m) ==
    /\ At(m, "extracting")
    /\ Extractable(archive)
    /\ unpacked' = archive
    /\ Goto(m, "stage")
    /\ UNCHANGED <<released, exe, archive, staged, starts, overlapped>>

\* copy_file opens the staged file, or creates it, and empties it.
Stage(m) ==
    /\ At(m, "stage")
    /\ unpacked # Absent
    /\ staged' = Torn
    /\ Becomes(m, [miner[m] EXCEPT !.pc = "staging", !.writes = InScratch])
    /\ UNCHANGED <<released, exe, archive, unpacked, starts, overlapped>>

\* Mutation: the error of copy_file is not looked at.
StagedUnchecked(m) ==
    /\ At(m, "staging")
    /\ staged' \in {unpacked, staged}
    /\ Becomes(m, [miner[m] EXCEPT !.pc = "rename", !.writes = Nowhere])
    /\ UNCHANGED <<released, exe, archive, unpacked, starts, overlapped>>
\* The copy is done; another miner's rename may have moved the file meanwhile.
Staged(m) ==
    /\ At(m, "staging")
    /\ staged' = IF miner[m].writes = InScratch THEN unpacked ELSE staged
    /\ exe' = [n \in Names |-> IF n = miner[m].writes THEN unpacked ELSE exe[n]]
    /\ Becomes(m, [miner[m] EXCEPT !.pc = "rename", !.writes = Nowhere])
    /\ UNCHANGED <<released, archive, unpacked, starts, overlapped>>

\* The process p after name has been given to another file.
Displaced(p, name) ==
    [p EXCEPT !.replaced = p.replaced \/ (p.pc # "down" /\ p.name = name),
              !.writes = IF p.writes = name THEN Nowhere
                         ELSE IF p.writes = InScratch THEN name ELSE p.writes]

\* The backup that is made first is read nowhere and its errors are ignored.
Rename(m) ==
    /\ At(m, "rename")
    /\ staged # Absent
    /\ exe' = [exe EXCEPT ![miner[m].target] = staged]
    /\ staged' = Absent
    /\ miner' = [o \in Miners |->
          LET p == Displaced(miner[o], miner[m].target)
          IN  IF o # m THEN p
              ELSE [p EXCEPT !.installed = TRUE,
                             !.pc = IF p.at = "start" THEN "exec" ELSE "mining"]]
    /\ UNCHANGED <<released, archive, unpacked, starts, overlapped>>

\* Mutation: the options are passed on.
ReexecKeepsOptions(m) ==
    /\ At(m, "exec")
    /\ LET path == GetExecutablePath(m)
       IN  IF path \in Names /\ exe[path] \in Versions
           THEN Becomes(m, [Down EXCEPT !.pc = "mining", !.name = path,
                                        !.mode = miner[m].mode, !.version = exe[path]])
           ELSE Becomes(m, Gone(miner[m]))
    /\ UNCHANGED <<released, exe, scratch, starts, overlapped>>
\* ReexecCurrentProcess, without --update and --auto-update: execv of the name
\* that the process has now, which nearly always is no file; then _exit(127).
Reexec(m) ==
    /\ At(m, "exec")
    /\ LET path == GetExecutablePath(m)
       IN  IF path \in Names /\ exe[path] \in Versions
           THEN Becomes(m, [Down EXCEPT !.pc = "mining", !.name = path,
                                        !.version = exe[path]])
           ELSE Becomes(m, Gone(miner[m]))
    /\ UNCHANGED <<released, exe, scratch, starts, overlapped>>

-----------------------------------------------------------------------------
InstallStep(m) ==
    \/ Download(m) \/ Downloaded(m) \/ Extract(m) \/ Extracted(m)
    \/ Stage(m) \/ Staged(m) \/ Rename(m) \/ InstallFails(m)

Next ==
    \/ Publish
    \/ \E m \in Miners :
          \/ \E mode \in Modes : Start(m, mode)
          \/ Dies(m) \/ ChecksAtWork(m) \/ FindsUpdate(m) \/ FindsNone(m)
          \/ InstallStep(m) \/ Reexec(m)

Spec == Init /\ [][Next]_vars

-----------------------------------------------------------------------------
(* Properties *)

\* "Download release tarball and atomically replace the running binary"
\* (updater.h:21): whatever step fails or is cut short by a crash, and however
\* often it is tried, the executable is a whole release; as long as no two
\* miners of one home directory update themselves at the same time.
ExecutableStaysWhole == overlapped \/ exe[0] \in Versions

\* A miner that has installed a release, and then stopped because it could not
\* run it or mined on without it, leaves it where the next start will find it.
UpdateIsInPlace ==
    \A m \in Miners :
        miner[m].installed => overlapped \/ exe[0] > miner[m].version
=============================================================================
