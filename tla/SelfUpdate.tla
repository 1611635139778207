----------------------------- MODULE SelfUpdate -----------------------------
(***************************************************************************)
(* internal/selfupdate: the comparison of versions, and the replacement of *)
(* the running program by a newer release through the files exe, exe.new   *)
(* and exe.old.  A process may die between any two steps; what it leaves   *)
(* behind is what the next one finds.                                      *)
(*                                                                         *)
(* Parts gives what numAt reads in the parts of a tag: the leading number, *)
(* or -1 where there is none.  A file holds a release, or "torn" (being    *)
(* written), or "bad" (whole, but not what was signed), or it is "none".   *)
(***************************************************************************)
EXTENDS Integers, Sequences, FiniteSetsExt

CONSTANTS
    Release,    \* the tags that the releases page may name as the latest
    Parts,      \* each tag, split at its dots
    First       \* the release installed at the start

ASSUME UpdateAssumption ==
    /\ First \in Release
    /\ \A t \in Release : Parts[t] \in Seq(Nat \cup {-1}) /\ Parts[t] # <<>>
    /\ Release \cap {"none", "torn", "bad"} = {}

VARIABLES
    files,      \* the file at exe, new and old
    update,     \* where apply is
    want,       \* the release being installed
    running     \* the release the process is

updateVars == <<files, update, want, running>>

UpdateInit ==
    /\ files = [exe |-> First, new |-> "none", old |-> "none"]
    /\ update = "idle" /\ want = First /\ running = First

-----------------------------------------------------------------------------
NumAt(tag, i) == IF i > Len(Parts[tag]) THEN 0 ELSE Parts[tag][i]

\* The loop of newer: the first part that decides is the first one that differs
\* or is no number.
Newer(current, latest) ==
    LET Decides(i) == \/ NumAt(current, i) # NumAt(latest, i)
                      \/ NumAt(latest, i) < 0
        deciding == {i \in 1..Max({Len(Parts[current]), Len(Parts[latest])}) : Decides(i)}
        first == Min(deciding)
    IN  /\ latest # current
        /\ deciding # {}
        /\ NumAt(latest, first) >= 0
        /\ NumAt(current, first) < 0 \/ NumAt(latest, first) > NumAt(current, first)

-----------------------------------------------------------------------------
(***************************************************************************)
(* checkOnce and apply, one step per change of a file.                     *)
(***************************************************************************)
Goes(to) == update' = to /\ UNCHANGED running

\* apply returns an error and Run waits for the next tick.
GivesUp == Goes("idle") /\ want' = running

\* Mutant of DownloadOpens: the executable is not looked for.
DownloadOpensUnresolved ==
    /\ update = "idle"
    /\ \E t \in Release : Newer(running, t) /\ want' = t
    /\ files' = [files EXCEPT !.new = "torn"]
    /\ Goes("writing")

\* A newer release is named, the executable is found (EvalSymlinks), and
\* download opens exe.new with O_TRUNC.
DownloadOpens ==
    /\ update = "idle"
    /\ \E t \in Release : Newer(running, t) /\ want' = t
    /\ files.exe # "none"
    /\ files' = [files EXCEPT !.new = "torn"]
    /\ Goes("writing")

\* The body ends: the asset, or something else that was served with status 200
\* or cut at maxDownloadSize.
DownloadEnds ==
    /\ update = "writing"
    /\ \E got \in {want, "bad"} : files' = [files EXCEPT !.new = got]
    /\ Goes("downloaded") /\ UNCHANGED want

\* The copy fails and exe.new is removed, or only its Close fails.
DownloadFails ==
    /\ update = "writing"
    /\ \E left \in {"none", "torn"} : files' = [files EXCEPT !.new = left]
    /\ GivesUp

\* verifyDownload: exe.new is what the signature of this release signs ...
Verifies ==
    /\ update = "downloaded"
    /\ files.new = want
    /\ Goes("verified") /\ UNCHANGED <<files, want>>

\* ... or not, or the signature could not be had.
VerifyFails ==
    /\ update = "downloaded"
    /\ files' = [files EXCEPT !.new = "none"]
    /\ GivesUp

RemovesBackup ==
    /\ update = "verified"
    /\ files' = [files EXCEPT !.old = "none"]
    /\ Goes("cleared") /\ UNCHANGED want

\* os.Rename(exe, backup) succeeds ...
MovesAside ==
    /\ update = "cleared" /\ files.exe # "none"
    /\ files' = [files EXCEPT !.old = files.exe, !.exe = "none"]
    /\ Goes("aside") /\ UNCHANGED want

\* ... or fails.
AsideFails ==
    /\ update = "cleared"
    /\ files' = [files EXCEPT !.new = "none"]
    /\ GivesUp

\* os.Rename(newPath, exe) succeeds ...
Installs ==
    /\ update = "aside"
    /\ files' = [files EXCEPT !.exe = files.new, !.new = "none"]
    /\ Goes("installed") /\ UNCHANGED want

\* ... or fails.  The roll-back may fail as well, which nobody looks at; and
\* exe.new stays.
InstallFails ==
    /\ update = "aside"
    /\ files' \in {files, [files EXCEPT !.exe = files.old, !.old = "none"]}
    /\ GivesUp

UpdateStep ==
    \/ DownloadOpens \/ DownloadEnds \/ DownloadFails
    \/ Verifies \/ VerifyFails
    \/ RemovesBackup \/ MovesAside \/ AsideFails
    \/ Installs \/ InstallFails

-----------------------------------------------------------------------------
\* The process that ran the updater is gone: its files stay.
UpdaterDies == update' = "idle" /\ want' = running /\ UNCHANGED <<files, running>>

\* A process is started from exe.
StartsFrom(exe) ==
    /\ exe # "none"
    /\ running' = exe /\ want' = exe
    /\ update' = "idle" /\ UNCHANGED files

-----------------------------------------------------------------------------
UpdateTypeOK ==
    /\ files \in [exe : Release \cup {"none"}, old : Release \cup {"none"},
                  new : Release \cup {"none", "torn", "bad"}]
    /\ update \in {"idle", "writing", "downloaded", "verified", "cleared", "aside", "installed"}
    /\ want \in Release /\ running \in Release

\* The same version number or a higher one, part by part from the left.
AtLeast(v, w) ==
    \/ \A i \in 1..Max({Len(Parts[v]), Len(Parts[w])}) : NumAt(v, i) = NumAt(w, i)
    \/ \E i \in 1..Max({Len(Parts[v]), Len(Parts[w])}) :
          /\ NumAt(v, i) > NumAt(w, i)
          /\ \A j \in 1..(i - 1) : NumAt(v, j) = NumAt(w, j)

\* Whatever failed, and wherever the process died, in this update or in an
\* earlier one, a whole and signed release that is at least the running one is
\* left at exe or, while exe is missing, at exe.old (apply's order of verify,
\* remove, rename and rename, with its roll-back).
GoodBinaryRemains ==
    LET kept == IF files.exe # "none" THEN files.exe ELSE files.old
    IN  kept \in Release /\ AtLeast(kept, running)

\* What makes it inductive: exe is there until apply moves it aside, what is
\* installed is newer than what runs, and exe.new has been verified before exe
\* is touched.
UpdateInv ==
    /\ GoodBinaryRemains
    /\ update \in {"writing", "downloaded", "verified", "cleared"} => files.exe # "none"
    /\ update = "aside" => files.exe = "none"
    /\ update \notin {"idle", "installed"} => AtLeast(want, running)
    /\ update \in {"verified", "cleared", "aside"} => files.new = want
=============================================================================
