----------------------------- MODULE ClientHost -----------------------------
(***************************************************************************)
(* A client process: runLoop (ClientSession) beside the updater that main  *)
(* starts with --autoupdate (SelfUpdate).  They share their fate: relaunch *)
(* and a crash end both, and the next process is whatever lies at exe.     *)
(***************************************************************************)
EXTENDS ClientSession, SelfUpdate

hostVars == <<sessionVars, updateVars>>

HostInit == SessionInit /\ UpdateInit

Alive == phase \notin {"exit", "down"}

Tunnelling ==
    /\ LoopStep \/ Environment \/ \E c \in Conn : ServerStep(c)
    /\ UNCHANGED updateVars

Updating ==
    /\ Alive
    /\ UpdateStep
    /\ UNCHANGED sessionVars

\* runLoop returns, and main with it.
Quits == Interrupted /\ UpdaterDies

\* relaunch starts the new program and exits.
Relaunches ==
    /\ update = "installed"
    /\ ProcessEnds("top")
    /\ StartsFrom(files.exe)

\* The new program cannot be started; relaunch exits all the same.
RelaunchFails ==
    /\ update = "installed"
    /\ ProcessEnds("down")
    /\ UpdaterDies

Crashes ==
    /\ weather = "storm"
    /\ ProcessEnds("down")
    /\ UpdaterDies

\* The user or the system's supervisor starts the program.
Starts == ProcessStarts /\ StartsFrom(files.exe)

HostNext ==
    \/ Tunnelling \/ Updating
    \/ Quits \/ Relaunches \/ RelaunchFails \/ Crashes \/ Starts

HostSafety == HostInit /\ [][HostNext]_hostVars

\* The loop goes on, and so does each of the server's handlers.  The updater
\* need not: a download has no deadline.
HostSpec ==
    /\ HostSafety
    /\ WF_hostVars(LoopStep /\ UNCHANGED updateVars)
    /\ \A c \in Conn : WF_hostVars(ServerStep(c) /\ UNCHANGED updateVars)

-----------------------------------------------------------------------------
TypeOK == SessionTypeOK /\ UpdateTypeOK
=============================================================================
