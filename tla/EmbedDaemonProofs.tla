-------------------------- MODULE EmbedDaemonProofs --------------------------
(***************************************************************************)
(* Proofs about EmbedDaemon for any sets of commands and inodes:           *)
(*   - its type invariant and the promise of `stop`;                       *)
(*   - mutual exclusion of daemons and ownership of the socket until       *)
(*     somebody removes the files of a daemon that runs;                   *)
(*   - that starts alone never do, when models load in time (Calm).        *)
(***************************************************************************)
EXTENDS EmbedDaemon, TLAPS

LEMMA TypeInit == Init => TypeOK
<1> SUFFICES ASSUME Init PROVE TypeOK
  OBVIOUS
<1>1. failures \in 0..MaxFailures
  BY ConstantsOK DEF Init
<1>2. undermined \in BOOLEAN
  BY DEF Init
<1>3. QED
  BY <1>1, <1>2, Zenon DEF Init, TypeOK, CmdPhases, DaemonPhases, Locked

LEMMA TypeStep == TypeOK /\ [Next]_vars => TypeOK'
<1> SUFFICES ASSUME TypeOK, [Next]_vars PROVE TypeOK'
  OBVIOUS
<1> USE ConstantsOK DEF TypeOK, CmdPhases, DaemonPhases, Locked, Cmds
<1> USE DEF Goto, Become, Dies, read_pid
<1>1. ASSUME NEW c \in Cmds, ReadPid(c) PROVE TypeOK'
  BY <1>1 DEF ReadPid
<1>2. ASSUME NEW c \in Cmds,
             StartCheck(c) \/ StartPollOk(c) \/ StartGiveUp(c) \/ StatusCheck(c)
               \/ StopSeesDeath(c) \/ CmdRemovePid(c) \/ CmdRemoveSock(c)
      PROVE  TypeOK'
  <2>1. CASE StartCheck(c) \/ StartPollOk(c)
    BY <2>1 DEF StartCheck, StartPollOk
  <2>2. CASE StartGiveUp(c) \/ StatusCheck(c)
    BY <2>2 DEF StartGiveUp, StatusCheck
  <2>3. CASE StopSeesDeath(c)
    BY <2>3 DEF StopSeesDeath
  <2>4. CASE CmdRemovePid(c)
    BY <2>4 DEF CmdRemovePid
  <2>5. CASE CmdRemoveSock(c)
    BY <2>5 DEF CmdRemoveSock
  <2>6. QED
    BY <1>2, <2>1, <2>2, <2>3, <2>4, <2>5
<1>3. ASSUME NEW c \in Cmds, Fork(c) PROVE TypeOK'
  BY <1>3 DEF Fork
<1>4. ASSUME NEW c \in Cmds, StopCheck(c) PROVE TypeOK'
  BY <1>4 DEF StopCheck, Terminated
<1>5. ASSUME NEW c \in Cmds, StopKill(c) PROVE TypeOK'
  BY <1>5 DEF StopKill
<1>6. ASSUME NEW d \in Starts, OpenPidFile(d) PROVE TypeOK'
  BY <1>6 DEF OpenPidFile
<1>7. ASSUME NEW d \in Starts, Flock(d) PROVE TypeOK'
  BY <1>7 DEF Flock
<1>8. ASSUME NEW d \in Starts, UnlinkStaleSock(d) PROVE TypeOK'
  BY <1>8 DEF UnlinkStaleSock
<1>9. ASSUME NEW d \in Starts,
             OpenForWrite(d, "note", "noting") \/ OpenForWrite(d, "record", "recording")
      PROVE  TypeOK'
  BY <1>9 DEF OpenForWrite
<1>10. ASSUME NEW d \in Starts,
              WritePid(d, "noting", "load") \/ WritePid(d, "recording", "serve")
       PROVE  TypeOK'
  BY <1>10 DEF WritePid
<1>11. ASSUME NEW d \in Starts, LoadAndBind(d) PROVE TypeOK'
  BY <1>11 DEF LoadAndBind
<1>12. ASSUME NEW d \in Starts,
              DaemonRemovePid(d) \/ DaemonRemoveSock(d) \/ Shutdown(d)
       PROVE  TypeOK'
  <2>1. CASE DaemonRemovePid(d)
    BY <2>1 DEF DaemonRemovePid
  <2>2. CASE DaemonRemoveSock(d)
    BY <2>2 DEF DaemonRemoveSock
  <2>3. CASE Shutdown(d)
    BY <2>3 DEF Shutdown
  <2>4. QED
    BY <1>12, <2>1, <2>2, <2>3
<1>13. ASSUME NEW d \in Starts, Fail(d) \/ KilledDies(d) PROVE TypeOK'
  BY <1>13 DEF Fail, KilledDies
<1>14. CASE UNCHANGED vars
  BY <1>14 DEF vars
<1>15. QED
  BY <1>1, <1>2, <1>3, <1>4, <1>5, <1>6, <1>7, <1>8, <1>9, <1>10, <1>11,
   <1>12, <1>13, <1>14 DEF Next, CmdStep, DaemonStep

\* The variables keep their types, whatever races.
THEOREM TypeCorrect == Spec => []TypeOK
  BY TypeInit, TypeStep, PTL DEF Spec

-----------------------------------------------------------------------------
(* `stop` ends its target.  A pid that was ever written belongs to a daemon *)
(* that was born, and a start command forks only once, so a dead target     *)
(* cannot come back to life behind the command that ended it.               *)

BornOnce == \A s \in Starts : cmd[s] # "done" => daemon[s] = "unborn"

PidsAreBorn ==
  /\ \A i \in Inodes : content[i] # Nil => daemon[content[i]] # "unborn"
  /\ \A c \in Cmds : seen[c] # Nil => daemon[seen[c]] # "unborn"

TargetDead ==
  \A c \in Stops : cmd[c] \in {"rm_pid", "rm_sock", "done"} /\ seen[c] # Nil
                      => daemon[seen[c]] = "dead" \/ seen[c] \in killed

OnlyStartsWait == \A c \in Cmds : cmd[c] = "wait" => c \in Starts

StopInv == TypeOK /\ OnlyStartsWait /\ BornOnce /\ PidsAreBorn /\ TargetDead

\* A stop that found a pid returns only when that process is gone or has been sent
\* SIGKILL, for any number of commands, crashes and daemons.
THEOREM StopIsEffective == Spec => []StopEndsItsTarget
<1> USE ConstantsOK DEF OnlyStartsWait, BornOnce, PidsAreBorn, TargetDead, Cmds
<1>1. Init => StopInv
  BY TypeInit DEF Init, StopInv
<1>2. StopInv /\ [Next]_vars => StopInv'
  <2> SUFFICES ASSUME StopInv, [Next]_vars PROVE StopInv'
    OBVIOUS
  <2>0. TypeOK /\ TypeOK'
    BY TypeStep DEF StopInv
  <2> USE <2>0 DEF TypeOK, Goto, Become, Dies, read_pid, process_alive
  <2> SUFFICES OnlyStartsWait' /\ BornOnce' /\ PidsAreBorn' /\ TargetDead'
    BY DEF StopInv
  <2>a. OnlyStartsWait /\ BornOnce /\ PidsAreBorn /\ TargetDead
    BY DEF StopInv
  <2>1. ASSUME NEW c \in Cmds, ReadPid(c)
        PROVE  OnlyStartsWait' /\ BornOnce' /\ PidsAreBorn' /\ TargetDead'
    BY <2>1, <2>a DEF ReadPid
  <2>2. ASSUME NEW c \in Cmds,
               StartCheck(c) \/ StartPollOk(c) \/ StartGiveUp(c) \/ StatusCheck(c)
                 \/ StopSeesDeath(c) \/ CmdRemovePid(c) \/ CmdRemoveSock(c)
        PROVE  OnlyStartsWait' /\ BornOnce' /\ PidsAreBorn' /\ TargetDead'
    BY <2>2, <2>a DEF StartCheck, StartPollOk, StartGiveUp, StatusCheck,
                StopSeesDeath, CmdRemovePid, CmdRemoveSock
  <2>3. ASSUME NEW c \in Cmds, Fork(c)
        PROVE  OnlyStartsWait' /\ BornOnce' /\ PidsAreBorn' /\ TargetDead'
    BY <2>3, <2>a DEF Fork
  <2>4. ASSUME NEW c \in Cmds, StopCheck(c) \/ StopKill(c)
        PROVE  OnlyStartsWait' /\ BornOnce' /\ PidsAreBorn' /\ TargetDead'
    BY <2>4, <2>a DEF StopCheck, Terminated, StopKill
  <2>5. ASSUME NEW d \in Starts, DaemonStep(d) \/ Shutdown(d) \/ Fail(d) \/ KilledDies(d)
        PROVE  OnlyStartsWait' /\ BornOnce' /\ PidsAreBorn' /\ TargetDead'
    BY <2>5, <2>a DEF DaemonStep, OpenPidFile, Flock, UnlinkStaleSock, OpenForWrite,
       WritePid, LoadAndBind, DaemonRemovePid, DaemonRemoveSock, Shutdown, Fail,
       KilledDies
  <2>6. CASE UNCHANGED vars
    BY <2>6, <2>a DEF vars
  <2>7. QED
    BY <2>1, <2>2, <2>3, <2>4, <2>5, <2>6 DEF Next, CmdStep
<1>3. StopInv => StopEndsItsTarget
  BY DEF StopInv, StopEndsItsTarget, process_alive
<1>4. QED
  BY <1>1, <1>2, <1>3, PTL DEF Spec

-----------------------------------------------------------------------------
(* One daemon.  As long as no file is removed under a daemon that uses it,  *)
(* the pid path names the inode of every descriptor in use, so the flock on *)
(* that inode is a lock on "being the daemon", and the socket is its own.   *)

InUse ==
  /\ \A d \in Starts : Uses(d) => fd[d] = pidPath /\ pidPath # Nil
  /\ \A d \in Starts : daemon[d] \in {"noting", "recording"} => wfd[d] = pidPath
  /\ \A d \in Starts : Bound(d) => sock = d
  /\ \A d, e \in Starts : Runs(d) /\ Runs(e) => d = e

UseInv == TypeOK /\ BornOnce /\ (undermined \/ InUse)

LEMMA UseInit == Init => UseInv
  BY ConstantsOK, TypeInit
  DEF Init, UseInv, BornOnce, InUse, Uses, Runs, Bound, Locked, Cmds

LEMMA UseStep == UseInv /\ [Next]_vars => UseInv'
<1> SUFFICES ASSUME UseInv, [Next]_vars PROVE UseInv'
  OBVIOUS
<1>0. TypeOK /\ TypeOK' /\ BornOnce /\ (undermined \/ InUse)
  BY TypeStep DEF UseInv
<1> SUFFICES BornOnce' /\ (undermined' \/ InUse')
  BY <1>0 DEF UseInv
<1> USE ConstantsOK, <1>0
    DEF TypeOK, BornOnce, InUse, Uses, Runs, Bound, Locked, Goto, Become, Dies, Cmds
<1>1. ASSUME NEW c \in Cmds,
             ReadPid(c) \/ StartCheck(c) \/ StartPollOk(c) \/ StartGiveUp(c)
               \/ StatusCheck(c) \/ StopSeesDeath(c)
      PROVE  BornOnce' /\ (undermined' \/ InUse')
  BY <1>1 DEF ReadPid, StartCheck, StartPollOk, StartGiveUp, StatusCheck, StopSeesDeath
<1>2. ASSUME NEW c \in Cmds, Fork(c) PROVE BornOnce' /\ (undermined' \/ InUse')
  BY <1>2 DEF Fork
<1>3. ASSUME NEW c \in Cmds, StopCheck(c) PROVE BornOnce' /\ (undermined' \/ InUse')
  BY <1>3 DEF StopCheck, Terminated, process_alive
<1>4. ASSUME NEW c \in Cmds, StopKill(c) PROVE BornOnce' /\ (undermined' \/ InUse')
  BY <1>4 DEF StopKill, process_alive
\* Whoever removes the pid file undermines every daemon that uses it; a start
\* that does has not forked yet.
<1>5. ASSUME NEW c \in Cmds, CmdRemovePid(c) PROVE BornOnce' /\ (undermined' \/ InUse')
  BY <1>5 DEF CmdRemovePid, PidFileInUse
<1>6. ASSUME NEW c \in Cmds, CmdRemoveSock(c) PROVE BornOnce' /\ (undermined' \/ InUse')
  BY <1>6 DEF CmdRemoveSock, SockInUse
<1>7. ASSUME NEW d \in Starts, OpenPidFile(d) PROVE BornOnce' /\ (undermined' \/ InUse')
  BY <1>7 DEF OpenPidFile
\* The only step that takes the lock: the path names the inode every daemon
\* that runs has locked, so a second winner finds it taken.
<1>8. ASSUME NEW d \in Starts, Flock(d) PROVE BornOnce' /\ (undermined' \/ InUse')
  <2>1. CASE LockFree(fd[d])
    <3>1. undermined \/ \A e \in Starts : ~Runs(e)
      BY <1>8, <2>1 DEF Flock, LockFree, HasLock
    <3>2. QED
      BY <1>8, <2>1, <3>1 DEF Flock
  <2>2. CASE ~LockFree(fd[d])
    BY <1>8, <2>2 DEF Flock
  <2>3. QED
    BY <2>1, <2>2
<1>9. ASSUME NEW d \in Starts, UnlinkStaleSock(d) PROVE BornOnce' /\ (undermined' \/ InUse')
  BY <1>9 DEF UnlinkStaleSock
<1>10. ASSUME NEW d \in Starts,
              OpenForWrite(d, "note", "noting") \/ OpenForWrite(d, "record", "recording")
       PROVE  BornOnce' /\ (undermined' \/ InUse')
  BY <1>10 DEF OpenForWrite
<1>11. ASSUME NEW d \in Starts,
              WritePid(d, "noting", "load") \/ WritePid(d, "recording", "serve")
       PROVE  BornOnce' /\ (undermined' \/ InUse')
  BY <1>11 DEF WritePid
<1>12. ASSUME NEW d \in Starts, LoadAndBind(d) PROVE BornOnce' /\ (undermined' \/ InUse')
  BY <1>12 DEF LoadAndBind
<1>13. ASSUME NEW d \in Starts, Shutdown(d) \/ Fail(d) \/ KilledDies(d)
       PROVE  BornOnce' /\ (undermined' \/ InUse')
  BY <1>13 DEF Shutdown, Fail, KilledDies, process_alive
<1>14. ASSUME NEW d \in Starts, DaemonRemovePid(d)
       PROVE  BornOnce' /\ (undermined' \/ InUse')
  BY <1>14 DEF DaemonRemovePid, PidFileInUse
<1>15. ASSUME NEW d \in Starts, DaemonRemoveSock(d)
       PROVE  BornOnce' /\ (undermined' \/ InUse')
  BY <1>15 DEF DaemonRemoveSock, SockInUse
<1>16. CASE UNCHANGED vars
  BY <1>16 DEF vars
<1>17. QED
  BY <1>1, <1>2, <1>3, <1>4, <1>5, <1>6, <1>7, <1>8, <1>9, <1>10, <1>11, <1>12,
     <1>13, <1>14, <1>15, <1>16 DEF Next, CmdStep, DaemonStep

\* However many starts, stops, idle exits and deaths race, one daemon_main runs
\* past the lock (daemon.rs:166-178), unless the files of one that runs go.
THEOREM OneDaemonWins == Spec => []SingleDaemon
<1>1. UseInv => SingleDaemon
  BY DEF UseInv, InUse, SingleDaemon
<1>2. QED
  BY UseInit, UseStep, <1>1, PTL DEF Spec

\* Under the same condition the recorded pid is the socket owner's
\* (daemon.rs:208).
THEOREM PidIsSocketOwner == Spec => []OwnerRecorded
<1>1. UseInv => OwnerRecorded
  BY DEF UseInv, InUse, OwnerRecorded, Announced, Bound
<1>2. QED
  BY UseInit, UseStep, <1>1, PTL DEF Spec

-----------------------------------------------------------------------------
(* Starts alone undermine nobody: without stops, crashes and idle exits,    *)
(* and with models that load before a waiting start gives up, no command    *)
(* ever reaches cleanup_daemon_files.                                       *)

Calm == Stops = {} /\ MaxFailures = 0 /\ TimelyLoad /\ ~IdleExit

\* Nobody is removing files.
NoCleanup ==
  /\ \A c \in Cmds : cmd[c] \notin {"rm_pid", "rm_sock", "await"}
  /\ \A d \in Starts : daemon[d] \notin {"rm_pid", "rm_sock"}

\* Pids in the file and in commands are those of the daemon that runs.
PidsRun ==
  /\ pidPath # Nil /\ content[pidPath] # Nil => Runs(content[pidPath])
  /\ \A c \in Cmds : cmd[c] \in {"check", "wait"} => seen[c] \in Starts /\ Runs(seen[c])

CalmParts ==
  /\ OnlyStartsWait /\ NoCleanup /\ PidsRun /\ killed = {}
  /\ (sock # Nil => Bound(sock)) /\ ~undermined

CalmInv == UseInv /\ CalmParts

LEMMA CalmStep == ASSUME Calm PROVE CalmInv /\ [Next]_vars => CalmInv'
<1> SUFFICES ASSUME CalmInv, [Next]_vars PROVE CalmInv'
  OBVIOUS
<1>0. TypeOK /\ TypeOK' /\ BornOnce /\ InUse /\ CalmParts
  BY TypeStep DEF CalmInv, UseInv, CalmParts
<1> SUFFICES CalmParts'
  BY UseStep DEF CalmInv
<1> USE ConstantsOK, <1>0
    DEF Calm, CalmParts, TypeOK, OnlyStartsWait, BornOnce, NoCleanup, InUse, PidsRun,
        Uses, Runs, Bound, HasLock, Locked, Goto, Become, Dies, read_pid, process_alive, Cmds
<1>1. ASSUME NEW c \in Cmds, ReadPid(c) PROVE CalmParts'
  BY <1>1 DEF ReadPid
<1>2. ASSUME NEW c \in Cmds, StartCheck(c) \/ StartPollOk(c) \/ StatusCheck(c)
      PROVE  CalmParts'
  BY <1>2 DEF StartCheck, StartPollOk, StatusCheck
\* A start that stops waiting would have seen the socket of a live daemon.
<1>3. ASSUME NEW c \in Cmds, StartGiveUp(c) PROVE FALSE
  BY <1>3 DEF StartGiveUp, Starting, daemon_socket_connectable
<1>4. ASSUME NEW c \in Cmds, Fork(c) PROVE CalmParts'
  BY <1>4 DEF Fork
<1>5. ASSUME NEW c \in Cmds,
             StopCheck(c) \/ StopSeesDeath(c) \/ StopKill(c)
               \/ CmdRemovePid(c) \/ CmdRemoveSock(c)
      PROVE  FALSE
  BY <1>5 DEF StopCheck, StopSeesDeath, StopKill, CmdRemovePid, CmdRemoveSock
<1>6. ASSUME NEW d \in Starts, OpenPidFile(d) PROVE CalmParts'
  BY <1>6 DEF OpenPidFile, FreeInode
<1>7. ASSUME NEW d \in Starts, Flock(d) PROVE CalmParts'
  BY <1>7 DEF Flock
<1>8. ASSUME NEW d \in Starts, UnlinkStaleSock(d) PROVE CalmParts'
  BY <1>8 DEF UnlinkStaleSock
<1>9. ASSUME NEW d \in Starts,
             OpenForWrite(d, "note", "noting") \/ OpenForWrite(d, "record", "recording")
      PROVE  CalmParts'
  BY <1>9 DEF OpenForWrite
<1>10. ASSUME NEW d \in Starts,
              WritePid(d, "noting", "load") \/ WritePid(d, "recording", "serve")
       PROVE  CalmParts'
  BY <1>10 DEF WritePid
<1>11. ASSUME NEW d \in Starts, LoadAndBind(d) PROVE CalmParts'
  BY <1>11 DEF LoadAndBind
<1>12. ASSUME NEW d \in Starts,
              DaemonRemovePid(d) \/ DaemonRemoveSock(d) \/ Shutdown(d) \/ Fail(d)
                \/ KilledDies(d)
       PROVE  FALSE
  BY <1>12 DEF DaemonRemovePid, DaemonRemoveSock, Shutdown, Fail, KilledDies
<1>13. CASE UNCHANGED vars
  BY <1>13 DEF vars
<1>14. QED
  BY <1>1, <1>2, <1>3, <1>4, <1>5, <1>6, <1>7, <1>8, <1>9, <1>10, <1>11,
     <1>12, <1>13 DEF Next, CmdStep, DaemonStep

LEMMA CalmInit == ASSUME Calm PROVE Init => CalmInv
  BY ConstantsOK, UseInit
  DEF Init, CalmInv, CalmParts, OnlyStartsWait, NoCleanup, PidsRun, Runs, Bound, Locked, Cmds

\* However many starts race, in calm conditions none takes the files of a daemon
\* that still loads for stale (daemon.rs:78-95).
THEOREM StartsAreHarmless == ASSUME Calm PROVE Spec => []~undermined
<1>1. CalmInv => ~undermined
  BY DEF CalmInv, CalmParts
<1>2. QED
  BY CalmInit, CalmStep, <1>1, PTL DEF Spec
=============================================================================
