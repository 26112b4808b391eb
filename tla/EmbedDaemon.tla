----------------------------- MODULE EmbedDaemon -----------------------------
(***************************************************************************)
(* The life cycle of PandaFilter's embedding daemon: the `panda daemon     *)
(* start | stop | status` commands and the daemon processes they fork,     *)
(* racing over two path names, embed.pid and embed.sock.                   *)
(*                                                                         *)
(* A start command s forks at most one daemon, so the daemon's process id  *)
(* is s itself: "start command s" and "daemon s" are different processes,  *)
(* with their phases in cmd[s] and daemon[s].  The pid file is a path that *)
(* names an inode: flock() locks the inode, unlink() frees the path, and   *)
(* whoever opens the path afterwards gets a fresh inode.  The socket file  *)
(* is named by the daemon that bound it.                                   *)
(*                                                                         *)
(* Sleeps and poll counts (6 x 500 ms in start, 30 x 100 ms in stop) are   *)
(* abstracted to "the budget may run out at any poll".                     *)
(***************************************************************************)
EXTENDS Naturals

CONSTANTS
  Starts,        \* `daemon start` commands, typed by hand or spawned by hooks
  Stops,         \* `daemon stop` commands
  Statuses,      \* `daemon status` commands
  Inodes,        \* inode numbers the file system hands out
  Nil,           \* no process, no file, an empty pid file
  MaxFailures,   \* bound on crashes, kill -9s and failed model loads
  TimelyLoad,    \* a daemon binds its socket before a start stops waiting for it
  IdleExit,      \* daemons may shut down by themselves (idle, accept error)
  LastStart      \* a start that comes when everything else has settled, or Nil

Cmds == Starts \cup Stops \cup Statuses

ASSUME ConstantsOK ==
  /\ Nil \notin Starts \cup Inodes
  /\ Starts \cap (Stops \cup Statuses) = {}
  /\ Stops \cap Statuses = {}
  /\ Inodes \subseteq Nat /\ MaxFailures \in Nat
  /\ TimelyLoad \in BOOLEAN /\ IdleExit \in BOOLEAN
  /\ LastStart \in Starts \cup {Nil}

VARIABLES
  cmd,      \* phase of each command
  seen,     \* the pid each command read from the pid file
  daemon,   \* phase of each daemon process
  fd,       \* inode of the daemon's pid_lock descriptor
  wfd,      \* inode of the descriptor fs::write has just opened and truncated
  pidPath,  \* inode the path embed.pid names
  content,  \* pid written in each inode
  sock,     \* daemon that bound the socket the path embed.sock names
  failures,
  killed,   \* processes a stop has sent SIGKILL
  undermined  \* somebody has removed a file that a running daemon relied on

vars ==
  <<cmd, seen, daemon, fd, wfd, pidPath, content, sock, failures, killed, undermined>>

CmdPhases == {"read", "check", "wait", "rm_pid", "rm_sock", "fork", "await", "done"}
Locked == {"unlink", "note", "noting", "load", "record", "recording",
           "serve", "rm_pid", "rm_sock"}
DaemonPhases == {"unborn", "open", "flock", "dead"} \cup Locked

Init ==
  /\ cmd = [c \in Cmds |-> "read"]
  /\ seen = [c \in Cmds |-> Nil]
  /\ daemon = [d \in Starts |-> "unborn"]
  /\ fd = [d \in Starts |-> Nil]
  /\ wfd = [d \in Starts |-> Nil]
  /\ pidPath = Nil
  /\ content = [i \in Inodes |-> Nil]
  /\ sock = Nil
  /\ failures = 0
  /\ killed = {}
  /\ undermined = FALSE

-----------------------------------------------------------------------------
(* What a process can observe of the others.                               *)

MutEmptyFileIsPidZero ==
  IF pidPath = Nil THEN Nil ELSE IF content[pidPath] = Nil THEN 0 ELSE content[pidPath]

read_pid == IF pidPath = Nil THEN Nil ELSE content[pidPath]

process_alive(d) == daemon[d] \notin {"unborn", "dead"}

\* connect() succeeds on a bound path whose listener is still open; the
\* socket file of a dead daemon refuses.
daemon_socket_connectable == sock # Nil /\ process_alive(sock)

\* flock is held on the inode, until the holder's process dies.
HasLock(d) == daemon[d] \in Locked
LockFree(i) == \A e \in Starts : HasLock(e) => fd[e] # i

\* A daemon other than by's relies on the pid file it has opened, or on the socket
\* it has bound: while it runs, the lock and the address mean nothing elsewhere.
Runs(d) == daemon[d] \in Locked \ {"rm_sock"}
Uses(d) == daemon[d] = "flock" \/ Runs(d)
Bound(d) == daemon[d] \in {"record", "recording", "serve"}
PidFileInUse(by) == \E d \in Starts \ {by} : Uses(d)
SockInUse(by) == sock \in Starts \ {by} /\ Bound(sock)

\* Which of the free numbers a new file gets is of no account: the least.
Free(i) == i # pidPath /\ \A d \in Starts : fd[d] # i /\ wfd[d] # i
FreeInode(i) == Free(i) /\ \A j \in Inodes : Free(j) => i <= j

-----------------------------------------------------------------------------
(* Commands.                                                               *)

Goto(c, phase) == cmd' = [cmd EXCEPT ![c] = phase]

\* Every other command has returned and every daemon is serving or dead, the
\* killed ones dead.
Settled ==
  /\ \A c \in Cmds \ {LastStart} : cmd[c] = "done"
  /\ \A d \in Starts : daemon[d] \in {"unborn", "serve", "dead"}
  /\ \A d \in killed : daemon[d] = "dead"

\* From the last start on nothing goes wrong any more.
Quiescent == LastStart \in Starts /\ cmd[LastStart] # "read"

\* read_pid(): a missing or empty file sends start straight to fork() and
\* ends stop and status.
ReadPid(c) ==
  /\ cmd[c] = "read"
  /\ c = LastStart => Settled
  /\ seen' = [seen EXCEPT ![c] = read_pid]
  /\ Goto(c, IF read_pid # Nil THEN "check"
             ELSE IF c \in Starts THEN "fork" ELSE "done")
  /\ UNCHANGED <<daemon, fd, wfd, pidPath, content, sock, failures, killed, undermined>>

MutStartTrustsPid(c) ==
  /\ cmd[c] = "check"
  /\ c \in Starts
  /\ Goto(c, IF process_alive(seen[c]) THEN "done" ELSE "rm_pid")
  /\ UNCHANGED <<seen, daemon, fd, wfd, pidPath, content, sock, failures, killed, undermined>>

\* start: a live pid with a connectable socket means "already running"; a
\* live pid without one may still be loading its model; a dead pid is stale.
StartCheck(c) ==
  /\ cmd[c] = "check"
  /\ c \in Starts
  /\ Goto(c, IF ~process_alive(seen[c]) THEN "rm_pid"
             ELSE IF daemon_socket_connectable THEN "done" ELSE "wait")
  /\ UNCHANGED <<seen, daemon, fd, wfd, pidPath, content, sock, failures, killed, undermined>>

StartPollOk(c) ==
  /\ cmd[c] = "wait"
  /\ daemon_socket_connectable
  /\ Goto(c, "done")
  /\ UNCHANGED <<seen, daemon, fd, wfd, pidPath, content, sock, failures, killed, undermined>>

\* A daemon that has not reached bind() yet.
Starting(d) == daemon[d] \in {"open", "flock", "unlink", "note", "noting", "load"}

MutStartWaitsForDeath(c) ==
  /\ cmd[c] = "wait"
  /\ ~process_alive(seen[c])
  /\ Goto(c, "rm_pid")
  /\ UNCHANGED <<seen, daemon, fd, wfd, pidPath, content, sock, failures, killed, undermined>>

\* The sixth poll failed: the files are taken for stale although the process
\* is alive.
StartGiveUp(c) ==
  /\ cmd[c] = "wait"
  /\ ~daemon_socket_connectable
  /\ TimelyLoad => ~Starting(seen[c])
  /\ Goto(c, "rm_pid")
  /\ UNCHANGED <<seen, daemon, fd, wfd, pidPath, content, sock, failures, killed, undermined>>

\* cleanup_daemon_files(): two unlinks by path, whoever owns the files now.
CmdRemovePid(c) ==
  /\ cmd[c] = "rm_pid"
  /\ pidPath' = Nil /\ undermined' = (undermined \/ PidFileInUse(c))
  /\ Goto(c, "rm_sock")
  /\ UNCHANGED <<seen, daemon, fd, wfd, content, sock, failures, killed>>

CmdRemoveSock(c) ==
  /\ cmd[c] = "rm_sock"
  /\ sock' = Nil /\ undermined' = (undermined \/ SockInUse(c))
  /\ Goto(c, IF c \in Starts THEN "fork" ELSE "done")
  /\ UNCHANGED <<seen, daemon, fd, wfd, pidPath, content, failures, killed>>

Fork(s) ==
  /\ s \in Starts
  /\ cmd[s] = "fork"
  /\ daemon' = [daemon EXCEPT ![s] = "open"]
  /\ Goto(s, "done")
  /\ UNCHANGED <<seen, fd, wfd, pidPath, content, sock, failures, killed, undermined>>

\* status removes a stale pid file and reports otherwise.
StatusCheck(c) ==
  /\ cmd[c] = "check"
  /\ c \in Statuses
  /\ Goto(c, IF process_alive(seen[c]) THEN "done" ELSE "rm_pid")
  /\ UNCHANGED <<seen, daemon, fd, wfd, pidPath, content, sock, failures, killed, undermined>>

\* The kernel closes the descriptors of a dead process and drops its lock.
Dies(d) ==
  /\ daemon' = [daemon EXCEPT ![d] = "dead"]
  /\ fd' = [fd EXCEPT ![d] = Nil]
  /\ wfd' = [wfd EXCEPT ![d] = Nil]

\* SIGTERM: from "serve" on, the handler wakes the poll loop, which leaves
\* for cleanup; before the handlers are installed the default action kills.
Terminated(d) ==
  CASE daemon[d] = "serve" ->
         daemon' = [daemon EXCEPT ![d] = "rm_pid"] /\ UNCHANGED <<fd, wfd>>
    [] daemon[d] \in {"rm_pid", "rm_sock", "dead"} -> UNCHANGED <<daemon, fd, wfd>>
    [] OTHER -> Dies(d)

MutStopWithoutSignal(c) ==
  /\ cmd[c] = "check"
  /\ c \in Stops
  /\ Goto(c, "rm_pid")
  /\ UNCHANGED <<seen, daemon, fd, wfd, pidPath, content, sock, failures, killed, undermined>>

StopCheck(c) ==
  /\ cmd[c] = "check"
  /\ c \in Stops
  /\ IF process_alive(seen[c])
       THEN Terminated(seen[c]) /\ Goto(c, "await")
       ELSE UNCHANGED <<daemon, fd, wfd>> /\ Goto(c, "rm_pid")
  /\ UNCHANGED <<seen, pidPath, content, sock, failures, killed, undermined>>

StopSeesDeath(c) ==
  /\ cmd[c] = "await"
  /\ ~process_alive(seen[c])
  /\ Goto(c, "rm_pid")
  /\ UNCHANGED <<seen, daemon, fd, wfd, pidPath, content, sock, failures, killed, undermined>>

MutGiveUpWithoutKill(c) ==
  /\ cmd[c] = "await"
  /\ Goto(c, "rm_pid")
  /\ UNCHANGED <<seen, daemon, fd, wfd, pidPath, content, sock, failures, killed, undermined>>

\* Three seconds are up: SIGKILL, and on to the files without waiting for the
\* death (KilledDies), which may come after them.
StopKill(c) ==
  /\ cmd[c] = "await"
  /\ process_alive(seen[c])
  /\ killed' = killed \cup {seen[c]}
  /\ Goto(c, "rm_pid")
  /\ UNCHANGED <<seen, daemon, fd, wfd, pidPath, content, sock, failures, undermined>>

CmdStep(c) ==
  \/ ReadPid(c)
  \/ StartCheck(c) \/ StartPollOk(c) \/ StartGiveUp(c) \/ Fork(c)
  \/ StatusCheck(c)
  \/ StopCheck(c) \/ StopSeesDeath(c) \/ StopKill(c)
  \/ CmdRemovePid(c) \/ CmdRemoveSock(c)

-----------------------------------------------------------------------------
(* Daemons: daemon_main, in program order.                                 *)

Become(d, phase) == daemon' = [daemon EXCEPT ![d] = phase]

\* open(pid_path, O_CREAT): the inode the path names, or a fresh empty one.
OpenPidFile(d) ==
  /\ daemon[d] = "open"
  /\ IF pidPath # Nil
       THEN fd' = [fd EXCEPT ![d] = pidPath] /\ UNCHANGED <<pidPath, content>>
       ELSE \E i \in Inodes :
              /\ FreeInode(i)
              /\ fd' = [fd EXCEPT ![d] = i]
              /\ pidPath' = i
              /\ content' = [content EXCEPT ![i] = Nil]
  /\ Become(d, "flock")
  /\ UNCHANGED <<cmd, seen, wfd, sock, failures, killed, undermined>>

MutNoFlock(d) ==
  /\ daemon[d] = "flock"
  /\ Become(d, "unlink")
  /\ UNCHANGED <<cmd, seen, fd, wfd, pidPath, content, sock, failures, killed, undermined>>

\* flock(LOCK_EX | LOCK_NB): the winner goes on, a loser exits silently.
Flock(d) ==
  /\ daemon[d] = "flock"
  /\ IF LockFree(fd[d]) THEN Become(d, "unlink") /\ UNCHANGED <<fd, wfd>>
                        ELSE Dies(d)
  /\ UNCHANGED <<cmd, seen, pidPath, content, sock, failures, killed, undermined>>

UnlinkStaleSock(d) ==
  /\ daemon[d] = "unlink"
  /\ sock' = Nil
  /\ Become(d, "note")
  /\ UNCHANGED <<cmd, seen, fd, wfd, pidPath, content, failures, killed, undermined>>

\* fs::write(pid_path): O_CREAT | O_TRUNC opens whatever inode the path names
\* NOW, which need not be the locked one, and empties it...
OpenForWrite(d, from, to) ==
  /\ daemon[d] = from
  /\ \E i \in Inodes :
       /\ IF pidPath # Nil THEN i = pidPath ELSE FreeInode(i)
       /\ wfd' = [wfd EXCEPT ![d] = i]
       /\ pidPath' = i
       /\ content' = [content EXCEPT ![i] = Nil]
  /\ Become(d, to)
  /\ UNCHANGED <<cmd, seen, fd, sock, failures, killed, undermined>>

\* ... and then writes the pid into it.
WritePid(d, from, to) ==
  /\ daemon[d] = from
  /\ content' = [content EXCEPT ![wfd[d]] = d]
  /\ wfd' = [wfd EXCEPT ![d] = Nil]
  /\ Become(d, to)
  /\ UNCHANGED <<cmd, seen, fd, pidPath, sock, failures, killed, undermined>>

\* preload_model(), seconds long, then UnixListener::bind, which fails with
\* EADDRINUSE when a socket file is there; `?` then ends the process.
LoadAndBind(d) ==
  /\ daemon[d] = "load"
  /\ IF sock = Nil THEN sock' = d /\ Become(d, "record") /\ UNCHANGED <<fd, wfd>>
                   ELSE Dies(d) /\ UNCHANGED sock
  /\ UNCHANGED <<cmd, seen, pidPath, content, failures, killed, undermined>>

\* The idle watchdog's SIGTERM to itself, or a failed accept or poll.
Shutdown(d) ==
  /\ IdleExit /\ ~Quiescent
  /\ daemon[d] = "serve"
  /\ Become(d, "rm_pid")
  /\ UNCHANGED <<cmd, seen, fd, wfd, pidPath, content, sock, failures, killed, undermined>>

\* cleanup_daemon_files() at exit: by path again.
DaemonRemovePid(d) ==
  /\ daemon[d] = "rm_pid"
  /\ pidPath' = Nil /\ undermined' = (undermined \/ PidFileInUse(d))
  /\ Become(d, "rm_sock")
  /\ UNCHANGED <<cmd, seen, fd, wfd, content, sock, failures, killed>>

DaemonRemoveSock(d) ==
  /\ daemon[d] = "rm_sock"
  /\ sock' = Nil /\ undermined' = (undermined \/ SockInUse(d))
  /\ Dies(d)
  /\ UNCHANGED <<cmd, seen, pidPath, content, failures, killed>>

\* A crash, a kill -9, a failed preload_model: nothing is cleaned up.
Fail(d) ==
  /\ process_alive(d) /\ ~Quiescent
  /\ failures < MaxFailures
  /\ failures' = failures + 1
  /\ Dies(d)
  /\ UNCHANGED <<cmd, seen, pidPath, content, sock, killed, undermined>>

\* The kernel ends a process that was sent SIGKILL, which may have gone on for a
\* few steps.
KilledDies(d) ==
  /\ d \in killed
  /\ process_alive(d)
  /\ Dies(d)
  /\ UNCHANGED <<cmd, seen, pidPath, content, sock, failures, killed, undermined>>

DaemonStep(d) ==
  \/ OpenPidFile(d) \/ Flock(d) \/ UnlinkStaleSock(d)
  \/ OpenForWrite(d, "note", "noting") \/ WritePid(d, "noting", "load")
  \/ LoadAndBind(d)
  \/ OpenForWrite(d, "record", "recording") \/ WritePid(d, "recording", "serve")
  \/ DaemonRemovePid(d) \/ DaemonRemoveSock(d)

Next ==
  \/ \E c \in Cmds : CmdStep(c)
  \/ \E d \in Starts : DaemonStep(d) \/ Shutdown(d) \/ Fail(d) \/ KilledDies(d)

\* Every process keeps running unless it is killed, and a killed one dies; nothing
\* obliges a daemon to go idle or to crash.
Fairness ==
  /\ \A c \in Cmds : WF_vars(CmdStep(c))
  /\ \A d \in Starts : WF_vars(DaemonStep(d)) /\ WF_vars(KilledDies(d))

Spec == Init /\ [][Next]_vars
FairSpec == Spec /\ Fairness
-----------------------------------------------------------------------------
(* Properties.                                                             *)

\* The variables hold commands' phases, pids, inodes and at most MaxFailures
\* failures; a command that checks or awaits a process has read its pid.
TypeOK ==
  /\ cmd \in [Cmds -> CmdPhases]
  /\ seen \in [Cmds -> Starts \cup {Nil}]
  /\ \A c \in Cmds : cmd[c] \in {"check", "wait", "await"} => seen[c] # Nil
  /\ daemon \in [Starts -> DaemonPhases]
  /\ fd \in [Starts -> Inodes \cup {Nil}]
  /\ wfd \in [Starts -> Inodes \cup {Nil}]
  /\ pidPath \in Inodes \cup {Nil}
  /\ content \in [Inodes -> Starts \cup {Nil}]
  /\ sock \in Starts \cup {Nil}
  /\ failures \in 0..MaxFailures
  /\ killed \subseteq Starts
  /\ undermined \in BOOLEAN

\* daemon.rs:166: "only one daemon_main wins the lock; the other exits
\* silently" -- no two daemons run past the flock, whatever starts, stops, idle
\* exits and deaths race, as long as nobody removes the files of a daemon that runs
\* (which a start does that waits no longer for a model that still loads).
SingleDaemon == ~undermined => \A d, e \in Starts : Runs(d) /\ Runs(e) => d = e

\* Phases after the second fs::write of the pid.
Announced(d) == daemon[d] = "serve"

\* daemon.rs:209: "the PID recorded here always belongs to the process that
\* owns the socket" -- under the same condition, a daemon that has recorded its pid
\* after bind() and is still the one recorded is the one whose socket the path names.
OwnerRecorded ==
  ~undermined => \A d \in Starts : Announced(d) /\ read_pid = d => sock = d

\* Whatever races with it, a `stop` that found a pid takes the files away, and
\* returns, only once the process with that pid is gone or has been sent SIGKILL
\* (daemon.rs:454-470: SIGTERM, wait, SIGKILL).
StopEndsItsTarget ==
  \A c \in Stops : cmd[c] \in {"rm_pid", "rm_sock", "done"} /\ seen[c] # Nil
                      => ~process_alive(seen[c]) \/ seen[c] \in killed

\* Every command returns: no interleaving of daemons that load, die or
\* replace each other's files keeps start or stop in its polling loop.
CommandsReturn == \A c \in Cmds : <>(cmd[c] = "done")

\* From some point on a client's connect() always succeeds.
EventuallyServed == <>[]daemon_socket_connectable
=============================================================================
