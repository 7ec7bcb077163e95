------------------------------ MODULE Supervisor ------------------------------
(***************************************************************************)
(* The yugabyte-db start script (src/bin/yugabyte-db) and the servers it   *)
(* runs.  Every invocation of "yugabyte-db start" is a supervisor: it      *)
(* cleans a half-initialised data directory, refuses to start when a       *)
(* pidfile names a live server, starts yb-master and yb-tserver, waits for *)
(* them to initialise, then polls them forever, restarting any that is not *)
(* running.  kill_yugabyte (signal handler and atexit hook) deletes the    *)
(* pidfiles and kills the process group.                                   *)
(*                                                                         *)
(* A server (RpcServerBase in server_base.cc) binds its RPC port in Init;  *)
(* a bind failure is logged to its ERROR log and the process exits.  Once  *)
(* the RPC server has started, StartRpcServer dumps the server info file   *)
(* that the script's is_initalized looks for.                              *)
(*                                                                         *)
(* Supervisors share the data directory: the pidfiles, the info files and  *)
(* the servers' ERROR logs all live under it.  A supervisor's script runs  *)
(* one file-system operation per step; servers and signals interleave.    *)
(* get_pid reads the pidfile in one step and runs ps (and deletes the     *)
(* pidfile) in the next; ProcessManager.start truncates the pidfile in one *)
(* step and writes the pid in the next; kill_yugabyte deletes the pidfiles *)
(* in one step and signals the process group in the next, and the servers  *)
(* exit on SIGTERM in steps of their own.                                  *)
(***************************************************************************)
EXTENDS Integers, Sequences, FiniteSets, TLC

CONSTANTS
  Sups,         \* invocations of "yugabyte-db start"
  LateSups,     \* invocations the user makes only once the database is up
  Signalled,    \* invocations that may receive SIGINT, SIGTERM or SIGABRT
  MaxCrashes,   \* server crashes the environment may cause
  MaxStarts,    \* processes one supervisor may start per server name
  InitPolls,    \* iterations of initalize's wait loop (range(60))
  DirStates,    \* what the data directory may hold before any invocation
  MaxReuses,    \* pids of dead servers the system may hand to other processes
  NoProc,       \* no process
  EmptyFile     \* a pidfile opened with "w+" and not yet written

ASSUME LateSups \subseteq Sups /\ Signalled \subseteq Sups
ASSUME DirStates \subseteq {"absent", "partial", "initialised"} /\ DirStates # {}
ASSUME MaxReuses \in Nat
ASSUME MaxCrashes \in Nat /\ MaxStarts \in Nat \ {0} /\ InitPolls \in Nat \ {0}

\* self.processes, in the order start_processes builds it.
Names == <<"master", "tserver">>
NameSet == {"master", "tserver"}

\* A server process: started by supervisor sup, the k-th for its name.
Procs == [sup : Sups, name : NameSet, k : 1..MaxStarts]

VARIABLES
  pc,          \* where each supervisor's script is
  idx,         \* index into self.processes of the loop it is in
  initFlag,    \* start's local "initialized"
  tracked,     \* self.processes is non-empty
  child,       \* ProcessManager.process of each name
  starts,      \* processes started so far, per name
  polls,       \* iterations of initalize's wait loop done
  exitReason,  \* why the supervisor went to kill_yugabyte
  procState,   \* "none", "binding", "bound", "serving" or "dead"
  dataDir,     \* the data directory exists
  wipes,       \* times a supervisor removed the data directory
  infoFiles,   \* names whose server info file exists
  pidfile,     \* the pid each pidfile holds
  errLog,      \* the name's ERROR log reports a bind failure
  port,        \* the process bound to the name's RPC port
  crashes,     \* crashes so far
  foreign,     \* dead servers whose pid now belongs to another process
               \* whose command contains the server's name
  half,        \* get_pid has read the pidfile and not yet run ps
  readPid,     \* the pid get_pid read (NoProc: none)
  pending,     \* the process whose pid ProcessManager.start is writing
  unlinked     \* the pidfile that write goes to was removed since "w+"

vars == <<pc, idx, initFlag, tracked, child, starts, polls, exitReason,
          procState, dataDir, wipes, infoFiles, pidfile, errLog, port, crashes,
          foreign, half, readPid, pending, unlinked>>
supVars == <<pc, idx, initFlag, tracked, child, starts, polls, exitReason,
             half, readPid, pending, unlinked>>

\* A server process exists; "stopping" has had SIGTERM and not yet exited.
Alive(p) == p \in Procs /\ procState[p] \in {"binding", "bound", "serving", "stopping"}

\* The processes of P die; the ports they held are free again.
Die(P) ==
  /\ procState' = [p \in Procs |-> IF p \in P THEN "dead" ELSE procState[p]]
  /\ port' = [n \in NameSet |-> IF port[n] \in P THEN NoProc ELSE port[n]]

\* Before any invocation: a fresh machine ("absent"), a directory left by
\* an initialisation that failed part way ("partial": any info files but
\* not all), or one left by a stopped database ("initialised").
Init ==
  /\ pc = [s \in Sups |-> "idle"]
  /\ idx = [s \in Sups |-> 1]
  /\ initFlag = [s \in Sups |-> FALSE]
  /\ tracked = [s \in Sups |-> FALSE]
  /\ child = [s \in Sups |-> [n \in NameSet |-> NoProc]]
  /\ starts = [s \in Sups |-> [n \in NameSet |-> 0]]
  /\ polls = [s \in Sups |-> 0]
  /\ exitReason = [s \in Sups |-> "none"]
  /\ procState = [p \in Procs |-> "none"]
  /\ \E d \in DirStates :
       /\ dataDir = (d # "absent")
       /\ infoFiles \in CASE d = "absent"      -> {{}}
                          [] d = "partial"     -> SUBSET NameSet \ {NameSet}
                          [] d = "initialised" -> {NameSet}
  /\ wipes = 0
  /\ pidfile = [n \in NameSet |-> NoProc]
  /\ errLog = [n \in NameSet |-> FALSE]
  /\ port = [n \in NameSet |-> NoProc]
  /\ crashes = 0
  /\ foreign = {}
  /\ half = [s \in Sups |-> FALSE]
  /\ readPid = [s \in Sups |-> NoProc]
  /\ pending = [s \in Sups |-> NoProc]
  /\ unlinked = [s \in Sups |-> FALSE]

-----------------------------------------------------------------------------
(* Helpers of the script.                                                  *)
(***************************************************************************)

\* is_initalized: every info file exists.
IsInitalized == infoFiles = NameSet

\* "ps -p pid -o command=" names the server: the server itself is alive, or
\* its pid was reused by a process whose command contains the name.
PsShowsName(p) == Alive(p) \/ p \in foreign

\* get_pid as one observation of the files and processes: the pid in the
\* pidfile, if "ps" shows a process of that name.  The user's view.
GetPid(n) ==
  IF pidfile[n] \in Procs /\ PsShowsName(pidfile[n]) THEN pidfile[n] ELSE NoProc

\* delete_pidfile (os.remove by path): a ProcessManager.start that has the
\* file open goes on writing into the removed file.
DeletePidfile(n) ==
  /\ pidfile' = [pidfile EXCEPT ![n] = NoProc]
  /\ unlinked' = [x \in Sups |-> unlinked[x] \/ (pending[x] # NoProc /\ pending[x].name = n)]

\* get_pid, first step: read the pidfile.  A missing file gives None; an
\* empty one fails int() and is deleted.
ReadPid(s, n) ==
  /\ readPid' = [readPid EXCEPT ![s] = IF pidfile[n] \in Procs THEN pidfile[n] ELSE NoProc]
  /\ half' = [half EXCEPT ![s] = TRUE]
  /\ IF pidfile[n] = EmptyFile THEN DeletePidfile(n) ELSE UNCHANGED <<pidfile, unlinked>>

\* get_pid's result, once ps has run on the pid it read.
PidShown(s) == readPid[s] # NoProc /\ PsShowsName(readPid[s])

\* get_pid, second step: a pid that ps does not show with the name gets the
\* pidfile deleted, whatever the file holds by now.
PsDrop(s, n) ==
  IF readPid[s] # NoProc /\ ~PsShowsName(readPid[s])
    THEN DeletePidfile(n) ELSE UNCHANGED <<pidfile, unlinked>>

PsDone(s) ==
  /\ half' = [half EXCEPT ![s] = FALSE]
  /\ readPid' = [readPid EXCEPT ![s] = NoProc]

\* is_running as the user sees it: get_pid() and process.poll() is None.
IsRunning(s, n) == GetPid(n) # NoProc /\ Alive(child[s][n])

\* Mutant: is_running trusts get_pid and does not poll its own child.
RunningNoPoll(s, n) == PidShown(s)

\* is_running's result, after check_fatals and the two steps of get_pid.
Running(s, n) == PidShown(s) /\ Alive(child[s][n])

\* Mutant: the loop over self.processes wraps one index too late.
NextIdxWrapLate(s) == [idx EXCEPT ![s] = IF @ > Len(Names) THEN 1 ELSE @ + 1]

NextIdx(s) == [idx EXCEPT ![s] = IF @ = Len(Names) THEN 1 ELSE @ + 1]

\* The next process of a loop over self.processes; after the last, go to
\* "after" with the index reset.
Advance(s, after) ==
  IF idx[s] = Len(Names)
    THEN pc' = [pc EXCEPT ![s] = after] /\ idx' = [idx EXCEPT ![s] = 1]
    ELSE idx' = NextIdx(s) /\ UNCHANGED pc

\* ProcessManager.start, first step: the old ERROR log is removed, the
\* server spawned with Popen, and the pidfile opened "w+" (truncated).
StartProc(s, n) ==
  LET p == [sup |-> s, name |-> n, k |-> starts[s][n] + 1] IN
  /\ starts[s][n] < MaxStarts
  /\ errLog' = [errLog EXCEPT ![n] = FALSE]
  /\ procState' = [procState EXCEPT ![p] = "binding"]
  /\ pidfile' = [pidfile EXCEPT ![n] = EmptyFile]
  /\ pending' = [pending EXCEPT ![s] = p]
  /\ unlinked' = [unlinked EXCEPT ![s] = FALSE]
  /\ child' = [child EXCEPT ![s][n] = p]
  /\ starts' = [starts EXCEPT ![s][n] = @ + 1]

-----------------------------------------------------------------------------
(* The script's steps.                                                     *)
(***************************************************************************)

\* The user has seen "YugaByte DB started successfully!": another
\* supervisor is polling and both its servers are running.
DatabaseUp(s) ==
  \E o \in Sups \ {s} : pc[o] = "loop" /\ \A n \in NameSet : IsRunning(o, n)

\* start: the signal handlers and the atexit hook are installed and the
\* data directory is tested for a finished initialisation.
Start(s) ==
  /\ pc[s] = "idle"
  /\ s \in LateSups => DatabaseUp(s)
  /\ initFlag' = [initFlag EXCEPT ![s] = IsInitalized]
  /\ pc' = [pc EXCEPT ![s] = "clean"]
  /\ UNCHANGED <<idx, tracked, child, starts, polls, exitReason, procState,
                 dataDir, wipes, infoFiles, pidfile, errLog, port, crashes, foreign,
                 half, readPid, pending, unlinked>>

\* start, continued: a data directory without every info file is removed
\* (pidfiles, info files and logs with it) and created afresh; then
\* start_processes builds self.processes.
Clean(s) ==
  LET wipe == ~initFlag[s] /\ dataDir IN
  /\ pc[s] = "clean"
  /\ wipes' = IF wipe THEN wipes + 1 ELSE wipes
  /\ infoFiles' = IF wipe THEN {} ELSE infoFiles
  /\ pidfile' = IF wipe THEN [n \in NameSet |-> NoProc] ELSE pidfile
  /\ unlinked' = IF wipe THEN [x \in Sups |-> unlinked[x] \/ pending[x] # NoProc]
                         ELSE unlinked
  /\ errLog' = IF wipe THEN [n \in NameSet |-> FALSE] ELSE errLog
  /\ dataDir' = TRUE
  /\ initFlag' = [initFlag EXCEPT ![s] = @ /\ dataDir]
  /\ tracked' = [tracked EXCEPT ![s] = TRUE]
  /\ pc' = [pc EXCEPT ![s] = "getpid"]
  /\ idx' = [idx EXCEPT ![s] = 1]
  /\ UNCHANGED <<child, starts, polls, exitReason, procState, port, crashes, foreign,
                 half, readPid, pending>>

\* start_processes: p.get_pid() for each name, its first step.
CheckRunningRead(s) ==
  /\ pc[s] = "getpid" /\ ~half[s]
  /\ ReadPid(s, Names[idx[s]])
  /\ UNCHANGED <<pc, idx, initFlag, tracked, child, starts, polls, exitReason,
                 procState, dataDir, wipes, infoFiles, errLog, port, crashes,
                 foreign, pending>>

\* start_processes, once get_pid has run ps: a live server means "already
\* running": self.processes is cleared and start returns, so the script
\* ends through its atexit hook.
CheckRunning(s) ==
  /\ pc[s] = "getpid" /\ half[s]
  /\ PsDone(s)
  /\ IF PidShown(s)
       THEN /\ tracked' = [tracked EXCEPT ![s] = FALSE]
            /\ exitReason' = [exitReason EXCEPT ![s] = "running"]
            /\ pc' = [pc EXCEPT ![s] = "exit"]
            /\ UNCHANGED <<idx, pidfile, unlinked>>
       ELSE /\ PsDrop(s, Names[idx[s]])
            /\ Advance(s, "spawn")
            /\ UNCHANGED <<tracked, exitReason>>
  /\ UNCHANGED <<initFlag, child, starts, polls, procState, dataDir, wipes,
                 infoFiles, errLog, port, crashes, foreign, pending>>

\* start_processes (initialised: p.start() for each) or initalize (the
\* same loop first): each server is started in turn.
Spawn(s) ==
  /\ pc[s] = "spawn"
  /\ StartProc(s, Names[idx[s]])
  /\ Advance(s, IF initFlag[s] THEN "loop" ELSE "initwait")
  /\ UNCHANGED <<initFlag, tracked, polls, exitReason, dataDir, wipes,
                 infoFiles, port, crashes, foreign, half, readPid>>

\* ProcessManager.start, second step: the pid is written into the file
\* opened "w+", which is no longer the pidfile if someone removed it.
WritePid(s) ==
  /\ pending[s] # NoProc
  /\ pidfile' = IF unlinked[s] THEN pidfile
                ELSE [pidfile EXCEPT ![pending[s].name] = pending[s]]
  /\ pending' = [pending EXCEPT ![s] = NoProc]
  /\ unlinked' = [unlinked EXCEPT ![s] = FALSE]
  /\ UNCHANGED <<pc, idx, initFlag, tracked, child, starts, polls, exitReason,
                 procState, dataDir, wipes, infoFiles, errLog, port, crashes,
                 foreign, half, readPid>>

\* is_running's check_fatals: a bind failure in the ERROR log ends the
\* script with log_error_and_exit.
FatalExit(s) ==
  /\ exitReason' = [exitReason EXCEPT ![s] = "fatal"]
  /\ pc' = [pc EXCEPT ![s] = "exit"]

\* is_running, in initalize's wait loop or the polling loop: check_fatals,
\* then the first step of get_pid.
IsRunningRead(s) ==
  LET n == Names[idx[s]] IN
  /\ pc[s] \in {"initwait", "loop"} /\ ~half[s]
  /\ IF errLog[n]
       THEN FatalExit(s) /\ UNCHANGED <<half, readPid, pidfile, unlinked>>
       ELSE ReadPid(s, n) /\ UNCHANGED <<pc, exitReason>>
  /\ UNCHANGED <<idx, initFlag, tracked, child, starts, polls, procState, dataDir,
                 wipes, infoFiles, errLog, port, crashes, foreign, pending>>

\* initalize's wait loop, once is_running has its answer: return when a
\* server is not running; after a full pass, return once initialised or
\* after InitPolls passes.
InitCheck(s) ==
  LET n == Names[idx[s]] IN
  /\ pc[s] = "initwait" /\ half[s]
  /\ PsDone(s) /\ PsDrop(s, n)
  /\ CASE ~Running(s, n) ->
            /\ pc' = [pc EXCEPT ![s] = "loop"]
            /\ idx' = [idx EXCEPT ![s] = 1]
            /\ UNCHANGED polls
       [] idx[s] < Len(Names) ->
            idx' = NextIdx(s) /\ UNCHANGED <<pc, polls>>
       [] IsInitalized \/ polls[s] + 1 >= InitPolls ->
            /\ pc' = [pc EXCEPT ![s] = "loop"]
            /\ idx' = [idx EXCEPT ![s] = 1]
            /\ UNCHANGED polls
       [] OTHER ->
            /\ polls' = [polls EXCEPT ![s] = @ + 1]
            /\ idx' = [idx EXCEPT ![s] = 1]
            /\ UNCHANGED pc
  /\ UNCHANGED <<initFlag, tracked, child, starts, exitReason, procState, dataDir,
                 wipes, infoFiles, errLog, port, crashes, foreign, pending>>

\* The polling loop of start_processes, once is_running has its answer: a
\* server that is not running is restarted.
Poll(s) ==
  LET n == Names[idx[s]] IN
  /\ pc[s] = "loop" /\ half[s]
  /\ PsDone(s) /\ PsDrop(s, n)
  /\ IF Running(s, n)
       THEN idx' = NextIdx(s) /\ UNCHANGED pc
       ELSE pc' = [pc EXCEPT ![s] = "restart"] /\ UNCHANGED idx
  /\ UNCHANGED <<initFlag, tracked, child, starts, polls, exitReason, procState,
                 dataDir, wipes, infoFiles, errLog, port, crashes, foreign, pending>>

\* "died unexpectedly. Restarting...": p.start().
Restart(s) ==
  /\ pc[s] = "restart"
  /\ StartProc(s, Names[idx[s]])
  /\ idx' = NextIdx(s)
  /\ pc' = [pc EXCEPT ![s] = "loop"]
  /\ UNCHANGED <<initFlag, tracked, polls, exitReason, dataDir, wipes,
                 infoFiles, port, crashes, foreign, half, readPid>>

\* kill_yugabyte, first step: the pidfiles of self.processes are deleted,
\* whatever they hold.
KillYugabyte(s) ==
  /\ pc[s] = "exit"
  /\ pidfile' = IF tracked[s] THEN [n \in NameSet |-> NoProc] ELSE pidfile
  /\ unlinked' = IF tracked[s] THEN [x \in Sups |-> unlinked[x] \/ pending[x] # NoProc]
                 ELSE unlinked
  /\ pc' = [pc EXCEPT ![s] = "killpg"]
  /\ UNCHANGED <<idx, initFlag, tracked, child, starts, polls, exitReason,
                 procState, dataDir, wipes, infoFiles, errLog, port, crashes,
                 foreign, half, readPid, pending>>

\* kill_yugabyte, second step: SIGTERM to the process group.  The script
\* (its handlers reset to SIG_DFL) ends; its servers get SIGTERM and exit
\* in their own time.
KillPg(s) ==
  /\ pc[s] = "killpg"
  /\ procState' = [p \in Procs |-> IF p.sup = s /\ Alive(p) THEN "stopping"
                                   ELSE procState[p]]
  /\ pc' = [pc EXCEPT ![s] = "exited"]
  /\ UNCHANGED <<idx, initFlag, tracked, child, starts, polls, exitReason,
                 dataDir, wipes, infoFiles, pidfile, errLog, port, crashes,
                 foreign, half, readPid, pending, unlinked>>

\* SIGINT, SIGTERM or SIGABRT once the handlers are installed: the handler
\* runs kill_yugabyte, and the step the script was in never resumes.
Signal(s) ==
  /\ s \in Signalled
  /\ pc[s] \notin {"idle", "exit", "killpg", "exited"}
  /\ exitReason' = [exitReason EXCEPT ![s] = "signal"]
  /\ pc' = [pc EXCEPT ![s] = "exit"]
  /\ half' = [half EXCEPT ![s] = FALSE]
  /\ readPid' = [readPid EXCEPT ![s] = NoProc]
  /\ pending' = [pending EXCEPT ![s] = NoProc]
  /\ UNCHANGED <<idx, initFlag, tracked, child, starts, polls, procState,
                 dataDir, wipes, infoFiles, pidfile, errLog, port, crashes, foreign,
                 unlinked>>

-----------------------------------------------------------------------------
(* The servers.                                                            *)
(***************************************************************************)

\* RpcServerBase::Init: bind the RPC port; a failure is logged and the
\* process exits.
Bind(p) ==
  /\ procState[p] = "binding"
  /\ IF port[p.name] # NoProc
       THEN /\ errLog' = [errLog EXCEPT ![p.name] = TRUE]
            /\ procState' = [procState EXCEPT ![p] = "dead"]
            /\ UNCHANGED port
       ELSE /\ port' = [port EXCEPT ![p.name] = p]
            /\ procState' = [procState EXCEPT ![p] = "bound"]
            /\ UNCHANGED errLog
  /\ UNCHANGED <<supVars, dataDir, wipes, infoFiles, pidfile, crashes, foreign>>

\* The command line carries --server_dump_info_path for the tserver always,
\* for the master only when its supervisor found the directory
\* uninitialised.
DumpsInfo(p) == p.name = "tserver" \/ ~initFlag[p.sup]

\* RpcServerBase::StartRpcServer: start serving, then DumpServerInfo.
DumpInfo(p) ==
  /\ procState[p] = "bound"
  /\ procState' = [procState EXCEPT ![p] = "serving"]
  /\ infoFiles' = IF DumpsInfo(p) THEN infoFiles \cup {p.name} ELSE infoFiles
  /\ UNCHANGED <<supVars, dataDir, wipes, pidfile, errLog, port, crashes, foreign>>

\* A server that got SIGTERM from killpg exits.
ServerExit(p) ==
  /\ procState[p] = "stopping"
  /\ Die({p})
  /\ UNCHANGED <<supVars, dataDir, wipes, infoFiles, pidfile, errLog, crashes, foreign>>

\* A server dies on its own.
Crash(p) ==
  /\ Alive(p) /\ crashes < MaxCrashes
  /\ crashes' = crashes + 1
  /\ Die({p})
  /\ UNCHANGED <<supVars, dataDir, wipes, infoFiles, pidfile, errLog, foreign>>

\* The system hands the pid of a dead server to another process whose
\* command contains the server's name.
ReusePid(p) ==
  /\ procState[p] = "dead" /\ p \notin foreign
  /\ Cardinality(foreign) < MaxReuses
  /\ foreign' = foreign \cup {p}
  /\ UNCHANGED <<supVars, procState, dataDir, wipes, infoFiles, pidfile, errLog,
                 port, crashes>>

-----------------------------------------------------------------------------
\* Every supervisor has ended or is waiting for the user, and every server
\* is dead or was never started.
Done ==
  /\ \A s \in Sups : pc[s] \in {"idle", "exited"}
  /\ UNCHANGED vars

\* One step of a supervisor's script: the pid write of a ProcessManager.start
\* comes before anything else the script does.
ScriptStep(s) ==
  \/ WritePid(s)
  \/ /\ pending[s] = NoProc
     /\ \/ Clean(s) \/ CheckRunningRead(s) \/ CheckRunning(s) \/ Spawn(s)
        \/ IsRunningRead(s) \/ InitCheck(s) \/ Poll(s) \/ Restart(s)
        \/ KillYugabyte(s) \/ KillPg(s)

Next ==
  \/ \E s \in Sups : Start(s) \/ ScriptStep(s) \/ Signal(s)
  \/ \E p \in Procs : Bind(p) \/ DumpInfo(p) \/ ServerExit(p) \/ Crash(p)
                      \/ ReusePid(p)
  \/ Done

\* The script runs on (its loop sleeps between polls), a started server
\* gets through Init and StartRpcServer, and a server that got SIGTERM
\* exits.  The user, signals and crashes are not obliged to happen.
Fairness ==
  /\ \A s \in Sups : WF_vars(ScriptStep(s))
  /\ \A p \in Procs : WF_vars(Bind(p)) /\ WF_vars(DumpInfo(p)) /\ WF_vars(ServerExit(p))

Spec == Init /\ [][Next]_vars /\ Fairness

-----------------------------------------------------------------------------
(* Properties.                                                             *)
(***************************************************************************)

TypeOK ==
  /\ pc \in [Sups -> {"idle", "clean", "getpid", "spawn", "initwait", "loop",
                      "restart", "exit", "killpg", "exited"}]
  /\ idx \in [Sups -> 1..Len(Names)] /\ polls \in [Sups -> 0..InitPolls]
  /\ child \in [Sups -> [NameSet -> Procs \cup {NoProc}]]
  /\ starts \in [Sups -> [NameSet -> 0..MaxStarts]]
  /\ procState \in [Procs -> {"none", "binding", "bound", "serving", "stopping", "dead"}]
  /\ pidfile \in [NameSet -> Procs \cup {NoProc, EmptyFile}]
  /\ port \in [NameSet -> Procs \cup {NoProc}]
  /\ infoFiles \subseteq NameSet /\ crashes \in 0..MaxCrashes
  /\ foreign \subseteq Procs
  /\ half \in [Sups -> BOOLEAN] /\ unlinked \in [Sups -> BOOLEAN]
  /\ readPid \in [Sups -> Procs \cup {NoProc}]
  /\ pending \in [Sups -> Procs \cup {NoProc}]

\* start removes the data directory only when no server is running on it:
\* the rmtree of a half-initialised directory never pulls the pidfiles,
\* info files and data from under a live yb-master or yb-tserver.
DataDirSafe == [][wipes' # wipes => \A p \in Procs : ~Alive(p)]_vars

\* The live servers all belong to one invocation of the script: a second
\* "yugabyte-db start" never runs servers beside those of the first, not
\* even while the first's kill_yugabyte has deleted the pidfiles and its
\* servers have not exited yet.
SingleInstance == \A p, q \in Procs : Alive(p) /\ Alive(q) => p.sup = q.sup

\* A supervisor ends only on a signal or because the database is already
\* running; it never dies of a bind failure that check_fatals reports.
StayUp == \A s \in Sups : exitReason[s] # "fatal"

\* Once a supervisor is polling, a server of its that is not running is
\* eventually running again, unless the supervisor ends: a stale pidfile,
\* an empty one, or a dead child behind a pid that ps still shows, never
\* passes for a running server.
ServersRestarted ==
  \A s \in Sups, n \in NameSet :
    (pc[s] = "loop" /\ ~Alive(child[s][n])) ~> (Alive(child[s][n]) \/ pc[s] = "exited")

=============================================================================
