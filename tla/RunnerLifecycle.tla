--------------------------- MODULE RunnerLifecycle ---------------------------
(***************************************************************************)
(* Starting and stopping the runner daemon: ensure_daemon_started and      *)
(* daemon_stop (runner/lifecycle.py, runner/cli.py, mcp/tools/runner.py)   *)
(* against daemon processes that share one socket path (runner/control.py) *)
(* and one database.  Nothing but the socket tells a client, or another    *)
(* daemon, that a daemon is there.                                         *)
(*                                                                         *)
(* A daemon process runs one job, at most once: that is enough to see its  *)
(* row in the database closed by somebody else.                            *)
(***************************************************************************)
EXTENDS FiniteSets

CONSTANTS
  Launchers,    \* clients: CLI invocations, MCP servers
  Daemons,      \* process identities, used again when nothing is left of a process
  NoDaemon,
  CanStop,      \* bound: whether clients stop the daemon
  CanCrash,     \* bound: whether daemons may be killed
  CanTimeout,   \* wait_for_started may give up on a daemon that is still booting
  PromptExit    \* a closing daemon unlinks the path before the next one binds it

ASSUME LifecycleAssumption ==
  /\ NoDaemon \notin Daemons
  /\ {CanStop, CanCrash, CanTimeout, PromptExit} \subseteq BOOLEAN

VARIABLES
  lpc,       \* what each client is doing
  spawned,   \* the process it spawned last
  answer,    \* the answer of its last call
  mode,      \* the life of each daemon process
  path,      \* whose socket the file runner.sock is; NoDaemon without a file
  row,       \* the row of the daemon's run in the database
  worker     \* the worker process of that run

clients == <<lpc, spawned, answer>>
jobs    == <<row, worker>>
vars    == <<clients, mode, path, jobs>>

Modes == {"unborn", "boot", "unlink", "bind", "serving", "stopping", "closed", "dead"}

\* The server socket is bound and not yet closed: status is answered.
Listening(d) == mode[d] \in {"serving", "stopping"}

Reachable == path # NoDaemon /\ Listening(path)

\* The process is there, and will run jobs or is running them.
Up(d) == mode[d] \in {"boot", "unlink", "bind", "serving", "stopping"}

Becomes(d, m) == mode' = [mode EXCEPT ![d] = m]

Answers(l, a) ==
  /\ lpc' = [lpc EXCEPT ![l] = "idle"]
  /\ answer' = [answer EXCEPT ![l] = a]

-----------------------------------------------------------------------------
(* Clients *)

\* Mutated form of EnsureProbe: the status call is not made.
EnsureProbeBlind(l) ==
  /\ lpc[l] = "idle"
  /\ lpc' = [lpc EXCEPT ![l] = "spawn"]
  /\ UNCHANGED <<spawned, answer, mode, path, jobs>>

\* ensure_daemon_started: try_status first ...
EnsureProbe(l) ==
  /\ lpc[l] = "idle"
  /\ \/ Reachable /\ Answers(l, "already_running")
     \/ /\ ~Reachable
        /\ lpc' = [lpc EXCEPT ![l] = "spawn"]
        /\ UNCHANGED answer
  /\ UNCHANGED <<spawned, mode, path, jobs>>

\* No process, socket file or worker is left, and no row to be closed.
Unused(d) ==
  /\ mode[d] \in {"unborn", "dead"} /\ path # d
  /\ worker[d] # "live" /\ row[d] # "RUNNING"

\* ... then spawn_detached ...
EnsureSpawn(l, d) ==
  /\ lpc[l] = "spawn" /\ Unused(d)
  /\ Becomes(d, "boot")
  /\ spawned' = [spawned EXCEPT ![l] = d]
  /\ lpc' = [lpc EXCEPT ![l] = "wait"]
  /\ row' = [row EXCEPT ![d] = "none"]
  /\ worker' = [worker EXCEPT ![d] = "none"]
  /\ UNCHANGED <<answer, path>>

\* ... then wait_for_started: any daemon that answers will do ...
WaitStarted(l) ==
  /\ lpc[l] = "wait" /\ Reachable
  /\ Answers(l, "started")
  /\ UNCHANGED <<spawned, mode, path, jobs>>

\* Mutated form of WaitGivesUp: it gives up while its process is still booting.
WaitGivesUpEarly(l) ==
  /\ lpc[l] = "wait" /\ ~Reachable
  /\ Answers(l, "failed")
  /\ UNCHANGED <<spawned, mode, path, jobs>>

\* ... until its deadline.
WaitGivesUp(l) ==
  /\ lpc[l] = "wait" /\ ~Reachable
  /\ CanTimeout \/ ~Up(spawned[l])
  /\ Answers(l, "failed")
  /\ UNCHANGED <<spawned, mode, path, jobs>>

\* daemon_stop and "runner stop": the request reaches whoever owns the path.
StopRequest(l) ==
  /\ CanStop /\ lpc[l] = "idle" /\ Reachable
  /\ Becomes(path, "stopping")
  /\ \/ lpc' = [lpc EXCEPT ![l] = "stop_wait"] /\ UNCHANGED answer
     \/ Answers(l, "stopped")
  /\ UNCHANGED <<spawned, path, jobs>>

\* daemon_stop polls until the file is gone or nobody answers, or ten seconds
\* have passed; "runner stop" does not wait.
StopReturns(l) ==
  /\ lpc[l] = "stop_wait"
  /\ ~Reachable \/ CanTimeout
  /\ Answers(l, IF Reachable THEN "not_stopped" ELSE "stopped")
  /\ UNCHANGED <<spawned, mode, path, jobs>>

-----------------------------------------------------------------------------
(* Daemon processes: RunnerDaemon.start and RunnerControlServer *)

\* mark_stale_running_runs_aborted, whoever the RUNNING rows belong to.
MarkStale(d) ==
  /\ mode[d] = "boot"
  /\ row' = [e \in Daemons |-> IF row[e] = "RUNNING" THEN "ABORTED" ELSE row[e]]
  /\ Becomes(d, "unlink")
  /\ UNCHANGED <<clients, path, worker>>

\* control.start: unlink whatever is at the path ...
UnlinkOld(d) ==
  /\ mode[d] = "unlink"
  /\ PromptExit => \A e \in Daemons : mode[e] # "closed"
  /\ path' = NoDaemon
  /\ Becomes(d, "bind")
  /\ UNCHANGED <<clients, jobs>>

\* Mutated form of Bind: the clean-up of start covers the bind, and unlinks the
\* path that the winner has just bound.
BindCleansUp(d) ==
  /\ mode[d] = "bind"
  /\ \/ path = NoDaemon /\ path' = d /\ Becomes(d, "serving")
     \/ path # NoDaemon /\ path' = NoDaemon /\ Becomes(d, "dead")
  /\ UNCHANGED <<clients, jobs>>

\* ... and bind it, or die because it exists again.
Bind(d) ==
  /\ mode[d] = "bind"
  /\ \/ path = NoDaemon /\ path' = d /\ Becomes(d, "serving")
     \/ path # NoDaemon /\ Becomes(d, "dead") /\ UNCHANGED path
  /\ UNCHANGED <<clients, jobs>>

StartRun(d) ==
  /\ Listening(d) /\ row[d] = "none"
  /\ row' = [row EXCEPT ![d] = "RUNNING"]
  /\ worker' = [worker EXCEPT ![d] = "live"]
  /\ UNCHANGED <<clients, mode, path>>

\* _finish_run updates the row by its id, whatever it says.
FinishRun(d) ==
  /\ Listening(d) /\ worker[d] = "exited"
  /\ row' = [row EXCEPT ![d] = "OK"]
  /\ worker' = [worker EXCEPT ![d] = "none"]
  /\ UNCHANGED <<clients, mode, path>>

\* Mutated form of CloseServer: the path is unlinked before the server is closed.
CloseServerLate(d) ==
  /\ mode[d] = "stopping"
  /\ \/ path = d /\ path' = NoDaemon /\ UNCHANGED mode
     \/ path # d /\ Becomes(d, "closed") /\ UNCHANGED path
  /\ UNCHANGED <<clients, jobs>>

\* The loop has ended: the server is shut down and closed ...
CloseServer(d) ==
  /\ mode[d] = "stopping"
  /\ Becomes(d, "closed")
  /\ UNCHANGED <<clients, path, jobs>>

\* ... the path is unlinked if it exists, and the worker is signalled.
UnlinkAndExit(d) ==
  /\ mode[d] = "closed"
  /\ path' = NoDaemon
  /\ \/ UNCHANGED worker
     \/ worker[d] = "live" /\ worker' = [worker EXCEPT ![d] = "exited"]
  /\ Becomes(d, "dead")
  /\ UNCHANGED <<clients, row>>

\* The socket file stays; so does the worker.
Crash(d) ==
  /\ CanCrash /\ mode[d] \notin {"unborn", "dead"}
  /\ Becomes(d, "dead")
  /\ UNCHANGED <<clients, path, jobs>>

WorkerExits(d) ==
  /\ worker[d] = "live"
  /\ worker' = [worker EXCEPT ![d] = "exited"]
  /\ UNCHANGED <<clients, mode, path, row>>

-----------------------------------------------------------------------------
Init ==
  /\ lpc = [l \in Launchers |-> "idle"]
  /\ spawned = [l \in Launchers |-> NoDaemon]
  /\ answer = [l \in Launchers |-> "none"]
  /\ mode = [d \in Daemons |-> "unborn"]
  /\ path = NoDaemon
  /\ row = [d \in Daemons |-> "none"]
  /\ worker = [d \in Daemons |-> "none"]

EnsureStep(l) ==
  WaitStarted(l) \/ WaitGivesUp(l) \/ \E d \in Daemons : EnsureSpawn(l, d)

BootStep(d) == MarkStale(d) \/ UnlinkOld(d) \/ Bind(d)

ExitStep(d) == CloseServer(d) \/ UnlinkAndExit(d)

Next ==
  \/ \E l \in Launchers :
       EnsureProbe(l) \/ EnsureStep(l) \/ StopRequest(l) \/ StopReturns(l)
  \/ \E d \in Daemons :
       \/ BootStep(d) \/ ExitStep(d) \/ StartRun(d) \/ FinishRun(d)
       \/ Crash(d) \/ WorkerExits(d)

Spec == Init /\ [][Next]_vars

\* A client finishes the call it made; a daemon process boots and exits.
Fairness ==
  /\ \A l \in Launchers : WF_vars(EnsureStep(l) \/ StopReturns(l))
  /\ \A d \in Daemons : WF_vars(BootStep(d)) /\ WF_vars(ExitStep(d))

FairSpec == Spec /\ Fairness

-----------------------------------------------------------------------------
(* Properties *)

TypeOK ==
  /\ lpc \in [Launchers -> {"idle", "spawn", "wait", "stop_wait"}]
  /\ spawned \in [Launchers -> Daemons \cup {NoDaemon}]
  /\ answer \in [Launchers -> {"none", "already_running", "started", "failed",
                               "stopped", "not_stopped"}]
  /\ mode \in [Daemons -> Modes]
  /\ path \in Daemons \cup {NoDaemon}
  /\ row \in [Daemons -> {"none", "RUNNING", "ABORTED", "OK"}]
  /\ worker \in [Daemons -> {"none", "live", "exited"}]

\* Starting is idempotent: however often the daemon is started, stopped, killed
\* and started again, at most one process is booting or serving.
OneDaemonUp == \A d, e \in Daemons : Up(d) /\ Up(e) => d = e

\* A daemon that serves owns the socket path: clients reach it and can stop it.
\* (The unlink of a predecessor that is still exiting must not take the path.)
ServingIsReachable == \A d \in Daemons : Listening(d) => path = d

\* mark_stale_running_runs_aborted closes only rows whose daemon has stopped
\* watching them, never the row of a run that another daemon will yet close.
AbortedRunWasLost ==
  \A d \in Daemons : row[d] = "ABORTED" => mode[d] \in {"closed", "dead"}

\* While nobody stops or kills a daemon, every start that spawned a process is
\* answered by a daemon that can be reached: concurrent starts unlink and bind
\* the same path in any order and may strand a daemon, never all of them.
ContendedStartsSucceed ==
  \A l \in Launchers :
    lpc[l] = "wait" ~> lpc[l] = "idle" /\ answer[l] = "started"
=============================================================================
