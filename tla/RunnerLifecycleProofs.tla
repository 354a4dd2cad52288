------------------------- MODULE RunnerLifecycleProofs -------------------------
(***************************************************************************)
(* Proofs about RunnerLifecycle: as long as starts do not overlap, by      *)
(* however many clients, and a start waits for the daemon it spawned,      *)
(* starting the daemon is idempotent for any number of starts, stops and   *)
(* crashes.  What clients do besides starting may overlap anything.        *)
(***************************************************************************)
EXTENDS RunnerLifecycle, TLAPS

\* A start waits as long as its daemon boots, and an exit is quicker than a boot.
Patient == ~CanTimeout /\ PromptExit

\* No two clients are past the status call of ensure_daemon_started at once:
\* nothing in the code sees to it.
StartsAlone ==
  \A l, k \in Launchers :
    lpc[l] \in {"spawn", "wait"} /\ lpc[k] \in {"spawn", "wait"} => l = k

\* What a machine with one client gives.
OneClient ==
  /\ \A l, k \in Launchers : l = k
  /\ Patient

\* Only the client that waits for it knows of a process that is still booting.
BootIsAwaited ==
  \A d \in Daemons :
    mode[d] \in {"boot", "unlink", "bind"} =>
      \E l \in Launchers : lpc[l] = "wait" /\ spawned[l] = d

\* A client that is about to spawn has seen that nothing is up.
SpawnIsNeeded ==
  \A l \in Launchers : lpc[l] = "spawn" => \A d \in Daemons : ~Up(d)

\* While a process is between its unlink and its own exit, nobody else is
\* about to touch the path.
PathIsQuiet ==
  /\ \A d, e \in Daemons :
       mode[d] \in {"bind", "serving", "stopping"} => mode[e] # "closed"
  /\ \A d \in Daemons : mode[d] = "bind" => path = NoDaemon

\* A process runs nothing before it serves.
NoRunBeforeServing ==
  \A d \in Daemons : mode[d] \in {"unborn", "boot", "unlink", "bind"} => row[d] = "none"

IInv ==
  /\ TypeOK
  /\ OneDaemonUp /\ ServingIsReachable /\ AbortedRunWasLost
  /\ BootIsAwaited /\ SpawnIsNeeded /\ PathIsQuiet /\ NoRunBeforeServing

\* The initial state satisfies the invariant.
LEMMA InitIInv == Init => IInv
  BY LifecycleAssumption
  DEF Init, IInv, TypeOK, OneDaemonUp, ServingIsReachable, AbortedRunWasLost,
      BootIsAwaited, SpawnIsNeeded, PathIsQuiet, NoRunBeforeServing, Up,
      Listening, Modes

\* A step that leaves no two starts under way preserves the invariant.
LEMMA StepIInv ==
  ASSUME Patient, StartsAlone, StartsAlone', IInv, [Next]_vars
  PROVE  IInv'
<1> USE LifecycleAssumption DEF Patient, StartsAlone
<1> USE DEF IInv, TypeOK, OneDaemonUp, ServingIsReachable, AbortedRunWasLost,
            BootIsAwaited, SpawnIsNeeded, PathIsQuiet, NoRunBeforeServing, Up,
            Listening, Modes, clients, jobs, Becomes, Answers
<1>1. ASSUME NEW l \in Launchers, EnsureProbe(l)  PROVE  IInv'
  BY <1>1 DEF EnsureProbe, Reachable
<1>2. ASSUME NEW l \in Launchers, WaitStarted(l)  PROVE  IInv'
  BY <1>2 DEF WaitStarted, Reachable
<1>3. ASSUME NEW l \in Launchers, WaitGivesUp(l)  PROVE  IInv'
  BY <1>3 DEF WaitGivesUp, Reachable
<1>4. ASSUME NEW l \in Launchers, NEW d \in Daemons, EnsureSpawn(l, d)  PROVE  IInv'
  BY <1>4 DEF EnsureSpawn, Unused
<1>5. ASSUME NEW l \in Launchers, StopRequest(l)  PROVE  IInv'
  BY <1>5 DEF StopRequest, Reachable
<1>6. ASSUME NEW l \in Launchers, StopReturns(l)  PROVE  IInv'
  BY <1>6 DEF StopReturns, Reachable
<1>7. ASSUME NEW d \in Daemons, MarkStale(d)  PROVE  IInv'
  BY <1>7 DEF MarkStale
<1>8. ASSUME NEW d \in Daemons, UnlinkOld(d)  PROVE  IInv'
  BY <1>8 DEF UnlinkOld
<1>9. ASSUME NEW d \in Daemons, Bind(d)  PROVE  IInv'
  BY <1>9 DEF Bind
<1>10. ASSUME NEW d \in Daemons, CloseServer(d)  PROVE  IInv'
  BY <1>10 DEF CloseServer
<1>11. ASSUME NEW d \in Daemons, UnlinkAndExit(d)  PROVE  IInv'
  BY <1>11 DEF UnlinkAndExit
<1>12. ASSUME NEW d \in Daemons, StartRun(d)  PROVE  IInv'
  BY <1>12 DEF StartRun
<1>13. ASSUME NEW d \in Daemons, FinishRun(d)  PROVE  IInv'
  BY <1>13 DEF FinishRun
<1>14. ASSUME NEW d \in Daemons, Crash(d)  PROVE  IInv'
  BY <1>14 DEF Crash
<1>15. ASSUME NEW d \in Daemons, WorkerExits(d)  PROVE  IInv'
  BY <1>15 DEF WorkerExits
<1>16. ASSUME UNCHANGED vars  PROVE  IInv'
  BY <1>16 DEF vars
<1> QED
  BY <1>1, <1>2, <1>3, <1>4, <1>5, <1>6, <1>7, <1>8, <1>9, <1>10, <1>11,
     <1>12, <1>13, <1>14, <1>15, <1>16
  DEF Next, EnsureStep, BootStep, ExitStep

\* As long as no two starts overlap, at most one daemon process is booting or
\* serving, clients reach the one that serves, and a daemon that boots aborts only
\* the rows of runs nobody watches any more.
THEOREM SerializedStarts ==
  ASSUME Patient
  PROVE  Spec /\ []StartsAlone
         => [](OneDaemonUp /\ ServingIsReachable /\ AbortedRunWasLost)
<1>1. IInv /\ StartsAlone /\ StartsAlone' /\ [Next]_vars => IInv'
  BY Patient, StepIInv
<1>2. IInv => OneDaemonUp /\ ServingIsReachable /\ AbortedRunWasLost
  BY DEF IInv
<1> QED
  BY InitIInv, <1>1, <1>2, PTL DEF Spec

\* The starts of a single client never overlap.
LEMMA OneClientStartsAlone == OneClient => StartsAlone
  BY DEF OneClient, StartsAlone

\* The three properties, for a machine with one client.
LEMMA OneClientIsServed ==
  ASSUME OneClient
  PROVE  Spec => [](OneDaemonUp /\ ServingIsReachable /\ AbortedRunWasLost)
<1>1. Patient
  BY OneClient DEF OneClient
<1>2. Spec /\ []StartsAlone => [](OneDaemonUp /\ ServingIsReachable /\ AbortedRunWasLost)
  BY <1>1, SerializedStarts
<1> QED
  BY OneClient, OneClientStartsAlone, <1>2, PTL

\* Starting is idempotent: at most one daemon process is booting or serving,
\* for any number of processes over time.
THEOREM StartIsIdempotent ==
  ASSUME OneClient
  PROVE  Spec => []OneDaemonUp
  BY OneClient, OneClientIsServed, PTL

\* A daemon that serves is the one clients reach.
THEOREM ServingReached ==
  ASSUME OneClient
  PROVE  Spec => []ServingIsReachable
  BY OneClient, OneClientIsServed, PTL

\* A daemon that boots aborts only the rows of runs nobody watches any more.
THEOREM OnlyLostRunsAborted ==
  ASSUME OneClient
  PROVE  Spec => []AbortedRunWasLost
  BY OneClient, OneClientIsServed, PTL
=============================================================================
