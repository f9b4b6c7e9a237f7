---------------------------- MODULE VcpuRunProofs ----------------------------
(***************************************************************************)
(* Proofs about the run/stop protocol, for every number of vCPUs and of    *)
(* devices.                                                                *)
(***************************************************************************)
EXTENDS VcpuRun, TLAPS

\* A thread past the point where its loop ended normally has seen, or made,
\* the stop flag TRUE.
StopInv ==
    \A v \in Vcpus :
        /\ pc[v] = "kicking" => stop
        /\ pc[v] \in {"leaving", "done"} /\ v \notin failed => stop

StartedNone == \A v \in Vcpus : pc[v] = "none"
AllDone == \A v \in Vcpus : pc[v] = "done"

\* No vCPU thread exists before run() has created it.
SpawnInv ==
    /\ main \in {"install", "stdin", "devices"} => StartedNone
    /\ main = "spawn" =>
          /\ at >= 1 /\ pc[Bsp] = "none"
          /\ \A v \in APs : v >= at => pc[v] = "none"

\* Where run() stands determines which guards it holds and how far the vCPU
\* threads are, a run() that a failed spawn ended excepted.
PhaseInv ==
    /\ handler <=> main \notin {"install", "returned", "abandoned"}
    /\ stdin => main \notin {"install", "stdin", "stop_devices", "returned", "abandoned"}
    /\ main \in {"join", "stop_devices"} => at >= 1
    /\ main = "spawn" => \A v \in APs : v < at => pc[v] # "none"
    /\ main \in {"bsp", "store", "kick", "join"} =>
          \A v \in Vcpus : pc[v] # "none"
    /\ main \in {"store", "kick", "join"} => pc[Bsp] = "done"
    /\ main = "join" => \A v \in APs : v < at => pc[v] = "done"
    /\ main \in {"stop_stdin", "stop_devices"} => AllDone
    /\ main = "returned" => StartedNone \/ AllDone

DevicesInv ==
    /\ main \in {"install", "stdin", "returned"} => running = {}
    /\ main = "devices" => running \subseteq 1 .. at - 1
    /\ main = "stop_devices" => \A d \in running : d >= at

\* What firstErr holds while run() collects the results.
ReportInv ==
    /\ \A v \in failed : pc[v] \in {"storing", "kicking", "leaving", "done"}
    /\ main \in {"install", "stdin", "devices", "spawn", "bsp"} => firstErr = NoError
    /\ main \in {"store", "kick"} =>
          firstErr = IF Bsp \in failed THEN VcpuError(Bsp) ELSE NoError
    /\ main = "join" =>
          \/ firstErr = NoError /\ \A v \in failed : v >= at
          \/ \E v \in failed : /\ firstErr = VcpuError(v) /\ v < at
                               /\ \A w \in failed : v <= w
    /\ main \in {"stop_stdin", "stop_devices", "returned"} =>
          \/ failed = {}
          \/ \E v \in failed : /\ firstErr = VcpuError(v)
                               /\ \A w \in failed : v <= w
    /\ main = "returned" /\ StartedNone => failed = {}

------------------------------------------------------------------------------
\* The error values of run() are members of their set.
LEMMA OriginType ==
    /\ \A p \in {"none", "install", "stdin", "device", "spawn"} :
          Origin(p) \in ErrorOrigins
    /\ \A v \in Vcpus : VcpuError(v) \in ErrorOrigins
  BY VcpuRunAssumption DEF Origin, VcpuError, ErrorOrigins, Vcpus

\* Every variable keeps its range under every action of run() and of the vCPU
\* threads.
THEOREM TypeCorrect == Spec => []TypeOK
<1> USE VcpuRunAssumption DEF TypeOK, Vcpus, APs, Bsp, Devices
<1>1. Init => TypeOK
  <2> SUFFICES ASSUME Init PROVE TypeOK
    OBVIOUS
  <2>1. kicked \in [Vcpus -> BOOLEAN] BY Zenon DEF Init
  <2>2. pc \in [Vcpus -> VcpuStates] BY DEF Init, VcpuStates
  <2>3. firstErr \in ErrorOrigins BY OriginType DEF Init, NoError
  <2> QED BY <2>1, <2>2, <2>3 DEF Init, MainStates
<1>2. TypeOK /\ [Next]_vars => TypeOK'
  <2> SUFFICES ASSUME TypeOK, [Next]_vars PROVE TypeOK'
    OBVIOUS
  <2>1. CASE MainStep
    <3> USE OriginType DEF threadVars, MainStates
    <3>1. CASE InstallHandler BY <3>1 DEF InstallHandler, ReturnEarly
    <3>2. CASE StartStdin BY <3>2 DEF StartStdin, ReturnEarly
    <3>3. CASE StartDevice
      <4>1. CASE ReturnEarly("returned", "device") /\ running' = running \ (1 .. at - 1)
                 /\ UNCHANGED at
        BY <3>3, <4>1 DEF StartDevice, ReturnEarly
      <4>2. CASE running' = running \cup {at} /\ at' = at + 1
                 /\ UNCHANGED <<main, handler, stdin, firstErr>>
        BY <3>3, <4>2 DEF StartDevice
      <4> QED BY <3>3, <4>1, <4>2 DEF StartDevice
    <3>4. CASE DevicesStarted BY <3>4 DEF DevicesStarted
    <3>5. CASE SpawnAp
      <4>1. CASE ReturnEarly("abandoned", "spawn") /\ UNCHANGED <<at, running, pc>>
        BY <3>5, <4>1 DEF SpawnAp, ReturnEarly
      <4>2. CASE Goto(at, "spawned") /\ at' = at + 1
                 /\ UNCHANGED <<main, handler, stdin, running, firstErr>>
        BY <3>5, <4>2 DEF SpawnAp, Goto, VcpuStates
      <4> QED BY <3>5, <4>1, <4>2 DEF SpawnAp
    <3>6. CASE StartBsp BY <3>6 DEF StartBsp, Goto, VcpuStates
    <3>7. CASE BspReturned BY <3>7 DEF BspReturned
    <3>8. CASE StoreStop BY <3>8 DEF StoreStop
    <3>9. CASE KickAps BY <3>9 DEF KickAps, KickAll
    <3>10. CASE JoinAp BY <3>10 DEF JoinAp, Keep
    <3>11. CASE ApsJoined BY <3>11 DEF ApsJoined
    <3>12. CASE StopStdin BY <3>12 DEF StopStdin, Keep
    <3>13. CASE StopDevice BY <3>13 DEF StopDevice, Keep
    <3>14. CASE RunReturns BY <3>14 DEF RunReturns
    <3> QED BY <2>1, <3>1, <3>2, <3>3, <3>4, <3>5, <3>6, <3>7, <3>8, <3>9,
               <3>10, <3>11, <3>12, <3>13, <3>14 DEF MainStep
  <2>2. ASSUME NEW v \in Vcpus, VcpuStep(v) PROVE TypeOK'
    BY <2>2 DEF VcpuStep, Register, CheckStop, EnterKvm, RequestStopStore,
                RequestStopKick, KickAll, Leave, Goto, mainVars, VcpuStates,
                LoopStates
  <2>3. ASSUME NEW v \in Vcpus, KvmInterrupted(v) \/ KvmNotRunnable(v)
        PROVE  TypeOK'
    BY <2>3 DEF KvmInterrupted, KvmNotRunnable, Goto, mainVars, VcpuStates,
                LoopStates
  <2>4. ASSUME NEW v \in Vcpus, NEW e \in Exits, KvmExit(v, e) PROVE TypeOK'
    BY <2>4 DEF KvmExit, Goto, mainVars, VcpuStates, LoopStates
  <2>5. CASE UNCHANGED vars BY <2>5 DEF vars
  <2> QED BY <2>1, <2>2, <2>3, <2>4, <2>5 DEF Next
<1> QED BY <1>1, <1>2, PTL DEF Spec

------------------------------------------------------------------------------
\* What run() itself never touches: apart from creating threads, its steps
\* leave the vCPU threads where they are.
LEMMA MainStepThreads ==
    ASSUME TypeOK, MainStep
    PROVE  /\ registry' = registry /\ failed' = failed
           /\ stop => stop'
           /\ \A v \in Vcpus : pc'[v] = pc[v] \/ pc'[v] = "spawned"
           /\ \A v \in Vcpus : pc'[v] # pc[v] =>
                 \/ main = "spawn" /\ v = at /\ v \in APs
                 \/ main = "spawn" /\ v = Bsp /\ main' = "bsp"
<1> USE VcpuRunAssumption DEF TypeOK, threadVars
<1>1. CASE SpawnAp BY <1>1 DEF SpawnAp, Goto, APs
<1>2. CASE StartBsp BY <1>2 DEF StartBsp, Goto
<1>3. CASE StoreStop BY <1>3 DEF StoreStop
<1>4. CASE KickAps BY <1>4 DEF KickAps
<1>5. CASE \/ InstallHandler \/ StartStdin \/ StartDevice \/ DevicesStarted
           \/ BspReturned \/ JoinAp \/ ApsJoined \/ StopStdin \/ StopDevice
           \/ RunReturns
  BY <1>5 DEF InstallHandler, StartStdin, StartDevice, DevicesStarted,
     BspReturned, JoinAp, ApsJoined, StopStdin, StopDevice, RunReturns
<1> QED BY <1>1, <1>2, <1>3, <1>4, <1>5 DEF MainStep

\* One step of a vCPU thread, its KVM_RUN included.
VcpuMove(v) ==
    \/ VcpuStep(v) \/ KvmInterrupted(v) \/ KvmNotRunnable(v)
    \/ \E e \in Exits : KvmExit(v, e)

\* What a vCPU thread's step never touches: run() and the other threads.
LEMMA VcpuMoveThreads ==
    ASSUME TypeOK, NEW v \in Vcpus, VcpuMove(v)
    PROVE  /\ UNCHANGED mainVars
           /\ stop => stop'
           /\ pc[v] \notin {"none", "done"} /\ pc'[v] \notin {"none", "spawned"}
           /\ \A w \in Vcpus : w # v => pc'[w] = pc[w]
           /\ failed' = failed \/ (failed' = failed \cup {v} /\ pc[v] = "kvm")
<1> USE DEF TypeOK, Goto
<1>1. CASE VcpuStep(v)
  BY <1>1 DEF VcpuStep, Register, CheckStop, EnterKvm, RequestStopStore,
              RequestStopKick, Leave
<1>2. CASE KvmInterrupted(v) \/ KvmNotRunnable(v)
  BY <1>2 DEF KvmInterrupted, KvmNotRunnable
<1>3. ASSUME NEW e \in Exits, KvmExit(v, e)
      PROVE  /\ UNCHANGED mainVars
             /\ stop => stop'
             /\ pc[v] \notin {"none", "done"} /\ pc'[v] \notin {"none", "spawned"}
             /\ \A w \in Vcpus : w # v => pc'[w] = pc[w]
             /\ failed' = failed \/ (failed' = failed \cup {v} /\ pc[v] = "kvm")
  BY <1>3 DEF KvmExit
<1> QED BY <1>1, <1>2, <1>3 DEF VcpuMove

\* Every step is one of run(), of one vCPU thread, or a stutter.
LEMMA NextCases ==
    ASSUME [Next]_vars
    PROVE  MainStep \/ (\E v \in Vcpus : VcpuMove(v)) \/ UNCHANGED vars
  BY DEF Next, VcpuMove

\* The threads run() has yet to create do not exist, under every action.
THEOREM SpawnCorrect == Spec => []SpawnInv
<1> USE VcpuRunAssumption DEF SpawnInv, StartedNone
<1>1. Init => SpawnInv
  BY DEF Init
<1>2. TypeOK /\ SpawnInv /\ [Next]_vars => SpawnInv'
  <2> SUFFICES ASSUME TypeOK, SpawnInv, [Next]_vars PROVE SpawnInv'
    OBVIOUS
  <2>1. CASE MainStep
    <3>1. CASE SpawnAp
      BY <3>1 DEF SpawnAp, Goto, ReturnEarly, TypeOK, APs, Vcpus, Bsp
    <3>2. CASE DevicesStarted
      BY <3>2 DEF DevicesStarted, threadVars, APs, Bsp, Vcpus
    <3>3. CASE InstallHandler \/ StartStdin \/ StartDevice
      BY <3>3 DEF InstallHandler, StartStdin, StartDevice, ReturnEarly,
                  threadVars
    <3>4. CASE \/ StartBsp \/ BspReturned \/ StoreStop \/ KickAps \/ JoinAp
               \/ ApsJoined \/ StopStdin \/ StopDevice \/ RunReturns
      BY <3>4 DEF StartBsp, BspReturned, StoreStop, KickAps, JoinAp,
                  ApsJoined, StopStdin, StopDevice, RunReturns
    <3> QED BY <2>1, <3>1, <3>2, <3>3, <3>4 DEF MainStep
  <2>2. ASSUME NEW v \in Vcpus, VcpuMove(v) PROVE SpawnInv'
    BY <2>2, VcpuMoveThreads DEF mainVars, APs, Vcpus, Bsp
  <2>3. CASE UNCHANGED vars BY <2>3 DEF vars
  <2> QED BY <2>1, <2>2, <2>3, NextCases
<1> QED BY <1>1, <1>2, TypeCorrect, PTL DEF Spec

\* The registry holds exactly the threads inside run_vcpu_loop, however the
\* vCPU threads and run() interleave and whatever the guest does.
THEOREM RegistryCorrect == Spec => []RegistryIsLive
<1> USE VcpuRunAssumption
<1>1. Init => RegistryIsLive
  BY DEF Init, RegistryIsLive, LoopStates
<1>2. TypeOK /\ TypeOK' /\ SpawnInv /\ RegistryIsLive /\ [Next]_vars
      => RegistryIsLive'
  <2> SUFFICES ASSUME TypeOK, TypeOK', SpawnInv, RegistryIsLive, [Next]_vars,
                      NEW w \in Vcpus
               PROVE  (w \in registry <=> pc[w] \in LoopStates)'
    BY DEF RegistryIsLive, TypeOK
  <2>0. w \in registry <=> pc[w] \in LoopStates
    BY DEF RegistryIsLive
  <2> USE <2>0 DEF LoopStates
  <2>1. CASE MainStep
    <3>1. pc'[w] # pc[w] => pc[w] = "none" /\ pc'[w] = "spawned"
      BY <2>1, MainStepThreads DEF SpawnInv, TypeOK, APs, Vcpus
    <3> QED BY <2>1, <3>1, MainStepThreads
  <2>2. ASSUME NEW v \in Vcpus, VcpuMove(v)
        PROVE  (w \in registry <=> pc[w] \in LoopStates)'
    <3>1. CASE VcpuStep(v)
      BY <3>1 DEF VcpuStep, Register, CheckStop, EnterKvm, RequestStopStore,
                  RequestStopKick, Leave, Goto, TypeOK
    <3>2. CASE KvmInterrupted(v) \/ KvmNotRunnable(v)
      BY <3>2 DEF KvmInterrupted, KvmNotRunnable, Goto, TypeOK
    <3>3. ASSUME NEW e \in Exits, KvmExit(v, e)
          PROVE  (w \in registry <=> pc[w] \in LoopStates)'
      BY <3>3 DEF KvmExit, Goto, TypeOK
    <3> QED BY <2>2, <3>1, <3>2, <3>3 DEF VcpuMove
  <2>3. CASE UNCHANGED vars BY <2>3 DEF vars
  <2> QED BY <2>1, <2>2, <2>3, NextCases
<1> QED BY <1>1, <1>2, TypeCorrect, SpawnCorrect, PTL DEF Spec

\* A vCPU loop ends with Ok only after a stop was requested.
THEOREM OkOnlyAfterStop == Spec => []OkMeansStop
<1> USE VcpuRunAssumption DEF StopInv
<1>1. Init => StopInv
  BY DEF Init
<1>2. TypeOK /\ StopInv /\ [Next]_vars => StopInv'
  <2> SUFFICES ASSUME TypeOK, StopInv, [Next]_vars PROVE StopInv'
    OBVIOUS
  <2>1. CASE MainStep
    BY <2>1, MainStepThreads
  <2>2. ASSUME NEW v \in Vcpus, VcpuStep(v) PROVE StopInv'
    BY <2>2 DEF VcpuStep, Register, CheckStop, EnterKvm, RequestStopStore,
                RequestStopKick, Leave, Goto, TypeOK
  <2>3. ASSUME NEW v \in Vcpus, KvmInterrupted(v) \/ KvmNotRunnable(v)
        PROVE  StopInv'
    BY <2>3 DEF KvmInterrupted, KvmNotRunnable, Goto, TypeOK
  <2>4. ASSUME NEW v \in Vcpus, NEW e \in Exits, KvmExit(v, e) PROVE StopInv'
    BY <2>4 DEF KvmExit, Goto, TypeOK
  <2>5. CASE UNCHANGED vars BY <2>5 DEF vars
  <2> QED BY <2>1, <2>2, <2>3, <2>4, <2>5 DEF Next
<1>3. StopInv => OkMeansStop
  BY DEF OkMeansStop
<1> QED BY <1>1, <1>2, <1>3, TypeCorrect, PTL DEF Spec

------------------------------------------------------------------------------
\* Where run() stands determines the guards it holds and
\* how far the vCPU threads are: the handler is installed from the first
\* thread's creation to the last join.
THEOREM PhaseCorrect == Spec => []PhaseInv
<1> USE VcpuRunAssumption DEF PhaseInv, StartedNone, AllDone
<1>1. Init => PhaseInv
  BY DEF Init
<1>2. TypeOK /\ SpawnInv /\ PhaseInv /\ [Next]_vars => PhaseInv'
  <2> SUFFICES ASSUME TypeOK, SpawnInv, PhaseInv, [Next]_vars PROVE PhaseInv'
    OBVIOUS
  <2>1. CASE MainStep
    <3> USE DEF threadVars
    <3>1. CASE InstallHandler
      BY <3>1 DEF InstallHandler, ReturnEarly, SpawnInv
    <3>2. CASE StartStdin
      BY <3>2 DEF StartStdin, ReturnEarly, SpawnInv
    <3>3. CASE StartDevice
      <4>1. CASE ReturnEarly("returned", "device")
        BY <3>3, <4>1 DEF StartDevice, ReturnEarly, SpawnInv
      <4>2. CASE UNCHANGED <<main, handler, stdin, firstErr>>
        BY <3>3, <4>2 DEF StartDevice
      <4> QED BY <3>3, <4>1, <4>2 DEF StartDevice
    <3>4. CASE DevicesStarted
      BY <3>4 DEF DevicesStarted, APs, Vcpus, Bsp
    <3>5. CASE SpawnAp
      <4>1. CASE ReturnEarly("abandoned", "spawn")
        BY <4>1 DEF ReturnEarly
      <4>2. CASE /\ main = "spawn" /\ at \in APs /\ at' = at + 1
                 /\ UNCHANGED <<main, handler, stdin>>
                 /\ pc' = [pc EXCEPT ![at] = "spawned"]
        BY <4>2 DEF TypeOK, APs, Vcpus, Bsp
      <4> QED BY <3>5, <4>1, <4>2 DEF SpawnAp, Goto
    <3>6. CASE StartBsp
      BY <3>6 DEF StartBsp, Goto, TypeOK, SpawnInv, APs, Vcpus, Bsp
    <3>7. CASE BspReturned
      BY <3>7 DEF BspReturned
    <3>8. CASE StoreStop
      BY <3>8 DEF StoreStop
    <3>9. CASE KickAps
      BY <3>9 DEF KickAps, APs, Vcpus, Bsp
    <3>10. CASE JoinAp
      BY <3>10 DEF JoinAp, TypeOK, APs, Vcpus
    <3>11. CASE ApsJoined
      BY <3>11 DEF ApsJoined, TypeOK, APs, Vcpus, Bsp
    <3>12. CASE StopStdin
      BY <3>12 DEF StopStdin
    <3>13. CASE StopDevice
      BY <3>13 DEF StopDevice, TypeOK
    <3>14. CASE RunReturns
      BY <3>14 DEF RunReturns
    <3> QED BY <2>1, <3>1, <3>2, <3>3, <3>4, <3>5, <3>6, <3>7, <3>8, <3>9,
               <3>10, <3>11, <3>12, <3>13, <3>14 DEF MainStep
  <2>2. ASSUME NEW v \in Vcpus, VcpuMove(v) PROVE PhaseInv'
    BY <2>2, VcpuMoveThreads DEF mainVars, APs, Vcpus, Bsp
  <2>3. CASE UNCHANGED vars BY <2>3 DEF vars
  <2> QED BY <2>1, <2>2, <2>3, NextCases
<1> QED BY <1>1, <1>2, TypeCorrect, SpawnCorrect, PTL DEF Spec

\* No SIGUSR2 is sent while run()'s handler is not installed, provided that
\* every AP thread could be created.
THEOREM KickIsHandled == Spec => []KickHasHandler
<1>1. SpawnInv /\ PhaseInv => KickHasHandler
  BY VcpuRunAssumption DEF PhaseInv, SpawnInv, KickHasHandler, StartedNone, AllDone, APs
<1> QED BY <1>1, PhaseCorrect, SpawnCorrect, PTL

\* When run() returns it leaves no vCPU thread, no device worker and no stdin
\* worker behind, provided that every AP thread could be created.
THEOREM ReturnIsClean == Spec => []CleanReturn
<1> USE VcpuRunAssumption DEF DevicesInv
<1>1. Init => DevicesInv
  BY DEF Init
<1>2. TypeOK /\ PhaseInv /\ DevicesInv /\ [Next]_vars => DevicesInv'
  <2> SUFFICES ASSUME TypeOK, PhaseInv, DevicesInv, [Next]_vars
               PROVE  DevicesInv'
    OBVIOUS
  <2>1. CASE MainStep
    <3>1. CASE InstallHandler BY <3>1 DEF InstallHandler, ReturnEarly
    <3>2. CASE StartStdin BY <3>2 DEF StartStdin, ReturnEarly
    <3>3. CASE StartDevice
      <4>1. CASE ReturnEarly("returned", "device") /\ running' = running \ (1 .. at - 1)
        BY <3>3, <4>1 DEF StartDevice, ReturnEarly
      <4>2. CASE running' = running \cup {at} /\ at' = at + 1 /\ main' = main
        BY <3>3, <4>2 DEF StartDevice, Devices, TypeOK
      <4> QED BY <3>3, <4>1, <4>2 DEF StartDevice
    <3>4. CASE SpawnAp
      <4>1. main' \in {"spawn", "abandoned"}
        BY <3>4 DEF SpawnAp, ReturnEarly
      <4> QED BY <4>1
    <3>5. CASE StopStdin BY <3>5 DEF StopStdin, TypeOK, Devices
    <3>6. CASE StopDevice BY <3>6 DEF StopDevice, TypeOK, Devices
    <3>7. CASE RunReturns
      <4>1. main = "stop_devices" /\ at \notin Devices /\ at >= 1
            /\ running' = running /\ main' = "returned"
        BY <3>7 DEF RunReturns, PhaseInv
      <4>2. running = {}
        BY <4>1 DEF TypeOK, Devices
      <4> QED BY <4>1, <4>2
    <3>8. CASE \/ DevicesStarted \/ StartBsp \/ BspReturned \/ StoreStop
               \/ KickAps \/ JoinAp \/ ApsJoined
      BY <3>8 DEF DevicesStarted, StartBsp, BspReturned, StoreStop, KickAps,
                  JoinAp, ApsJoined
    <3> QED BY <2>1, <3>1, <3>2, <3>3, <3>4, <3>5, <3>6, <3>7, <3>8
            DEF MainStep
  <2>2. ASSUME NEW v \in Vcpus, VcpuMove(v) PROVE DevicesInv'
    BY <2>2, VcpuMoveThreads DEF mainVars
  <2>3. CASE UNCHANGED vars BY <2>3 DEF vars
  <2> QED BY <2>1, <2>2, <2>3, NextCases
<1>3. TypeOK /\ PhaseInv /\ DevicesInv /\ RegistryIsLive => CleanReturn
  BY DEF CleanReturn, PhaseInv, StartedNone, AllDone, RegistryIsLive,
         LoopStates
<1> QED BY <1>1, <1>2, <1>3, TypeCorrect, PhaseCorrect, RegistryCorrect, PTL
        DEF Spec

\* Two errors are told apart by what failed.
LEMMA ErrorsDiffer ==
    /\ \A v \in Vcpus : VcpuError(v) # NoError
    /\ \A v, w \in Vcpus : VcpuError(v) = VcpuError(w) => v = w
  BY DEF VcpuError, NoError, Origin

\* run() reports the failed vCPU with the lowest index, in whatever order the
\* threads fail, and no worker's error replaces it.
THEOREM FirstErrorIsReported == Spec => []FirstErrorReported
<1> USE VcpuRunAssumption
<1>1. Init => ReportInv
  BY DEF Init, ReportInv, StartedNone
<1>2. TypeOK /\ SpawnInv /\ PhaseInv /\ ReportInv /\ [Next]_vars => ReportInv'
  <2> SUFFICES ASSUME TypeOK, SpawnInv, PhaseInv, ReportInv, [Next]_vars
               PROVE  ReportInv'
    OBVIOUS
  <2>1. CASE MainStep
    <3>0. /\ failed' = failed /\ failed \subseteq Vcpus
          /\ \A v \in failed : pc'[v] \in {"storing", "kicking", "leaving", "done"}
      BY <2>1, MainStepThreads DEF ReportInv, SpawnInv, TypeOK, APs, Vcpus
    <3> USE <3>0 DEF ReportInv
    <3>1. CASE InstallHandler \/ StartStdin \/ StartDevice
      <4>1. failed = {}
        BY <3>1 DEF InstallHandler, StartStdin, StartDevice, SpawnInv, StartedNone
      <4> QED BY <3>1, <4>1 DEF InstallHandler, StartStdin, StartDevice, ReturnEarly
    <3>2. CASE DevicesStarted \/ SpawnAp \/ StartBsp
      BY <3>2 DEF DevicesStarted, SpawnAp, StartBsp, ReturnEarly
    <3>3. CASE BspReturned BY <3>3 DEF BspReturned
    <3>4. CASE StoreStop BY <3>4 DEF StoreStop
    <3>5. CASE KickAps BY <3>5 DEF KickAps, Bsp, Vcpus
    <3>6. CASE JoinAp
      BY <3>6, ErrorsDiffer DEF JoinAp, Keep, APs, Vcpus, Bsp, TypeOK
    <3>7. CASE ApsJoined
      BY <3>7 DEF ApsJoined, APs, Vcpus, Bsp, TypeOK, PhaseInv
    <3>8. CASE StopStdin
      BY <3>8, ErrorsDiffer DEF StopStdin, Keep
    <3>9. CASE StopDevice
      BY <3>9, ErrorsDiffer DEF StopDevice, Keep
    <3>10. CASE RunReturns
      BY <3>10 DEF RunReturns, StartedNone
    <3> QED BY <2>1, <3>1, <3>2, <3>3, <3>4, <3>5, <3>6, <3>7, <3>8, <3>9,
               <3>10 DEF MainStep
  <2>2. ASSUME NEW v \in Vcpus, VcpuMove(v) PROVE ReportInv'
    <3>1. /\ UNCHANGED <<main, at, firstErr>>
          /\ pc[v] \notin {"none", "done"}
          /\ failed' = failed \/ failed' = failed \cup {v}
          /\ failed \subseteq Vcpus
      BY <2>2, VcpuMoveThreads DEF mainVars, TypeOK
    <3>2. \A w \in failed' : pc'[w] \in {"storing", "kicking", "leaving", "done"}
      <4>1. CASE VcpuStep(v)
        BY <4>1 DEF VcpuStep, Register, CheckStop, EnterKvm, RequestStopStore,
                    RequestStopKick, Leave, Goto, ReportInv, TypeOK
      <4>2. CASE KvmInterrupted(v) \/ KvmNotRunnable(v)
        BY <4>2 DEF KvmInterrupted, KvmNotRunnable, Goto, ReportInv, TypeOK
      <4>3. ASSUME NEW e \in Exits, KvmExit(v, e)
            PROVE  \A w \in failed' :
                      pc'[w] \in {"storing", "kicking", "leaving", "done"}
        BY <4>3 DEF KvmExit, Goto, ReportInv, TypeOK
      <4> QED BY <2>2, <4>1, <4>2, <4>3 DEF VcpuMove
    <3>3. main \notin {"stop_stdin", "stop_devices", "returned"}
      BY <3>1 DEF PhaseInv, StartedNone, AllDone
    <3>4. main \in {"store", "kick", "join"} => v # Bsp
      BY <3>1 DEF PhaseInv
    <3>5. main = "join" => v >= at
      BY <3>1, <3>4 DEF PhaseInv, TypeOK, APs, Vcpus, Bsp
    <3>6. CASE main = "join"
      <4>1. CASE firstErr = NoError /\ \A w \in failed : w >= at
        BY <3>1, <3>2, <3>5, <3>6, <4>1 DEF ReportInv
      <4>2. ASSUME NEW u \in failed, firstErr = VcpuError(u), u < at,
                   \A w \in failed : u <= w
            PROVE  ReportInv'
        <5>0. u \in Vcpus
          BY <3>1, <4>2
        <5>1. u <= v
          BY <5>0, <3>5, <3>6, <4>2 DEF TypeOK, Vcpus
        <5>2. u \in failed' /\ \A w \in failed' : u <= w
          BY <3>1, <4>2, <5>1
        <5> QED BY <3>1, <3>2, <3>6, <4>2, <5>2 DEF ReportInv
      <4> QED BY <3>6, <4>1, <4>2 DEF ReportInv
    <3>7. CASE main # "join"
      BY <3>1, <3>2, <3>3, <3>4, <3>7 DEF ReportInv
    <3> QED BY <3>6, <3>7
  <2>3. CASE UNCHANGED vars BY <2>3 DEF vars, ReportInv, StartedNone
  <2> QED BY <2>1, <2>2, <2>3, NextCases
<1>3. TypeOK /\ PhaseInv /\ ReportInv => FirstErrorReported
  BY DEF ReportInv, FirstErrorReported
<1> QED BY <1>1, <1>2, <1>3, TypeCorrect, SpawnCorrect, PhaseCorrect, PTL
        DEF Spec

==============================================================================
