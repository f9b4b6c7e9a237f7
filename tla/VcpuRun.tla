------------------------------- MODULE VcpuRun -------------------------------
(***************************************************************************)
(* The run/stop protocol of the monitor: Vmm::run and the run_vcpu_loop    *)
(* threads it drives (src/src/vmm.rs).                                     *)
(*                                                                         *)
(* vCPU 0 is the boot processor (BSP); it runs on the thread that called   *)
(* run().  vCPUs 1..NumVcpus-1 are application processors (APs), each on a *)
(* thread of its own.  `main` is where run() itself stands, `pc` where     *)
(* each vCPU thread stands.  The guest is the environment: it decides      *)
(* which exit a KVM_RUN returns with, and whether it returns at all.       *)
(*                                                                         *)
(* SIGUSR2 (the "kick") makes a KVM_RUN that is in progress return EINTR.  *)
(* Delivered to a thread in userspace it only runs the empty handler.      *)
(***************************************************************************)
EXTENDS Integers, FiniteSets

CONSTANTS
    NumVcpus,      \* vCPUs of the machine, the BSP included
    NumDevices,    \* virtio-mmio devices attached to it
    ExitOnHlt      \* Vmm.exit_on_hlt: flat-binary mode

ASSUME VcpuRunAssumption ==
    /\ NumVcpus \in Nat \ {0}
    /\ NumDevices \in Nat
    /\ ExitOnHlt \in BOOLEAN

Bsp == 0
Vcpus == 0 .. NumVcpus - 1
APs == Vcpus \ {Bsp}
Devices == 1 .. NumDevices

VARIABLES
    main,       \* where run() stands
    at,         \* the loop index of run(): next device or next AP
    handler,    \* the SIGUSR2 handler of run() is installed
    stop,       \* the shared stop flag
    registry,   \* VcpuKickRegistry.threads
    pc,         \* where each vCPU thread stands
    kicked,     \* a kick hit the vCPU while it was inside KVM_RUN
    failed,     \* the vCPU loops that ended with Err
    stdin,      \* the stdin worker is running
    running,    \* devices whose worker is running
    firstErr    \* what run() reports: NoError or the origin of the error

vars == <<main, at, handler, stop, registry, pc, kicked, failed, stdin,
          running, firstErr>>
mainVars == <<main, at, handler, stdin, running, firstErr>>

MainStates == {"install", "stdin", "devices", "spawn", "bsp", "store", "kick",
               "join", "stop_stdin", "stop_devices", "returned", "abandoned"}
LoopStates == {"check", "enter", "kvm", "storing", "kicking", "leaving"}
VcpuStates == LoopStates \cup {"none", "spawned", "done"}

\* Where an error of run() comes from: a part of the monitor, or one vCPU.
Origin(part) == <<part, 0>>
VcpuError(v) == <<"vcpu", v>>
NoError == Origin("none")
ErrorOrigins ==
    {"none", "install", "stdin", "device", "spawn", "vcpu"} \X Nat

------------------------------------------------------------------------------
(* Exits of KVM_RUN and what run_vcpu_loop makes of them *)

Exits == {"io_none", "io_power", "io_err", "debug_ok", "debug_fail", "read",
          "mmio_ok", "mmio_err", "hlt", "shutdown", "system_stop",
          "system_other", "other", "kvm_err"}

DebugMode(v) == v = Bsp /\ ExitOnHlt

\* The exits that end the loop with Ok after request_stop.
EndsCleanly(v, e) ==
    \/ e \in {"io_power", "shutdown", "system_stop"}
    \/ DebugMode(v) /\ e \in {"debug_ok", "hlt"}

\* The exits that end the loop with Err after request_stop.
EndsWithError(v, e) ==
    \/ e \in {"system_other", "other", "kvm_err"}
    \/ DebugMode(v) /\ e = "debug_fail"

\* The exits whose handler's error leaves the loop through `?`.
EndsThroughTry(v, e) == e \in {"io_err", "mmio_err"}

Continues(v, e) ==
    ~ (EndsCleanly(v, e) \/ EndsWithError(v, e) \/ EndsThroughTry(v, e))

------------------------------------------------------------------------------
Init ==
    /\ main = "install"
    /\ at = 0
    /\ handler = FALSE
    /\ stop = FALSE
    /\ registry = {}
    /\ pc = [v \in Vcpus |-> "none"]
    /\ kicked = [v \in Vcpus |-> FALSE]
    /\ failed = {}
    /\ stdin = FALSE
    /\ running = {}
    /\ firstErr = NoError

Goto(v, s) == pc' = [pc EXCEPT ![v] = s]

\* kick_all: one signal to every registered thread, under the registry lock.
KickAll ==
    kicked' = [v \in Vcpus |-> kicked[v] \/ (v \in registry /\ pc[v] = "kvm")]

------------------------------------------------------------------------------
(* run_vcpu_loop *)

\* Mutant: a thread registers its neighbour's id.
RegisterNeighbour(v) ==
    /\ pc[v] = "spawned"
    /\ registry' = registry \cup {v + 1}
    /\ Goto(v, "check")
    /\ UNCHANGED <<mainVars, stop, kicked, failed>>

Register(v) ==
    /\ pc[v] = "spawned"
    /\ registry' = registry \cup {v}
    /\ Goto(v, "check")
    /\ UNCHANGED <<mainVars, stop, kicked, failed>>

\* `while !stop.load()`
CheckStop(v) ==
    /\ pc[v] = "check"
    /\ Goto(v, IF stop THEN "leaving" ELSE "enter")
    /\ UNCHANGED <<mainVars, stop, registry, kicked, failed>>

\* The thread reaches KVM_RUN; a kick sent before this step did nothing.
EnterKvm(v) ==
    /\ pc[v] = "enter"
    /\ Goto(v, "kvm")
    /\ UNCHANGED <<mainVars, stop, registry, kicked, failed>>

\* Mutant: a clean exit leaves the loop without request_stop.
KvmExitNoStop(v, e) ==
    /\ pc[v] = "kvm"
    /\ kicked' = [kicked EXCEPT ![v] = FALSE]
    /\ \/ Continues(v, e) /\ Goto(v, "check") /\ UNCHANGED failed
       \/ EndsCleanly(v, e) /\ Goto(v, "leaving") /\ UNCHANGED failed
       \/ EndsWithError(v, e) /\ Goto(v, "storing") /\ failed' = failed \cup {v}
       \/ EndsThroughTry(v, e) /\ Goto(v, "leaving") /\ failed' = failed \cup {v}
    /\ UNCHANGED <<mainVars, stop, registry>>

\* KVM_RUN returns an exit.  A kick that raced it is consumed by the handler.
KvmExit(v, e) ==
    /\ pc[v] = "kvm"
    /\ kicked' = [kicked EXCEPT ![v] = FALSE]
    /\ \/ Continues(v, e) /\ Goto(v, "check") /\ UNCHANGED failed
       \/ EndsCleanly(v, e) /\ Goto(v, "storing") /\ UNCHANGED failed
       \/ EndsWithError(v, e) /\ Goto(v, "storing") /\ failed' = failed \cup {v}
       \/ EndsThroughTry(v, e) /\ Goto(v, "leaving") /\ failed' = failed \cup {v}
    /\ UNCHANGED <<mainVars, stop, registry>>

\* EINTR after a kick.
KvmInterrupted(v) ==
    /\ pc[v] = "kvm" /\ kicked[v]
    /\ kicked' = [kicked EXCEPT ![v] = FALSE]
    /\ Goto(v, "check")
    /\ UNCHANGED <<mainVars, stop, registry, failed>>

\* EAGAIN: an AP that still waits for its start-up interrupt.
KvmNotRunnable(v) ==
    /\ v # Bsp
    /\ pc[v] = "kvm"
    /\ kicked' = [kicked EXCEPT ![v] = FALSE]
    /\ Goto(v, "check")
    /\ UNCHANGED <<mainVars, stop, registry, failed>>

\* Mutant: request_stop kicks but never stores the flag.
RequestStopNoStore(v) ==
    /\ pc[v] = "storing"
    /\ Goto(v, "kicking")
    /\ UNCHANGED <<mainVars, stop, registry, kicked, failed>>

\* The two halves of request_stop.
RequestStopStore(v) ==
    /\ pc[v] = "storing"
    /\ stop' = TRUE
    /\ Goto(v, "kicking")
    /\ UNCHANGED <<mainVars, registry, kicked, failed>>

RequestStopKick(v) ==
    /\ pc[v] = "kicking"
    /\ KickAll
    /\ Goto(v, "leaving")
    /\ UNCHANGED <<mainVars, stop, registry, failed>>

\* Mutant: the registration outlives the loop.
LeaveRegistered(v) ==
    /\ pc[v] = "leaving"
    /\ Goto(v, "done")
    /\ UNCHANGED <<mainVars, stop, registry, kicked, failed>>

\* The loop returns: dropping the registration removes the thread.
Leave(v) ==
    /\ pc[v] = "leaving"
    /\ registry' = registry \ {v}
    /\ Goto(v, "done")
    /\ UNCHANGED <<mainVars, stop, kicked, failed>>

VcpuStep(v) ==
    \/ Register(v) \/ CheckStop(v) \/ EnterKvm(v)
    \/ RequestStopStore(v) \/ RequestStopKick(v) \/ Leave(v)

------------------------------------------------------------------------------
(* Vmm::run *)

threadVars == <<stop, registry, pc, kicked, failed>>

\* An early return: the guards of run() are dropped, the handler last.
ReturnEarly(to, origin) ==
    /\ main' = to
    /\ firstErr' = Origin(origin)
    /\ handler' = FALSE
    /\ stdin' = FALSE

\* `if first_err.is_none() { first_err = Some(e) }`
Keep(e) == IF firstErr = NoError THEN e ELSE firstErr

\* Mutant: the handler guard is dropped as soon as it is created.
InstallHandlerDropped ==
    /\ main = "install"
    /\ \/ main' = "stdin" /\ UNCHANGED <<handler, firstErr, stdin>>
       \/ ReturnEarly("returned", "install")
    /\ UNCHANGED <<at, running, threadVars>>

InstallHandler ==
    /\ main = "install"
    /\ \/ main' = "stdin" /\ handler' = TRUE /\ UNCHANGED <<firstErr, stdin>>
       \/ ReturnEarly("returned", "install")
    /\ UNCHANGED <<at, running, threadVars>>

StartStdin ==
    /\ main = "stdin"
    /\ \/ main' = "devices" /\ stdin' = TRUE /\ UNCHANGED <<handler, firstErr>>
       \/ ReturnEarly("returned", "stdin")
    /\ at' = 1
    /\ UNCHANGED <<running, threadVars>>

\* Mutant: a failed start leaves the devices started before it running.
StartDeviceLeaks ==
    /\ main = "devices" /\ at \in Devices
    /\ \/ /\ running' = running \cup {at}
          /\ at' = at + 1
          /\ UNCHANGED <<main, handler, stdin, firstErr>>
       \/ ReturnEarly("returned", "device") /\ UNCHANGED <<at, running>>
    /\ UNCHANGED threadVars

StartDevice ==
    /\ main = "devices" /\ at \in Devices
    /\ \/ /\ running' = running \cup {at}
          /\ at' = at + 1
          /\ UNCHANGED <<main, handler, stdin, firstErr>>
       \/ /\ ReturnEarly("returned", "device")
          /\ running' = running \ (1 .. at - 1)
          /\ UNCHANGED at
    /\ UNCHANGED threadVars

DevicesStarted ==
    /\ main = "devices" /\ at \notin Devices
    /\ main' = "spawn" /\ at' = 1
    /\ UNCHANGED <<handler, stdin, running, firstErr, threadVars>>

\* `?` on a failed spawn abandons the threads and devices started before.
SpawnAp ==
    /\ main = "spawn" /\ at \in APs
    /\ \/ /\ Goto(at, "spawned")
          /\ at' = at + 1
          /\ UNCHANGED <<main, handler, stdin, running, firstErr>>
       \/ ReturnEarly("abandoned", "spawn") /\ UNCHANGED <<at, running, pc>>
    /\ UNCHANGED <<stop, registry, kicked, failed>>

StartBsp ==
    /\ main = "spawn" /\ at \notin APs
    /\ main' = "bsp"
    /\ Goto(Bsp, "spawned")
    /\ UNCHANGED <<at, handler, stdin, running, firstErr, stop, registry,
                   kicked, failed>>

BspReturned ==
    /\ main = "bsp" /\ pc[Bsp] = "done"
    /\ main' = "store"
    /\ firstErr' = IF Bsp \in failed THEN VcpuError(Bsp) ELSE firstErr
    /\ UNCHANGED <<at, handler, stdin, running, threadVars>>

\* Mutant: run() kicks without storing the flag itself.
StoreStopSkipped ==
    /\ main = "store"
    /\ main' = "kick"
    /\ UNCHANGED <<at, handler, stdin, running, firstErr, threadVars>>

StoreStop ==
    /\ main = "store"
    /\ stop' = TRUE
    /\ main' = "kick"
    /\ UNCHANGED <<at, handler, stdin, running, firstErr, registry, pc, kicked,
                   failed>>

KickAps ==
    /\ main = "kick"
    /\ KickAll
    /\ main' = "join" /\ at' = 1
    /\ UNCHANGED <<handler, stdin, running, firstErr, stop, registry, pc,
                   failed>>

\* Mutant: the error of a later AP replaces the one kept so far.
JoinApOverwrites ==
    /\ main = "join" /\ at \in APs /\ pc[at] = "done"
    /\ firstErr' = IF at \in failed THEN VcpuError(at) ELSE firstErr
    /\ at' = at + 1
    /\ UNCHANGED <<main, handler, stdin, running, threadVars>>

JoinAp ==
    /\ main = "join" /\ at \in APs /\ pc[at] = "done"
    /\ firstErr' = IF at \in failed THEN Keep(VcpuError(at)) ELSE firstErr
    /\ at' = at + 1
    /\ UNCHANGED <<main, handler, stdin, running, threadVars>>

ApsJoined ==
    /\ main = "join" /\ at \notin APs
    /\ main' = "stop_stdin"
    /\ UNCHANGED <<at, handler, stdin, running, firstErr, threadVars>>

\* A worker's own error is reported only when nothing failed before it.
StopStdin ==
    /\ main = "stop_stdin"
    /\ stdin' = FALSE
    /\ \E ok \in BOOLEAN :
          firstErr' = IF ok THEN firstErr ELSE Keep(Origin("stdin"))
    /\ main' = "stop_devices" /\ at' = 1
    /\ UNCHANGED <<handler, running, threadVars>>

StopDevice ==
    /\ main = "stop_devices" /\ at \in Devices
    /\ running' = running \ {at}
    /\ \E ok \in BOOLEAN :
          firstErr' = IF ok THEN firstErr ELSE Keep(Origin("device"))
    /\ at' = at + 1
    /\ UNCHANGED <<main, handler, stdin, threadVars>>

RunReturns ==
    /\ main = "stop_devices" /\ at \notin Devices
    /\ main' = "returned"
    /\ handler' = FALSE
    /\ UNCHANGED <<at, stdin, running, firstErr, threadVars>>

MainStep ==
    \/ InstallHandler \/ StartStdin \/ StartDevice \/ DevicesStarted
    \/ SpawnAp \/ StartBsp \/ BspReturned \/ StoreStop \/ KickAps
    \/ JoinAp \/ ApsJoined \/ StopStdin \/ StopDevice \/ RunReturns

------------------------------------------------------------------------------
Next ==
    \/ MainStep
    \/ \E v \in Vcpus :
          \/ VcpuStep(v)
          \/ KvmInterrupted(v)
          \/ KvmNotRunnable(v)
          \/ \E e \in Exits : KvmExit(v, e)

Spec == Init /\ [][Next]_vars

\* The host schedules every thread that can run, and a KVM_RUN that was kicked
\* returns.  Nothing makes a guest leave KVM_RUN by itself.
FairSpec ==
    /\ Spec
    /\ WF_vars(MainStep)
    /\ \A v \in Vcpus : WF_vars(VcpuStep(v)) /\ WF_vars(KvmInterrupted(v))

------------------------------------------------------------------------------
(* Properties *)

\* Every variable of the protocol stays in its range.
TypeOK ==
    /\ main \in MainStates
    /\ at \in Nat
    /\ handler \in BOOLEAN
    /\ stop \in BOOLEAN
    /\ registry \in SUBSET Vcpus
    /\ pc \in [Vcpus -> VcpuStates]
    /\ kicked \in [Vcpus -> BOOLEAN]
    /\ failed \in SUBSET Vcpus
    /\ stdin \in BOOLEAN
    /\ running \in SUBSET Devices
    /\ firstErr \in ErrorOrigins

\* kick_all signals exactly the threads that are inside run_vcpu_loop: never
\* one that has exited (the SAFETY comment of kick_all), and never too few.
RegistryIsLive == registry = {v \in Vcpus : pc[v] \in LoopStates}

\* A vCPU loop that ends with Ok means that a stop was requested: no vCPU
\* leaves quietly while the others go on.
OkMeansStop == \A v \in Vcpus : pc[v] = "done" /\ v \notin failed => stop

\* Whoever is about to send SIGUSR2 does so while run()'s handler is
\* installed, so that the signal cannot terminate the process.  A run() that
\* could not create a thread is the exception: it leaves the others behind.
KickHasHandler ==
    /\ main # "abandoned"
    /\ main = "kick" \/ (\E v \in Vcpus : pc[v] = "kicking")
    => handler

\* When run() returns, other than from a failed spawn, no vCPU thread, device
\* worker or stdin worker is left behind and the signal handler is restored.
CleanReturn ==
    main = "returned" =>
        /\ \A v \in Vcpus : pc[v] \in {"none", "done"}
        /\ running = {} /\ ~ stdin /\ ~ handler /\ registry = {}

\* run() reports the failed vCPU with the lowest index, the BSP before every
\* AP, whatever order the threads failed in; worker errors never mask it.
FirstErrorReported ==
    main = "returned" /\ pc[Bsp] = "done" /\ failed # {} =>
        \E v \in failed :
            /\ firstErr = VcpuError(v)
            /\ \A w \in failed : v <= w

\* A kick that reaches a vCPU inside KVM_RUN makes its thread leave the loop.
\* This needs the flag to be stored before the kick is sent.
KickedVcpuLeaves ==
    \A v \in Vcpus : kicked[v] ~> pc[v] = "done"

\* Once the BSP's loop has ended or a stop was requested, run() returns unless
\* some vCPU stays inside KVM_RUN with no kick pending for ever.
OnlyMissedKickBlocks ==
    <>(stop \/ pc[Bsp] = "done") =>
        \/ <>(main \in {"returned", "abandoned"})
        \/ <>[](\E v \in Vcpus : pc[v] = "kvm" /\ ~ kicked[v])

==============================================================================
