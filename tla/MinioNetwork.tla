---------------------------- MODULE MinioNetwork ----------------------------
(***************************************************************************)
(* The containers of one service and the network they share:               *)
(* minio_network.go, and startLocalMinIOWithRelease, startGateway, teardown *)
(* and Destroy of runtime.go.                                              *)
(*                                                                         *)
(* Runs of the service take turns to initialize, under the lock of the     *)
(* custody directory.  They tear down without it.  A container is known by *)
(* its kind and the run that made it; there is one of a kind at a time,    *)
(* because it has the service's name, and it is recreated by each run,     *)
(* because the password of MinIO is new in each.                           *)
(***************************************************************************)
EXTENDS Naturals

CONSTANTS
  Runs,    \* processes of the agent, each of which initializes once
  Faults,  \* of "crash", "io": what may go wrong
  None     \* no run

ASSUME NetworkAssumption == None \notin Runs /\ Faults \subseteq {"crash", "io"}

VARIABLES
  lock,     \* the run that holds the lock
  pc,       \* where a run is
  kind,     \* the container it is at, on its way up
  env,      \* minioEnv and gatewayEnv, where not nil
  joined,   \* s.minioNetwork is set
  clean,    \* no error in this teardown so far
  box,      \* the run that made the container of a kind, or None
  net,      \* the network exists
  members,  \* the kinds whose container is attached to it
  faulted,  \* history: an operation of the run failed by a fault
  orphaned  \* history: a network was made by a run that was told otherwise

vars == <<lock, pc, kind, env, joined, clean, box, net, members, faulted, orphaned>>
docker == <<box, net, members>>
history == <<faulted, orphaned>>

Kinds == {"minio", "gateway"}

Init ==
  /\ lock = None
  /\ pc = [r \in Runs |-> "off"]
  /\ kind = [r \in Runs |-> "minio"]
  /\ env = [r \in Runs |-> {}]
  /\ joined = [r \in Runs |-> FALSE]
  /\ clean = [r \in Runs |-> TRUE]
  /\ box = [k \in Kinds |-> None]
  /\ net = FALSE
  /\ members = {}
  /\ faulted = [r \in Runs |-> FALSE]
  /\ orphaned = FALSE

Goto(r, s) == pc' = [pc EXCEPT ![r] = s]
Fault(r) == "io" \in Faults /\ faulted' = [faulted EXCEPT ![r] = TRUE]
Free(r) == lock' = IF lock = r THEN None ELSE lock

\* The container of kind k is r's, is another's, or is gone.
Boxed(k, r) ==
  /\ box' = [box EXCEPT ![k] = r]
  /\ members' = IF box[k] = r THEN members ELSE members \ {k}

-----------------------------------------------------------------------------
(* Init, under the lock *)

Acquire(r) ==
  /\ pc[r] = "off"
  /\ lock = None
  /\ lock' = r
  /\ Goto(r, "starting")
  /\ UNCHANGED <<kind, env, joined, clean, docker, history>>

\* runner.Init replaces the container that has the name.
Start(r) ==
  /\ pc[r] = "starting"
  /\ env' = [env EXCEPT ![r] = @ \cup {kind[r]}]
  /\ Boxed(kind[r], r)
  /\ Goto(r, "inspecting")
  /\ UNCHANGED <<lock, kind, joined, clean, net, history>>

\* What Init does after a failure.  The lock is released before the rollback of
\* MinIO, after the one of the gateway.
GiveUp(r) ==
  /\ Goto(r, "down gateway")
  /\ clean' = [clean EXCEPT ![r] = TRUE]
  /\ lock' = IF kind[r] = "minio" THEN None ELSE lock
  /\ UNCHANGED <<kind, joined>>

\* Before or after the environment is owned, and before, between or after the
\* removal of the container that was there and the start of the new one.
StartFails(r) ==
  /\ pc[r] = "starting"
  /\ Fault(r)
  /\ \/ UNCHANGED <<env, box, members>>
     \/ /\ env' = [env EXCEPT ![r] = @ \cup {kind[r]}]
        /\ \E b \in {box[kind[r]], None, r} : Boxed(kind[r], b)
  /\ GiveUp(r)
  /\ UNCHANGED <<net, orphaned>>

\* ensureNetwork is done.
Ensured(r) ==
  /\ joined' = [joined EXCEPT ![r] = TRUE]
  /\ Goto(r, "connecting")
  /\ UNCHANGED <<lock, kind, clean>>

Inspect(r) ==
  /\ pc[r] = "inspecting"
  /\ \/ net /\ Ensured(r) /\ UNCHANGED faulted
     \/ ~net /\ Goto(r, "creating") /\ UNCHANGED <<lock, kind, joined, clean, faulted>>
     \/ Fault(r) /\ GiveUp(r)
  /\ UNCHANGED <<env, docker, orphaned>>

\* Names are unique.  A create that took effect may have its answer lost.
Create(r) ==
  /\ pc[r] = "creating"
  /\ \/ ~net /\ net' = TRUE /\ Ensured(r) /\ UNCHANGED faulted
     \/ /\ net \/ "io" \in Faults
        /\ Goto(r, "rechecking")
        /\ IF net THEN UNCHANGED <<net, faulted>> ELSE net' \in BOOLEAN /\ Fault(r)
        /\ UNCHANGED <<lock, kind, joined, clean>>
  /\ UNCHANGED <<env, box, members, orphaned>>

Recheck(r) ==
  /\ pc[r] = "rechecking"
  /\ \/ net /\ Ensured(r) /\ UNCHANGED history
     \/ ~net /\ GiveUp(r) /\ UNCHANGED history
     \/ Fault(r) /\ GiveUp(r) /\ orphaned' = (orphaned \/ net)
  /\ UNCHANGED <<env, docker>>

\* The container of this step is attached.
Attached(r) ==
  /\ Goto(r, IF kind[r] = "minio" THEN "preparing" ELSE "configuring")
  /\ UNCHANGED <<lock, kind, joined, clean>>

\* The network and the container have to be there.
CanConnect(r) == net /\ box[kind[r]] = r

Connect(r) ==
  /\ pc[r] = "connecting"
  /\ \/ /\ CanConnect(r)
        /\ members' = members \cup {kind[r]}
        /\ Attached(r)
        /\ UNCHANGED faulted
     \/ /\ ~CanConnect(r)
        /\ Goto(r, "verifying")
        /\ UNCHANGED <<lock, kind, joined, clean, members, faulted>>
     \/ /\ Fault(r)
        /\ members' \in {members} \cup (IF CanConnect(r) THEN {members \cup {kind[r]}} ELSE {})
        /\ Goto(r, "verifying")
        /\ UNCHANGED <<lock, kind, joined, clean>>
  /\ UNCHANGED <<env, box, net, orphaned>>

IsMember(r) == net /\ kind[r] \in members /\ box[kind[r]] = r

\* Mutant: a refused attach passes for a container that is attached already.
VerifyAnyway(r) ==
  /\ pc[r] = "verifying"
  /\ Attached(r)
  /\ UNCHANGED <<env, docker, faulted, orphaned>>

Verify(r) ==
  /\ pc[r] = "verifying"
  /\ \/ IsMember(r) /\ Attached(r) /\ UNCHANGED faulted
     \/ ~IsMember(r) /\ GiveUp(r) /\ UNCHANGED faulted
     \/ Fault(r) /\ GiveUp(r)
  /\ UNCHANGED <<env, docker, orphaned>>

\* ensureBucket, commitMinIOProvisioning and resolveGatewayToken.  A bucket that is
\* missing is a matter of custody, and nothing is rolled back.
Prepare(r) ==
  /\ pc[r] = "preparing"
  /\ \/ /\ kind' = [kind EXCEPT ![r] = "gateway"]
        /\ Goto(r, "starting")
        /\ UNCHANGED <<lock, joined, clean, faulted>>
     \/ Fault(r) /\ GiveUp(r)
     \/ Fault(r) /\ Free(r) /\ Goto(r, "refused") /\ UNCHANGED <<kind, joined, clean>>
  /\ UNCHANGED <<env, docker, orphaned>>

\* CreateConnectionConfiguration; a failure of it rolls nothing back.
Configure(r) ==
  /\ pc[r] = "configuring"
  /\ \/ Goto(r, "ready") /\ UNCHANGED faulted
     \/ Goto(r, "failed") /\ Fault(r)
  /\ Free(r)
  /\ UNCHANGED <<kind, env, joined, clean, docker, orphaned>>

Up(r) ==
  \/ Start(r) \/ StartFails(r) \/ Inspect(r) \/ Create(r) \/ Recheck(r)
  \/ Connect(r) \/ Verify(r) \/ Prepare(r) \/ Configure(r)

-----------------------------------------------------------------------------
(* teardown, of a rollback or of Destroy *)

Destroy(r) ==
  /\ pc[r] \in {"ready", "refused", "failed"}
  /\ clean' = [clean EXCEPT ![r] = TRUE]
  /\ Goto(r, "down gateway")
  /\ UNCHANGED <<lock, kind, env, joined, docker, history>>

\* Mutant: whatever container has the name.
RemovesByName(r, k) == TRUE

\* Core removes the container it acquired, by its id.
Removes(r, k) == box[k] = r

\* The container's removal, where there is one to remove.
Removed(r, k) ==
  IF Removes(r, k) THEN Boxed(k, None) ELSE UNCHANGED <<box, members>>

\* Mutant: an error of Shutdown is dropped, and what failed with it.
ShutDownForgets(r, k) ==
  \/ k \notin env[r] /\ UNCHANGED <<env, clean, box, members, faulted>>
  \/ /\ k \in env[r]
     /\ env' = [env EXCEPT ![r] = @ \ {k}]
     /\ \/ Removed(r, k) /\ UNCHANGED faulted
        \/ Fault(r) /\ UNCHANGED <<box, members>>
     /\ UNCHANGED clean

\* env.Shutdown.  What failed is kept, to be tried again.
ShutDown(r, k) ==
  \/ k \notin env[r] /\ UNCHANGED <<env, clean, box, members, faulted>>
  \/ /\ k \in env[r]
     /\ env' = [env EXCEPT ![r] = @ \ {k}]
     /\ Removed(r, k)
     /\ UNCHANGED <<clean, faulted>>
  \/ /\ k \in env[r]
     /\ Fault(r)
     /\ Removed(r, k) \/ UNCHANGED <<box, members>>
     /\ clean' = [clean EXCEPT ![r] = FALSE]
     /\ UNCHANGED env

DownGateway(r) ==
  /\ pc[r] = "down gateway"
  /\ ShutDown(r, "gateway")
  /\ Goto(r, "down minio")
  /\ UNCHANGED <<lock, kind, joined, net, orphaned>>

DownMinio(r) ==
  /\ pc[r] = "down minio"
  /\ ShutDown(r, "minio")
  /\ Goto(r, "down network")
  /\ UNCHANGED <<lock, kind, joined, net, orphaned>>

\* Mutant: the lock is kept when the gateway's rollback met an error.
ReturnHolding(r, ok) ==
  /\ Goto(r, IF ok THEN "gone" ELSE "failed")
  /\ lock' = IF ok /\ lock = r THEN None ELSE lock

Return(r, ok) ==
  /\ Goto(r, IF ok THEN "gone" ELSE "failed")
  /\ Free(r)

\* A network with containers on it cannot be removed.
InUse == members # {}

\* NetworkRemove, if the run ever joined the network.
RemoveNetwork(r) ==
  /\ pc[r] = "down network"
  /\ \/ ~joined[r] /\ Return(r, clean[r]) /\ UNCHANGED <<joined, net, faulted>>
     \/ /\ joined[r] /\ ~(net /\ InUse)
        /\ net' = FALSE
        /\ joined' = [joined EXCEPT ![r] = FALSE]
        /\ Return(r, clean[r])
        /\ UNCHANGED faulted
     \/ /\ joined[r] /\ net /\ InUse
        /\ Goto(r, "checking")
        /\ UNCHANGED <<lock, joined, net, faulted>>
     \/ /\ joined[r]
        /\ Fault(r)
        /\ net' \in {net} \cup (IF InUse THEN {} ELSE {FALSE})
        /\ Goto(r, "checking")
        /\ UNCHANGED <<lock, joined>>
  /\ UNCHANGED <<kind, env, clean, box, members, orphaned>>

\* The network is gone, or is left to those on it.
LeftToOthers == net => members # {}

\* NetworkInspect after a NetworkRemove that failed.
CheckNetwork(r) ==
  /\ pc[r] = "checking"
  /\ \/ LeftToOthers /\ joined' = [joined EXCEPT ![r] = FALSE] /\ Return(r, clean[r]) /\ UNCHANGED faulted
     \/ ~LeftToOthers /\ Return(r, FALSE) /\ UNCHANGED <<joined, faulted>>
     \/ Fault(r) /\ Return(r, FALSE) /\ UNCHANGED joined
  /\ UNCHANGED <<kind, env, clean, docker, orphaned>>

TearDown(r) == DownGateway(r) \/ DownMinio(r) \/ RemoveNetwork(r) \/ CheckNetwork(r)

\* The process ends; the kernel drops its lock, its containers stay.
Crash(r) ==
  /\ "crash" \in Faults
  /\ pc[r] \notin {"off", "dead"}
  /\ Goto(r, "dead")
  /\ Free(r)
  /\ UNCHANGED <<kind, env, joined, clean, docker, history>>

Next == \E r \in Runs : Acquire(r) \/ Up(r) \/ Destroy(r) \/ TearDown(r) \/ Crash(r)

\* A process that is not killed goes on; what it calls has deadlines.
Fairness == \A r \in Runs : WF_vars(Up(r) \/ TearDown(r))

Spec == Init /\ [][Next]_vars
FairSpec == Spec /\ Fairness

-----------------------------------------------------------------------------
(* Properties *)

GoingUp == {"starting", "inspecting", "creating", "rechecking", "connecting", "verifying",
            "preparing", "configuring"}
GoingDown == {"down gateway", "down minio", "down network", "checking"}

\* The state's types; a container on the network is there, and so is the network.
TypeOK ==
  /\ lock \in Runs \cup {None}
  /\ pc \in [Runs -> GoingUp \cup GoingDown \cup {"off", "ready", "refused", "failed", "gone", "dead"}]
  /\ kind \in [Runs -> Kinds]
  /\ env \in [Runs -> SUBSET Kinds]
  /\ joined \in [Runs -> BOOLEAN]
  /\ clean \in [Runs -> BOOLEAN]
  /\ box \in [Kinds -> Runs \cup {None}]
  /\ net \in BOOLEAN
  /\ members \in SUBSET Kinds
  /\ faulted \in [Runs -> BOOLEAN]
  /\ orphaned \in BOOLEAN
  /\ members # {} => net
  /\ \A k \in members : box[k] # None

\* As long as both containers of a ready run are there, the gateway reaches MinIO:
\* no teardown or rollback of another run takes the network from under them.
ReadyIsConnected ==
  \A r \in Runs : pc[r] = "ready" /\ (\A k \in Kinds : box[k] = r) => net /\ members = Kinds

\* A container goes by the teardown of the run that made it, or is replaced by a
\* run that holds the lock: never by the teardown of another run.
OnlyASuccessorReplaces ==
  [][\A k \in Kinds, r \in Runs : box[k] = r /\ box'[k] # r =>
       pc[r] \in GoingDown \/ (\E q \in Runs \ {r} : lock = q /\ pc[q] = "starting")]_vars

\* teardown returned without an error: the run's containers are gone.
CleanIsGone == \A r \in Runs : pc[r] = "gone" => env[r] = {} /\ ~joined[r] /\ \A k \in Kinds : box[k] # r

\* Init ends, and the lock is free again, whichever way it ends.
LockIsFreed == \A r \in Runs : lock = r ~> lock # r
=============================================================================
