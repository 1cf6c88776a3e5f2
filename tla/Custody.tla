------------------------------ MODULE Custody ------------------------------
(***************************************************************************)
(* Custody of the local MinIO store: minio_custody.go and the part of      *)
(* runtime.go's Init that provisions the store.                            *)
(*                                                                         *)
(* A run is one agent process of a service.  The runs of the model share a *)
(* Docker display name, and with it the MinIO container and the flock;     *)
(* their owners may differ, and each owner has a custody directory of its  *)
(* own.  The directory holds custody.json (the record) and data/, which    *)
(* holds the marker and is mounted into the container.                     *)
(*                                                                         *)
(* A process may die between any two steps, a step's I/O may fail, the     *)
(* machine may lose power and with it the directory entries that were not  *)
(* synced, and an operator may lose part of a store.                       *)
(***************************************************************************)
EXTENDS Integers

CONSTANTS Runs,       \* agent processes
          Owners,     \* structured identities: workspace, module, service, scope
          OwnerOf,    \* the identity of each run
          BucketOf,   \* the bucket each run is configured with
          Faults,     \* of "crash", "io", "power": what may go wrong
          Legacy,     \* whether a version 1 location exists under the display name
          Losses,     \* bound: how often part of a store may be lost
          Nobody,     \* no run
          None        \* no record, no marker, no container

\* custody.json and the marker; bucket 0 is in a marker this agent did not write.
Record == [bucket : {BucketOf[r] : r \in Runs} \cup {0}, id : Nat,
           phase : {"pending", "committed"}]

Directory == [root : BOOLEAN, data : BOOLEAN,
              marker : Record \cup {None}, record : Record \cup {None}]

Container == [mount : Owners, by : Runs \cup {Nobody}]

ASSUME CustodyAssumption ==
  /\ OwnerOf \in [Runs -> Owners]
  /\ Nobody \notin Runs
  /\ Faults \subseteq {"crash", "io", "power"}
  /\ Legacy \in BOOLEAN
  /\ Losses \in Nat
  /\ None \notin Record
  /\ None \notin Container

VARIABLES pc,        \* where each run is in Init
          lock,      \* the run that holds the flock
          present,   \* what the run saw of the container before it read the record
          newStore,  \* s.minioNewStore
          disk,      \* each custody directory: root, data, marker, record
          unsynced,  \* the entries of it a power loss may take back
          bucket,    \* the bucket in each store: 0, or which MakeBucket made it
          container, \* the MinIO container: which store it mounts, whose it is
          made,      \* history: MakeBucket calls, and ids drawn, so far
          written,   \* history: the bucket objects were stored in through a gateway
          lost       \* how often part of a store was lost

vars == <<pc, lock, present, newStore, disk, unsynced, bucket, container, made, written, lost>>

diskVars == <<disk, unsynced, bucket>>
ghostVars == <<written, lost>>

\* What fsync makes durable: three directory entries, and the two renames of
\* custody.json, which create it and commit it.
Entries == {"root", "data", "marker", "record", "phase"}

NoDisk == [root |-> FALSE, data |-> FALSE, marker |-> None, record |-> None]

Init ==
  /\ pc = [r \in Runs |-> "idle"]
  /\ lock = Nobody
  /\ present = [r \in Runs |-> FALSE]
  /\ newStore = [r \in Runs |-> FALSE]
  /\ disk = [o \in Owners |-> NoDisk]
  /\ unsynced = [o \in Owners |-> {}]
  /\ bucket = [o \in Owners |-> 0]
  /\ container = None
  /\ made = 0
  /\ written = [o \in Owners |-> 0]
  /\ lost = 0

Goto(r, s) == pc' = [pc EXCEPT ![r] = s]

Mine(r) == disk[OwnerOf[r]]

-----------------------------------------------------------------------------
(* prepareMinIOData *)

\* Mutant: what TryLockContext answers is not looked at.
AcquireUnlocked(r) ==
  /\ pc[r] = "idle"
  /\ lock' = r
  /\ Goto(r, "locked")
  /\ UNCHANGED <<present, newStore, diskVars, container, made, ghostVars>>

\* lock.TryLockContext.
Acquire(r) ==
  /\ pc[r] = "idle"
  /\ lock = Nobody
  /\ lock' = r
  /\ Goto(r, "locked")
  /\ UNCHANGED <<present, newStore, diskVars, container, made, ghostVars>>

\* The lock is still held after minioCustodyLockWait.
LockTimeout(r) ==
  /\ pc[r] = "idle"
  /\ lock # Nobody
  /\ Goto(r, "refused")
  /\ UNCHANGED <<lock, present, newStore, diskVars, container, made, ghostVars>>

\* Mutant: an error path that forgets release().
RefuseLocked(r) ==
  /\ Goto(r, "refused")
  /\ UNCHANGED <<lock, present, newStore, diskVars, container, made, ghostVars>>

\* fail(err): the lock is released, nothing is rolled back.
Refuse(r) ==
  /\ Goto(r, "refused")
  /\ lock' = Nobody
  /\ UNCHANGED <<present, newStore, diskVars, container, made, ghostVars>>

\* The legacy location, ContainerInspect and validateMinIOMount.
MayInspect(r) == ~Legacy /\ (container # None => container.mount = OwnerOf[r])

Inspect(r) ==
  /\ pc[r] = "locked"
  /\ MayInspect(r)
  /\ present' = [present EXCEPT ![r] = container # None]
  /\ Goto(r, "inspected")
  /\ UNCHANGED <<lock, newStore, diskVars, container, made, ghostVars>>

InspectRefuses(r) == pc[r] = "locked" /\ ~MayInspect(r) /\ Refuse(r)

\* A custody directory with nothing in it: what claimEmptyCustodyRoot accepts.
Empty(d) == ~d.data /\ d.record = None

\* Mutant: a missing record is made again from the marker.
FindRecordHeals(r) ==
  /\ pc[r] = "inspected"
  /\ Mine(r).record # None \/ Mine(r).marker # None
  /\ disk' = [disk EXCEPT ![OwnerOf[r]].record = IF @ # None THEN @ ELSE Mine(r).marker]
  /\ Goto(r, "synced")
  /\ UNCHANGED <<lock, present, newStore, unsynced, bucket, container, made, ghostVars>>

FindRecord(r) ==
  /\ pc[r] = "inspected"
  /\ Mine(r).record # None
  /\ Goto(r, "synced")
  /\ UNCHANGED <<lock, present, newStore, diskVars, container, made, ghostVars>>

ClaimRoot(r) ==
  /\ pc[r] = "inspected"
  /\ Mine(r).record = None
  /\ ~present[r]
  /\ Empty(Mine(r))
  /\ disk' = [disk EXCEPT ![OwnerOf[r]].root = TRUE]
  /\ unsynced' = [unsynced EXCEPT ![OwnerOf[r]] =
                    IF Mine(r).root THEN @ ELSE @ \cup {"root"}]
  /\ Goto(r, "claimed")
  /\ UNCHANGED <<lock, present, newStore, bucket, container, made, ghostVars>>

ClaimRefuses(r) ==
  /\ pc[r] = "inspected"
  /\ Mine(r).record = None
  /\ present[r] \/ ~Empty(Mine(r))
  /\ Refuse(r)

\* os.Mkdir(data), which fails when data exists.
MakeData(r) ==
  /\ pc[r] = "claimed"
  /\ ~Mine(r).data
  /\ disk' = [disk EXCEPT ![OwnerOf[r]].data = TRUE]
  /\ unsynced' = [unsynced EXCEPT ![OwnerOf[r]] = @ \cup {"data"}]
  /\ Goto(r, "data")
  /\ UNCHANGED <<lock, present, newStore, bucket, container, made, ghostVars>>

MakeDataFails(r) == pc[r] = "claimed" /\ Mine(r).data /\ Refuse(r)

\* What a run that finds no record writes.
Fresh(r, id) == [bucket |-> BucketOf[r], id |-> id, phase |-> "pending"]

\* writeCustodyRecord(markerPath), up to the rename, with a fresh id.
WriteMarker(r) ==
  /\ pc[r] = "data"
  /\ Mine(r).data
  /\ made' = made + 1
  /\ disk' = [disk EXCEPT ![OwnerOf[r]].marker = Fresh(r, made + 1)]
  /\ unsynced' = [unsynced EXCEPT ![OwnerOf[r]] = @ \cup {"marker"}]
  /\ Goto(r, "marked")
  /\ UNCHANGED <<lock, present, newStore, bucket, container, ghostVars>>

\* The sync of data, then writeCustodyRecord(recordPath) up to the rename.  The
\* record in memory is the one the marker was written from: no id was drawn since.
WriteRecord(r) ==
  /\ pc[r] = "marked"
  /\ disk' = [disk EXCEPT ![OwnerOf[r]].record = Fresh(r, made)]
  /\ unsynced' = [unsynced EXCEPT ![OwnerOf[r]] = (@ \ {"marker"}) \cup {"record"}]
  /\ Goto(r, "recorded")
  /\ UNCHANGED <<lock, present, newStore, bucket, container, made, ghostVars>>

\* The sync of root that ends writeCustodyRecord.
SyncRecord(r) ==
  /\ pc[r] = "recorded"
  /\ unsynced' = [unsynced EXCEPT ![OwnerOf[r]] = @ \ {"record", "data"}]
  /\ Goto(r, "durable")
  /\ UNCHANGED <<lock, present, newStore, disk, bucket, container, made, ghostVars>>

\* parent.Sync: only a run that wrote the record does it.
SyncParent(r) ==
  /\ pc[r] = "durable"
  /\ unsynced' = [unsynced EXCEPT ![OwnerOf[r]] = @ \ {"root"}]
  /\ Goto(r, "synced")
  /\ UNCHANGED <<lock, present, newStore, disk, bucket, container, made, ghostVars>>

\* The marker is the record's.
Marked(d) ==
  /\ d.data
  /\ d.marker # None
  /\ d.marker.phase = "pending"
  /\ d.marker.bucket = d.record.bucket
  /\ d.marker.id = d.record.id

\* Mutant: a record still pending is taken for a corrupt one.
AgreesWhenCommitted(d, b) ==
  d.record # None /\ d.record.bucket = b /\ Marked(d) /\ d.record.phase = "committed"

\* The record names the configured bucket and the marker is its own.
Agrees(d, b) == d.record # None /\ d.record.bucket = b /\ Marked(d)

Verify(r) ==
  /\ pc[r] = "synced"
  /\ Agrees(Mine(r), BucketOf[r])
  /\ newStore' = [newStore EXCEPT ![r] = Mine(r).record.phase = "pending"]
  /\ Goto(r, "verified")
  /\ UNCHANGED <<lock, present, diskVars, container, made, ghostVars>>

VerifyRefuses(r) == pc[r] = "synced" /\ ~Agrees(Mine(r), BucketOf[r]) /\ Refuse(r)

\* Any call of the preflight may fail.
Preflight == {"locked", "inspected", "claimed", "data", "marked", "recorded", "durable", "synced"}

PreflightFails(r) == "io" \in Faults /\ pc[r] \in Preflight /\ Refuse(r)

-----------------------------------------------------------------------------
(* startLocalMinIOWithRelease after prepareMinIOData, and the rest of Init *)

\* runner.Init replaces the container of that name: the password in its
\* fingerprint is a new one.  Docker makes the mounted directory if it is gone.
StartContainer(r) ==
  /\ pc[r] = "verified"
  /\ container' = [mount |-> OwnerOf[r], by |-> r]
  /\ disk' = [disk EXCEPT ![OwnerOf[r]].data = TRUE]
  /\ Goto(r, "started")
  /\ UNCHANGED <<lock, present, newStore, unsynced, bucket, made, ghostVars>>

\* ensureBucket: BucketExists.
FindBucket(r) ==
  /\ pc[r] = "started"
  /\ bucket[OwnerOf[r]] # 0
  /\ Goto(r, "bucketed")
  /\ UNCHANGED <<lock, present, newStore, diskVars, container, made, ghostVars>>

\* Mutant: a missing bucket is made whatever the record says.
MakeBucketAnyway(r) ==
  /\ pc[r] = "started"
  /\ bucket[OwnerOf[r]] = 0
  /\ made' = made + 1
  /\ bucket' = [bucket EXCEPT ![OwnerOf[r]] = made + 1]
  /\ Goto(r, "bucketed")
  /\ UNCHANGED <<lock, present, newStore, disk, unsynced, container, ghostVars>>

\* ensureBucket: MakeBucket, for a store that was never committed.
MakeBucket(r) ==
  /\ pc[r] = "started"
  /\ bucket[OwnerOf[r]] = 0
  /\ newStore[r]
  /\ made' = made + 1
  /\ bucket' = [bucket EXCEPT ![OwnerOf[r]] = made + 1]
  /\ Goto(r, "bucketed")
  /\ UNCHANGED <<lock, present, newStore, disk, unsynced, container, ghostVars>>

\* The answer to MakeBucket is lost: ensureBucket asks again whether it exists.
MakeBucketUnanswered(r) ==
  /\ "io" \in Faults
  /\ pc[r] = "started"
  /\ bucket[OwnerOf[r]] = 0
  /\ newStore[r]
  /\ made' = made + 1
  /\ bucket' = [bucket EXCEPT ![OwnerOf[r]] = made + 1]
  /\ UNCHANGED <<pc, lock, present, newStore, disk, unsynced, container, ghostVars>>

\* The bucket of a committed store is missing: errMinIOCustody, no rollback.
BucketRefuses(r) ==
  /\ pc[r] = "started"
  /\ bucket[OwnerOf[r]] = 0
  /\ ~newStore[r]
  /\ Refuse(r)

\* commitMinIOProvisioning, up to the rename.
Commit(r) ==
  /\ pc[r] = "bucketed"
  /\ Mine(r).record # None
  /\ disk' = [disk EXCEPT ![OwnerOf[r]].record.phase = "committed"]
  /\ unsynced' = [unsynced EXCEPT ![OwnerOf[r]] =
                    IF Mine(r).record.phase = "pending" THEN @ \cup {"phase"} ELSE @]
  /\ Goto(r, "committed")
  /\ UNCHANGED <<lock, present, newStore, bucket, container, made, ghostVars>>

\* Mutant: the directory is not synced after the record was renamed.
SyncCommitSkipped(r) ==
  /\ pc[r] = "committed"
  /\ newStore' = [newStore EXCEPT ![r] = FALSE]
  /\ Goto(r, "provisioned")
  /\ UNCHANGED <<lock, present, diskVars, container, made, ghostVars>>

\* The sync of root; startLocalMinIO returns with the lock held.
SyncCommit(r) ==
  /\ pc[r] = "committed"
  /\ unsynced' = [unsynced EXCEPT ![OwnerOf[r]] = @ \ {"record", "phase", "data"}]
  /\ newStore' = [newStore EXCEPT ![r] = FALSE]
  /\ Goto(r, "provisioned")
  /\ UNCHANGED <<lock, present, disk, bucket, container, made, ghostVars>>

\* The gateway is started and Init returns, which releases the lock.
Ready(r) ==
  /\ pc[r] = "provisioned"
  /\ Goto(r, "ready")
  /\ lock' = Nobody
  /\ UNCHANGED <<present, newStore, diskVars, container, made, ghostVars>>

\* A failed start of MinIO: the deferred release() runs before rollbackInit.
StartFails(r) ==
  /\ \/ "io" \in Faults /\ pc[r] \in {"verified", "started", "bucketed", "committed", "provisioned"}
     \/ pc[r] = "bucketed" /\ Mine(r).record = None
  /\ Goto(r, "rollback")
  /\ lock' = Nobody
  /\ UNCHANGED <<present, newStore, diskVars, container, made, ghostVars>>

\* A failed start of the gateway: rolled back before Init releases the lock.
GatewayFails(r) ==
  /\ "io" \in Faults
  /\ pc[r] = "provisioned"
  /\ Goto(r, "unwinding")
  /\ UNCHANGED <<lock, present, newStore, diskVars, container, made, ghostVars>>

\* A consumer configuration cannot be built: no rollback, the containers stay.
ConnectionFails(r) == "io" \in Faults /\ pc[r] = "provisioned" /\ Refuse(r)

IsMine(r) == container # None /\ container.by = r

\* minioEnv.Shutdown removes the container by its id, or fails and leaves it.
ShutMinIO(r) ==
  \/ container' = IF IsMine(r) THEN None ELSE container
  \/ "io" \in Faults /\ UNCHANGED container

Rollback(r) ==
  /\ pc[r] \in {"rollback", "unwinding"}
  /\ ShutMinIO(r)
  /\ lock' = IF pc[r] = "unwinding" THEN Nobody ELSE lock
  /\ Goto(r, "failed")
  /\ UNCHANGED <<present, newStore, diskVars, made, ghostVars>>

\* Destroy takes no lock.
Destroy(r) ==
  /\ pc[r] \in {"ready", "refused", "failed"}
  /\ ShutMinIO(r)
  /\ Goto(r, "destroyed")
  /\ UNCHANGED <<lock, present, newStore, diskVars, made, ghostVars>>

-----------------------------------------------------------------------------
(* What happens to the processes, the machine and the store *)

\* An object is stored through the gateway of a run whose Init succeeded.
Store(r) ==
  /\ pc[r] = "ready"
  /\ IsMine(r)
  /\ bucket[OwnerOf[r]] # 0
  /\ written' = [written EXCEPT ![OwnerOf[r]] = bucket[OwnerOf[r]]]
  /\ UNCHANGED <<pc, lock, present, newStore, diskVars, container, made, lost>>

\* The agent process ends: the kernel drops its lock, its container stays.
Crash(r) ==
  /\ "crash" \in Faults \/ pc[r] \in {"ready", "refused", "failed", "destroyed"}
  /\ pc[r] # "dead"
  /\ Goto(r, "dead")
  /\ lock' = IF lock = r THEN Nobody ELSE lock
  /\ container' = IF IsMine(r) THEN [container EXCEPT !.by = Nobody] ELSE container
  /\ UNCHANGED <<present, newStore, diskVars, made, ghostVars>>

\* The same service is run again by a new process.
Restart(r) ==
  /\ pc[r] = "dead"
  /\ Goto(r, "idle")
  /\ newStore' = [newStore EXCEPT ![r] = FALSE]
  /\ UNCHANGED <<lock, present, diskVars, container, made, ghostVars>>

\* What is left of directory d when the unsynced entries in L are lost.
Recovered(d, L) ==
  IF "root" \in L THEN NoDisk
  ELSE [root   |-> d.root,
        data   |-> d.data /\ "data" \notin L,
        marker |-> IF {"data", "marker"} \cap L # {} THEN None ELSE d.marker,
        record |-> IF "record" \in L \/ d.record = None THEN None
                   ELSE IF "phase" \in L THEN [d.record EXCEPT !.phase = "pending"]
                   ELSE d.record]

PowerLoss ==
  /\ "power" \in Faults
  /\ \E L \in [Owners -> SUBSET Entries] :
       /\ \A o \in Owners : L[o] \subseteq unsynced[o]
       /\ disk' = [o \in Owners |-> Recovered(disk[o], L[o])]
       /\ bucket' = [o \in Owners |-> IF {"root", "data"} \cap L[o] # {} THEN 0 ELSE bucket[o]]
  /\ unsynced' = [o \in Owners |-> {}]
  /\ pc' = [r \in Runs |-> "dead"]
  /\ lock' = Nobody
  /\ container' = IF container = None THEN None ELSE [container EXCEPT !.by = Nobody]
  /\ UNCHANGED <<present, newStore, made, ghostVars>>

\* The marker of another store.
Foreign == [bucket |-> 0, id |-> 0, phase |-> "pending"]

\* Part of a store is lost: its bucket, its record, its data directory, or the
\* data directory is replaced by one that holds something else.
Lose(o) ==
  /\ lost < Losses
  /\ disk[o].root
  /\ \/ /\ bucket[o] # 0
        /\ bucket' = [bucket EXCEPT ![o] = 0]
        /\ UNCHANGED disk
     \/ /\ disk' = [disk EXCEPT ![o].record = None]
        /\ UNCHANGED bucket
     \/ /\ disk' = [disk EXCEPT ![o] = [@ EXCEPT !.data = FALSE, !.marker = None]]
        /\ bucket' = [bucket EXCEPT ![o] = 0]
     \/ /\ disk' = [disk EXCEPT ![o] = [@ EXCEPT !.data = TRUE, !.marker = Foreign]]
        /\ bucket' = [bucket EXCEPT ![o] = 0]
  /\ lost' = lost + 1
  /\ UNCHANGED <<pc, lock, present, newStore, unsynced, container, made, written>>

InitStep(r) ==
  \/ Acquire(r) \/ LockTimeout(r)
  \/ Inspect(r) \/ InspectRefuses(r)
  \/ FindRecord(r) \/ ClaimRoot(r) \/ ClaimRefuses(r)
  \/ MakeData(r) \/ MakeDataFails(r) \/ WriteMarker(r) \/ WriteRecord(r) \/ SyncRecord(r) \/ SyncParent(r)
  \/ Verify(r) \/ VerifyRefuses(r)
  \/ StartContainer(r)
  \/ FindBucket(r) \/ MakeBucket(r) \/ MakeBucketUnanswered(r) \/ BucketRefuses(r)
  \/ Commit(r) \/ SyncCommit(r) \/ Ready(r)

FailStep(r) == PreflightFails(r) \/ StartFails(r) \/ GatewayFails(r) \/ ConnectionFails(r) \/ Rollback(r)

Next ==
  \/ \E r \in Runs : InitStep(r) \/ FailStep(r) \/ Destroy(r) \/ Store(r) \/ Crash(r) \/ Restart(r)
  \/ PowerLoss
  \/ \E o \in Owners : Lose(o)

Spec == Init /\ [][Next]_vars

\* A process that is not killed runs Init to its end, and is started again.
Fairness == \A r \in Runs : WF_vars(InitStep(r) \/ Rollback(r)) /\ WF_vars(Restart(r))

FairSpec == Spec /\ Fairness

-----------------------------------------------------------------------------
(* Properties *)

Steps == {"idle", "locked", "inspected", "claimed", "data", "marked", "recorded", "durable", "synced",
          "verified", "started", "bucketed", "committed", "provisioned", "ready", "refused",
          "rollback", "unwinding", "failed", "destroyed", "dead"}

\* The state's types.
TypeOK ==
  /\ pc \in [Runs -> Steps]
  /\ lock \in Runs \cup {Nobody}
  /\ present \in [Runs -> BOOLEAN]
  /\ newStore \in [Runs -> BOOLEAN]
  /\ disk \in [Owners -> Directory]
  /\ unsynced \in [Owners -> SUBSET Entries]
  /\ bucket \in [Owners -> Nat]
  /\ container \in Container \cup {None}
  /\ made \in Nat
  /\ written \in [Owners -> Nat]
  /\ lost \in 0..Losses

\* Once objects were stored, the bucket they are in is never succeeded by a new,
\* empty one: whatever part of the store was lost and wherever runs died or
\* failed, ensureBucket creates nothing over it.
NeverReplaced ==
  \A o \in Owners : written[o] # 0 => bucket[o] \in {0, written[o]}

\* Custody is taken only of nothing: no record appears over a store that holds a
\* bucket, whichever part of the store was lost before.
InitializesOverNothing ==
  [][\A o \in Owners :
       disk[o].record = None /\ disk'[o].record # None => bucket[o] = 0 /\ written[o] = 0]_vars

\* What is stored is durable once its record is committed and synced
\* (minio_custody.go:280): the record, its phase and the bucket are there for good.
CommittedIsDurable ==
  \A o \in Owners : written[o] # 0 /\ lost = 0 =>
    /\ disk[o].record # None
    /\ disk[o].record.phase = "committed"
    /\ bucket[o] = written[o]

\* The objects of o are in their bucket, behind a committed record and its marker.
InPlace(o) ==
  /\ written[o] # 0 /\ bucket[o] = written[o]
  /\ disk[o].record # None /\ disk[o].record.phase = "committed"
  /\ Marked(disk[o])

\* Objects are stored only in a store that is in place, and it stays in place
\* wherever runs die or fail and whenever the machine loses power; but a loss of
\* power may take a directory whose own entry was never synced, all of it at once.
StoredStays ==
  [][\A o \in Owners : lost' = 0 /\ (InPlace(o) \/ written'[o] # written[o]) =>
       InPlace(o)' \/ ("root" \in unsynced[o] /\ ~disk'[o].root)]_vars

\* A container is replaced only by a run of the owner whose store it mounts,
\* although the run looked at it many steps before it replaces it.
ReplacesOnlyItsOwn ==
  [][\A r \in Runs : container # None /\ container' # None /\ container'.by = r /\ ~IsMine(r)
       => container.mount = OwnerOf[r]]_vars

\* The steps in which a run works on the store.
Critical == Preflight \cup {"verified", "started", "bucketed", "committed",
                             "provisioned", "unwinding"}

\* The store is prepared by one run at a time, from the look at the container to
\* the start of the gateway, and whichever way a run ends the lock is free again.
OneProvisioner == \A r \in Runs : pc[r] \in Critical <=> lock = r

\* A run is killed in the middle of Init.
Killed == \E r \in Runs : pc[r] \in Critical \cup {"idle"} /\ pc'[r] = "dead"

\* The record of r's bucket and the marker of that record are both in the directory.
Intact(r) ==
  LET d == Mine(r)
  IN d.record # None /\ d.record.bucket = BucketOf[r] /\ Marked(d)

\* A bootstrap that got as far as its record resumes: when runs stop being killed
\* and the record and the marker survived, the service comes up, whatever step
\* the earlier runs died at.
PendingResumes ==
  <>[][~Killed]_vars =>
    \A r \in Runs : <>[]Intact(r) => (pc[r] = "dead" ~> pc[r] = "ready")
=============================================================================
