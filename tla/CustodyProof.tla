---------------------------- MODULE CustodyProof ----------------------------
(* Proofs about Custody, for every set of runs and owners: its types, mutual  *)
(* exclusion of provisioning, that a store with objects in it is never        *)
(* succeeded by an empty one unless the machine loses power, that a run       *)
(* replaces only a container on its own directory and begins a record over    *)
(* nothing, and that a store with objects in it stays in place whatever       *)
(* fails, but for a directory whose own entry was never synced.               *)
EXTENDS Custody, TLAPS

-----------------------------------------------------------------------------
(* Types *)

LEMMA CustodyInit == Init => TypeOK
BY CustodyAssumption DEF Init, TypeOK, NoDisk, Directory, Entries, Steps

\* A change to one entry of a directory leaves a directory.
LEMMA DirectoryKept ==
  ASSUME NEW d \in Directory, NEW R \in Record \cup {None}
  PROVE  /\ [d EXCEPT !.root = TRUE] \in Directory
         /\ [d EXCEPT !.data = TRUE] \in Directory
         /\ [d EXCEPT !.marker = R] \in Directory
         /\ [d EXCEPT !.record = R] \in Directory
         /\ [d EXCEPT !.data = FALSE, !.marker = None] \in Directory
         /\ [d EXCEPT !.data = TRUE, !.marker = R] \in Directory
BY DEF Directory

\* Every step of Init's success path is well typed.
LEMMA InitStepTyped ==
  ASSUME TypeOK, NEW r \in Runs, InitStep(r)
  PROVE  TypeOK'
<1> USE CustodyAssumption DEF TypeOK, Goto, diskVars, ghostVars, Steps, Entries
<1>1. OwnerOf[r] \in Owners /\ Mine(r) \in Directory
  BY DEF Mine
<1>2. CASE Acquire(r) \/ LockTimeout(r)
  BY <1>2 DEF Acquire, LockTimeout
<1>3. CASE Inspect(r) \/ InspectRefuses(r)
  BY <1>3 DEF Inspect, InspectRefuses, Refuse
<1>4. CASE FindRecord(r) \/ ClaimRefuses(r) \/ MakeDataFails(r) \/ VerifyRefuses(r)
  BY <1>4 DEF FindRecord, ClaimRefuses, MakeDataFails, VerifyRefuses, Refuse
<1>5. CASE ClaimRoot(r)
  <2>1. [disk EXCEPT ![OwnerOf[r]].root = TRUE] \in [Owners -> Directory]
    BY <1>1, DirectoryKept DEF Mine
  <2> QED BY <1>5, <2>1 DEF ClaimRoot
<1>6. CASE MakeData(r)
  <2>1. [disk EXCEPT ![OwnerOf[r]].data = TRUE] \in [Owners -> Directory]
    BY <1>1, DirectoryKept DEF Mine
  <2> QED BY <1>6, <2>1 DEF MakeData
<1>7. CASE WriteMarker(r)
  <2>1. Fresh(r, made + 1) \in Record
    BY DEF Record, Fresh
  <2>2. disk' \in [Owners -> Directory]
    BY <1>1, <1>7, <2>1, DirectoryKept DEF WriteMarker, Mine
  <2> QED BY <1>7, <2>2 DEF WriteMarker
<1>8. CASE WriteRecord(r)
  <2>1. Fresh(r, made) \in Record
    BY DEF Record, Fresh
  <2>2. disk' \in [Owners -> Directory]
    BY <1>1, <1>8, <2>1, DirectoryKept DEF WriteRecord, Mine
  <2> QED BY <1>8, <2>2 DEF WriteRecord
<1>9. CASE SyncRecord(r) \/ SyncParent(r)
  BY <1>9 DEF SyncRecord, SyncParent
<1>10. CASE Verify(r)
  BY <1>10 DEF Verify
<1>11. CASE StartContainer(r)
  <2>1. [disk EXCEPT ![OwnerOf[r]].data = TRUE] \in [Owners -> Directory]
    BY <1>1, DirectoryKept DEF Mine
  <2>2. [mount |-> OwnerOf[r], by |-> r] \in Container
    BY <1>1 DEF Container
  <2> QED BY <1>11, <2>1, <2>2 DEF StartContainer
<1>12. CASE FindBucket(r) \/ MakeBucket(r) \/ MakeBucketUnanswered(r) \/ BucketRefuses(r)
  BY <1>12 DEF FindBucket, MakeBucket, MakeBucketUnanswered, BucketRefuses, Refuse
<1>13. CASE Commit(r)
  <2>1. Mine(r).record \in Record
    BY <1>1, <1>13 DEF Commit, Directory
  <2>2. [Mine(r).record EXCEPT !.phase = "committed"] \in Record
    BY <2>1 DEF Record
  <2>3. disk' \in [Owners -> Directory]
    BY <1>1, <1>13, <2>2 DEF Commit, Directory, Mine
  <2>4. unsynced' \in [Owners -> SUBSET Entries]
    BY <1>13 DEF Commit
  <2> QED BY <1>13, <2>3, <2>4 DEF Commit
<1>14. CASE SyncCommit(r)
  BY <1>14 DEF SyncCommit
<1>15. CASE Ready(r)
  BY <1>15 DEF Ready
<1> QED BY <1>2, <1>3, <1>4, <1>5, <1>6, <1>7, <1>8, <1>9, <1>10, <1>11, <1>12, <1>13,
           <1>14, <1>15 DEF InitStep

\* So is every failure of a run, and what a run does when Init is over.
LEMMA RunStepTyped ==
  ASSUME TypeOK, NEW r \in Runs,
         FailStep(r) \/ Destroy(r) \/ Store(r) \/ Crash(r) \/ Restart(r)
  PROVE  TypeOK'
<1> USE CustodyAssumption DEF TypeOK, Goto, diskVars, ghostVars, Steps
<1>1. CASE PreflightFails(r) \/ StartFails(r) \/ GatewayFails(r) \/ ConnectionFails(r)
  BY <1>1 DEF PreflightFails, StartFails, GatewayFails, ConnectionFails, Refuse
<1>2. CASE Rollback(r) \/ Destroy(r)
  <2>1. container' \in Container \cup {None}
    BY <1>2 DEF Rollback, Destroy, ShutMinIO
  <2> QED BY <1>2, <2>1 DEF Rollback, Destroy
<1>3. CASE Store(r)
  BY <1>3 DEF Store
<1>4. CASE Crash(r)
  <2>1. container' \in Container \cup {None}
    BY <1>4 DEF Crash, IsMine, Container
  <2> QED BY <1>4, <2>1 DEF Crash
<1>5. CASE Restart(r)
  BY <1>5 DEF Restart
<1> QED BY <1>1, <1>2, <1>3, <1>4, <1>5 DEF FailStep

\* What a power loss leaves of a directory is a directory.
LEMMA RecoveredTyped ==
  ASSUME NEW d \in Directory, NEW L \in SUBSET Entries
  PROVE  Recovered(d, L) \in Directory
<1>1. d.record # None => d.record \in Record
  BY DEF Directory
<1>2. d.record # None => [d.record EXCEPT !.phase = "pending"] \in Record
  BY <1>1 DEF Record
<1> QED BY <1>2 DEF Recovered, NoDisk, Directory

\* So is what happens to the machine and the store.
LEMMA WorldStepTyped ==
  ASSUME TypeOK, PowerLoss \/ \E o \in Owners : Lose(o)
  PROVE  TypeOK'
<1> USE CustodyAssumption DEF TypeOK, ghostVars, Steps
<1>1. CASE PowerLoss
  <2>1. PICK L \in [Owners -> SUBSET Entries] :
          /\ disk' = [o \in Owners |-> Recovered(disk[o], L[o])]
          /\ bucket' = [o \in Owners |-> IF {"root", "data"} \cap L[o] # {} THEN 0 ELSE bucket[o]]
    BY <1>1 DEF PowerLoss
  <2>2. disk' \in [Owners -> Directory]
    BY <2>1, RecoveredTyped
  <2>3. container' \in Container \cup {None}
    BY <1>1 DEF PowerLoss, Container
  <2>4. bucket' \in [Owners -> Nat]
    BY <2>1
  <2>5. unsynced' \in [Owners -> SUBSET Entries] /\ pc' \in [Runs -> Steps]
    BY <1>1 DEF PowerLoss
  <2> QED BY <1>1, <2>2, <2>3, <2>4, <2>5 DEF PowerLoss
<1>2. ASSUME NEW o \in Owners, Lose(o) PROVE TypeOK'
  <2>1. Foreign \in Record
    BY DEF Foreign, Record
  <2>2. disk[o] \in Directory
    OBVIOUS
  <2>3. /\ [disk[o] EXCEPT !.record = None] \in Directory
        /\ [disk[o] EXCEPT !.data = FALSE, !.marker = None] \in Directory
        /\ [disk[o] EXCEPT !.data = TRUE, !.marker = Foreign] \in Directory
    BY <2>1, <2>2, DirectoryKept
  <2>4. ASSUME NEW d \in Directory PROVE [disk EXCEPT ![o] = d] \in [Owners -> Directory]
    OBVIOUS
  <2>5. disk' \in [Owners -> Directory]
    <3>1. CASE UNCHANGED disk
      BY <3>1
    <3>2. CASE disk' = [disk EXCEPT ![o].record = None]
      BY <3>2, <2>3, <2>4
    <3>3. CASE disk' = [disk EXCEPT ![o] = [@ EXCEPT !.data = FALSE, !.marker = None]]
      BY <3>3, <2>3, <2>4
    <3>4. CASE disk' = [disk EXCEPT ![o] = [@ EXCEPT !.data = TRUE, !.marker = Foreign]]
      BY <3>4, <2>3, <2>4
    <3> QED BY <1>2, <3>1, <3>2, <3>3, <3>4 DEF Lose
  <2>6. lost' \in 0..Losses
    <3>1. lost < Losses /\ lost' = lost + 1
      BY <1>2, Zenon DEF Lose
    <3> HIDE <1>2
    <3> QED BY <3>1
  <2>7. bucket' \in [Owners -> Nat]
    <3>1. bucket' \in {bucket, [bucket EXCEPT ![o] = 0]}
      BY <1>2 DEF Lose
    <3> QED BY <3>1
  <2> QED BY <1>2, <2>5, <2>6, <2>7 DEF Lose
<1> QED BY <1>1, <1>2

LEMMA CustodyTyped == TypeOK /\ [Next]_vars => TypeOK'
<1> SUFFICES ASSUME TypeOK, [Next]_vars PROVE TypeOK'
  OBVIOUS
<1>1. CASE UNCHANGED vars
  BY <1>1 DEF vars, TypeOK
<1>2. CASE Next
  BY <1>2, InitStepTyped, RunStepTyped, WorldStepTyped DEF Next
<1> QED BY <1>1, <1>2

-----------------------------------------------------------------------------
(* Mutual exclusion                                                           *)

LEMMA LockInit == Init => OneProvisioner
BY CustodyAssumption DEF Init, OneProvisioner, Critical, Preflight

\* Only the step that takes the lock enters the critical steps, and every step
\* that leaves them releases it.
LEMMA LockKept == TypeOK /\ OneProvisioner /\ [Next]_vars => OneProvisioner'
<1> SUFFICES ASSUME TypeOK, OneProvisioner, [Next]_vars PROVE OneProvisioner'
  OBVIOUS
<1> USE CustodyAssumption DEF TypeOK, OneProvisioner, Critical, Preflight, Goto, Steps
<1>1. ASSUME NEW r \in Runs, InitStep(r) PROVE OneProvisioner'
  <2>1. CASE Acquire(r) \/ LockTimeout(r) \/ Inspect(r) \/ FindRecord(r)
    BY <2>1 DEF Acquire, LockTimeout, Inspect, FindRecord
  <2>2. CASE InspectRefuses(r) \/ ClaimRefuses(r) \/ MakeDataFails(r) \/ VerifyRefuses(r)
             \/ BucketRefuses(r)
    BY <2>2 DEF InspectRefuses, ClaimRefuses, MakeDataFails, VerifyRefuses, BucketRefuses, Refuse
  <2>3. CASE ClaimRoot(r) \/ MakeData(r) \/ WriteMarker(r) \/ WriteRecord(r)
    BY <2>3 DEF ClaimRoot, MakeData, WriteMarker, WriteRecord
  <2>4. CASE SyncRecord(r) \/ SyncParent(r) \/ Verify(r) \/ StartContainer(r)
    BY <2>4 DEF SyncRecord, SyncParent, Verify, StartContainer
  <2>5. CASE \/ FindBucket(r) \/ MakeBucket(r) \/ MakeBucketUnanswered(r)
             \/ Commit(r) \/ SyncCommit(r) \/ Ready(r)
    BY <2>5 DEF FindBucket, MakeBucket, MakeBucketUnanswered, Commit, SyncCommit, Ready
  <2> QED BY <1>1, <2>1, <2>2, <2>3, <2>4, <2>5 DEF InitStep
<1>2. ASSUME NEW r \in Runs, FailStep(r) PROVE OneProvisioner'
  BY <1>2 DEF FailStep, PreflightFails, StartFails, GatewayFails, ConnectionFails, Rollback, Refuse
<1>3. ASSUME NEW r \in Runs, Destroy(r) \/ Store(r) \/ Crash(r) \/ Restart(r)
      PROVE  OneProvisioner'
  BY <1>3 DEF Destroy, Store, Crash, Restart
<1>4. CASE PowerLoss
  BY <1>4 DEF PowerLoss
<1>5. ASSUME NEW o \in Owners, Lose(o) PROVE OneProvisioner'
  BY <1>5 DEF Lose
<1>6. CASE UNCHANGED vars
  BY <1>6 DEF vars
<1> QED BY <1>1, <1>2, <1>3, <1>4, <1>5, <1>6 DEF Next

-----------------------------------------------------------------------------
(* Nothing replaces a store with objects in it                                *)

\* Objects were stored, or may be at any moment.
InUse(o) == written[o] # 0 \/ \E r \in Runs : OwnerOf[r] = o /\ pc[r] = "ready"

Committed(o) == disk[o].record # None => disk[o].record.phase = "committed"

\* Nothing was lost yet and the store is whole, or one part was and another is left.
Whole(o) == /\ lost = 0 => disk[o].record # None /\ disk[o].data
            /\ disk[o].record # None \/ disk[o].data

HasBucket(o) == lost = 0 => bucket[o] # 0

\* A store in use is committed, and no run is at a step that could initialize it.
Kept(o) ==
  InUse(o) =>
    /\ Committed(o) /\ Whole(o) /\ HasBucket(o)
    /\ \A r \in Runs : OwnerOf[r] = o =>
         /\ pc[r] \notin {"claimed", "data", "marked"}
         /\ pc[r] \in {"verified", "started"} => ~newStore[r]

\* What a run has established of its store when it is at each step.
Progress(r) ==
  LET o == OwnerOf[r]
  IN  /\ pc[r] = "verified" /\ lost = 0 => Whole(o)
      /\ pc[r] \in {"started", "bucketed", "committed", "provisioned"} => Whole(o)
      /\ pc[r] \in {"bucketed", "committed", "provisioned"} => HasBucket(o)
      /\ pc[r] \in {"committed", "provisioned"} => Committed(o)

CustodyInv ==
  /\ TypeOK
  /\ OneProvisioner
  /\ NeverReplaced
  /\ \A o \in Owners : Kept(o)
  /\ \A r \in Runs : Progress(r)

LEMMA CustodyInvInit == Init => CustodyInv
<1> SUFFICES ASSUME Init PROVE CustodyInv
  OBVIOUS
<1>1. \A o \in Owners : Kept(o)
  BY DEF Init, Kept, InUse
<1>2. \A r \in Runs : Progress(r)
  BY DEF Init, Progress
<1>3. NeverReplaced
  BY DEF Init, NeverReplaced
<1> QED BY <1>1, <1>2, <1>3, CustodyInit, LockInit DEF CustodyInv

StoreInv ==
  NeverReplaced /\ (\A o \in Owners : Kept(o)) /\ (\A r \in Runs : Progress(r))

Sensitive == {"claimed", "data", "marked", "verified", "started", "bucketed", "committed",
              "provisioned", "ready"}

\* A step that leaves the stores alone, and takes no run to a step at which
\* something is known of its store, keeps what is known.
LEMMA Quiet ==
  ASSUME CustodyInv, UNCHANGED <<disk, bucket, written, lost>>,
         \A r \in Runs : \/ pc'[r] = pc[r] /\ newStore'[r] = newStore[r]
                        \/ pc'[r] \notin Sensitive
  PROVE  StoreInv'
<1>1. NeverReplaced'
  BY DEF CustodyInv, NeverReplaced
<1>2. ASSUME NEW o \in Owners PROVE Kept(o)'
  <2>1. InUse(o)' => InUse(o)
    BY DEF InUse, Sensitive
  <2> QED BY <2>1 DEF CustodyInv, Kept, Committed, Whole, HasBucket, Sensitive
<1>3. ASSUME NEW r \in Runs PROVE Progress(r)'
  <2>1. Progress(r)
    BY DEF CustodyInv
  <2> QED BY <2>1 DEF Progress, Committed, Whole, HasBucket, Sensitive
<1> QED BY <1>1, <1>2, <1>3 DEF StoreInv

LEMMA QuietInit ==
  ASSUME CustodyInv, NEW r \in Runs,
         \/ Acquire(r) \/ LockTimeout(r) \/ Inspect(r) \/ InspectRefuses(r) \/ FindRecord(r)
         \/ ClaimRefuses(r) \/ MakeDataFails(r) \/ SyncRecord(r) \/ SyncParent(r)
         \/ VerifyRefuses(r) \/ BucketRefuses(r)
  PROVE  StoreInv'
<1>1. UNCHANGED <<disk, bucket, written, lost, newStore>>
  BY DEF Acquire, LockTimeout, Inspect, InspectRefuses, FindRecord, ClaimRefuses, MakeDataFails,
         SyncRecord, SyncParent, VerifyRefuses, BucketRefuses, Refuse, diskVars, ghostVars
<1>2. \A s \in Runs : pc'[s] = pc[s] \/ pc'[s] \notin Sensitive
  BY DEF Acquire, LockTimeout, Inspect, InspectRefuses, FindRecord, ClaimRefuses, MakeDataFails,
         SyncRecord, SyncParent, VerifyRefuses, BucketRefuses, Refuse, Goto, Sensitive,
         CustodyInv, TypeOK
<1> QED BY <1>1, <1>2, Quiet

LEMMA QuietRun ==
  ASSUME CustodyInv, NEW r \in Runs, FailStep(r) \/ Destroy(r) \/ Crash(r) \/ Restart(r)
  PROVE  StoreInv'
<1>1. UNCHANGED <<disk, bucket, written, lost>>
  BY DEF FailStep, PreflightFails, StartFails, GatewayFails, ConnectionFails, Rollback, Refuse,
         Destroy, Crash, Restart, diskVars, ghostVars
<1>2. \A s \in Runs : \/ pc'[s] = pc[s] /\ newStore'[s] = newStore[s]
                     \/ pc'[s] \notin Sensitive
  BY DEF FailStep, PreflightFails, StartFails, GatewayFails, ConnectionFails, Rollback, Refuse,
         Destroy, Crash, Restart, Goto, Sensitive, CustodyInv, TypeOK
<1> QED BY <1>1, <1>2, Quiet

\* A run at a step under the lock is the only one there.
LEMMA Alone ==
  ASSUME OneProvisioner, NEW r \in Runs, pc[r] \in Critical, NEW s \in Runs, s # r
  PROVE  pc[s] \notin Critical
BY DEF OneProvisioner

\* What is left to show of a step that a run takes under the lock: only its own
\* store and its own progress can change.
LEMMA Local ==
  ASSUME CustodyInv, NEW r \in Runs, NEW o \in Owners, OwnerOf[r] = o, pc[r] \in Critical,
         lost' = lost,
         \A s \in Runs \ {r} : pc'[s] = pc[s] /\ newStore'[s] = newStore[s],
         \A p \in Owners \ {o} : /\ disk'[p] = disk[p] /\ bucket'[p] = bucket[p]
                                 /\ written'[p] = written[p],
         written'[o] # 0 => bucket'[o] \in {0, written'[o]},
         InUse(o)' => /\ Committed(o)' /\ Whole(o)' /\ HasBucket(o)'
                      /\ pc'[r] \notin {"claimed", "data", "marked"}
                      /\ pc'[r] \in {"verified", "started"} => ~newStore'[r],
         Progress(r)'
  PROVE  StoreInv'
<1>1. \A s \in Runs \ {r} : pc[s] \notin Critical /\ pc'[s] \notin Critical
  BY Alone DEF CustodyInv
<1>2. NeverReplaced'
  BY DEF CustodyInv, NeverReplaced
<1>3. ASSUME NEW p \in Owners PROVE Kept(p)'
  <2>1. CASE p = o
    BY <1>1, <2>1 DEF Kept, Critical, Preflight
  <2>2. CASE p # o
    <3>1. InUse(p)' => InUse(p)
      BY <2>2 DEF InUse
    <3>2. \A s \in Runs : OwnerOf[s] = p => pc'[s] = pc[s] /\ newStore'[s] = newStore[s]
      BY <2>2
    <3> QED BY <2>2, <3>1, <3>2 DEF CustodyInv, Kept, Committed, Whole, HasBucket
  <2> QED BY <2>1, <2>2
<1>4. ASSUME NEW s \in Runs PROVE Progress(s)'
  BY <1>1, <1>4 DEF Progress, Critical
<1> QED BY <1>2, <1>3, <1>4 DEF StoreInv

\* The steps that may take custody of nothing: the store is not in use.
LEMMA Bootstrap ==
  ASSUME CustodyInv, NEW r \in Runs,
         ClaimRoot(r) \/ MakeData(r) \/ WriteMarker(r) \/ WriteRecord(r)
  PROVE  StoreInv'
<1> DEFINE o == OwnerOf[r]
<1>1. o \in Owners
  BY CustodyAssumption
<1>2. pc[r] \in {"inspected", "claimed", "data", "marked"} /\ pc[r] \in Critical
  BY DEF ClaimRoot, MakeData, WriteMarker, WriteRecord, Critical, Preflight
<1>3. ~InUse(o)
  <2>1. Kept(o)
    BY <1>1 DEF CustodyInv
  <2>2. CASE ClaimRoot(r)
    BY <2>1, <2>2 DEF ClaimRoot, Empty, Mine, Kept, Whole
  <2>3. CASE pc[r] \in {"claimed", "data", "marked"}
    BY <2>1, <2>3 DEF Kept
  <2> QED BY <2>2, <2>3 DEF MakeData, WriteMarker, WriteRecord
<1>4. /\ pc' = [pc EXCEPT ![r] = pc'[r]]
      /\ pc'[r] \in {"claimed", "data", "marked", "recorded"}
  BY DEF ClaimRoot, MakeData, WriteMarker, WriteRecord, Goto, CustodyInv, TypeOK
<1>5. /\ UNCHANGED <<newStore, bucket, written, lost>>
      /\ \A p \in Owners \ {o} : disk'[p] = disk[p]
  BY DEF ClaimRoot, MakeData, WriteMarker, WriteRecord, ghostVars, CustodyInv, TypeOK
<1>6. \A s \in Runs \ {r} : pc'[s] = pc[s]
  BY <1>4 DEF CustodyInv, TypeOK
<1>7. ~InUse(o)'
  BY <1>3, <1>4, <1>5, <1>6 DEF InUse
<1>8. written'[o] # 0 => bucket'[o] \in {0, written'[o]}
  BY <1>7 DEF InUse
<1>9. Progress(r)'
  BY <1>4 DEF Progress
<1> QED BY <1>1, <1>2, <1>5, <1>6, <1>7, <1>8, <1>9, Local

\* A record that exists survives in the commit, and says so.
LEMMA Provision ==
  ASSUME CustodyInv, NEW r \in Runs,
         \/ Verify(r) \/ StartContainer(r) \/ FindBucket(r) \/ MakeBucket(r)
         \/ MakeBucketUnanswered(r) \/ Commit(r) \/ SyncCommit(r)
  PROVE  StoreInv'
<1> DEFINE o == OwnerOf[r]
<1> USE DEF CustodyInv
<1>1. o \in Owners /\ Kept(o) /\ Progress(r)
  BY CustodyAssumption
<1>2. pc[r] \in {"synced", "verified", "started", "bucketed", "committed"} /\ pc[r] \in Critical
  BY DEF Verify, StartContainer, FindBucket, MakeBucket, MakeBucketUnanswered, Commit, SyncCommit, Critical, Preflight
<1>3. /\ pc' = [pc EXCEPT ![r] = pc'[r]]
      /\ pc'[r] \in {"verified", "started", "bucketed", "committed", "provisioned"}
  BY DEF Verify, StartContainer, FindBucket, MakeBucket, MakeBucketUnanswered, Commit, SyncCommit, Goto, TypeOK
<1>4. \A s \in Runs \ {r} : pc'[s] = pc[s] /\ newStore'[s] = newStore[s]
  BY <1>3 DEF Verify, StartContainer, FindBucket, MakeBucket, MakeBucketUnanswered, Commit, SyncCommit, TypeOK
<1>5. UNCHANGED <<written, lost>>
  BY DEF Verify, StartContainer, FindBucket, MakeBucket, MakeBucketUnanswered, Commit, SyncCommit, ghostVars
<1>6. \A p \in Owners \ {o} : disk'[p] = disk[p] /\ bucket'[p] = bucket[p]
  BY DEF Verify, StartContainer, FindBucket, MakeBucket, MakeBucketUnanswered, Commit, SyncCommit, diskVars, TypeOK
<1>7. InUse(o)' => InUse(o)
  BY <1>3, <1>4, <1>5 DEF InUse
<1> DEFINE Safe == /\ written'[o] # 0 => bucket'[o] \in {0, written'[o]}
                   /\ InUse(o)' => /\ Committed(o)' /\ Whole(o)' /\ HasBucket(o)'
                                   /\ pc'[r] \in {"verified", "started"} => ~newStore'[r]
                   /\ Progress(r)'
<1>8. CASE Verify(r)
  <2>1. UNCHANGED <<disk, bucket>> /\ pc'[r] = "verified" /\ disk[o].record # None /\ disk[o].data
    BY <1>8 DEF Verify, Agrees, Marked, Mine, Goto, TypeOK, diskVars
  <2>2. newStore'[r] = (disk[o].record.phase = "pending")
    BY <1>8 DEF Verify, Mine, TypeOK
  <2>3. Whole(o)' /\ Progress(r)'
    BY <1>5, <2>1 DEF Whole, Progress
  <2>4. InUse(o) => Committed(o)' /\ HasBucket(o)' /\ ~newStore'[r]
    BY <1>1, <1>5, <2>1, <2>2 DEF Kept, Committed, HasBucket
  <2>5. Safe
    BY <1>1, <1>5, <1>7, <2>1, <2>3, <2>4 DEF NeverReplaced
  <2> QED BY <1>1, <1>2, <1>3, <1>4, <1>5, <1>6, <2>5, Local
<1>9. CASE StartContainer(r)
  <2>1. /\ UNCHANGED <<bucket, newStore>> /\ pc[r] = "verified" /\ pc'[r] = "started"
        /\ disk' = [disk EXCEPT ![o].data = TRUE]
    BY <1>9 DEF StartContainer, Goto, TypeOK
  <2>2. disk[o] \in Directory
    BY <1>1 DEF TypeOK
  <2>3. disk'[o].record = disk[o].record /\ disk'[o].data
    BY <1>1, <2>1, <2>2 DEF TypeOK, Directory
  <2>4. Whole(o)' /\ Progress(r)'
    BY <1>1, <1>5, <2>1, <2>3 DEF Whole, Progress
  <2>5. InUse(o) => Committed(o)' /\ HasBucket(o)' /\ ~newStore'[r]
    BY <1>1, <1>5, <2>1, <2>3 DEF Kept, Committed, HasBucket
  <2>6. Safe
    BY <1>1, <1>5, <1>7, <2>1, <2>4, <2>5 DEF NeverReplaced
  <2> QED BY <1>1, <1>2, <1>3, <1>4, <1>5, <1>6, <2>6, Local
<1>10. CASE FindBucket(r) \/ MakeBucket(r)
  <2>1. UNCHANGED <<disk, newStore>> /\ pc[r] = "started" /\ pc'[r] = "bucketed" /\ bucket'[o] # 0
    BY <1>1, <1>10 DEF FindBucket, MakeBucket, Goto, TypeOK, diskVars
  <2>2. Whole(o)' /\ HasBucket(o)' /\ Progress(r)'
    BY <1>1, <1>5, <2>1 DEF Whole, HasBucket, Progress
  <2>3. MakeBucket(r) => ~InUse(o)
    BY <1>1, <2>1 DEF MakeBucket, Kept
  <2>4. written'[o] # 0 => bucket'[o] \in {0, written'[o]}
    BY <1>1, <1>5, <1>10, <2>3 DEF InUse, FindBucket, NeverReplaced, diskVars
  <2>5. Safe
    BY <1>1, <1>5, <1>7, <2>1, <2>2, <2>4 DEF Kept, Committed
  <2> QED BY <1>1, <1>2, <1>3, <1>4, <1>5, <1>6, <2>5, Local
<1>11. CASE Commit(r)
  <2>1. /\ UNCHANGED <<bucket, newStore>> /\ pc[r] = "bucketed" /\ pc'[r] = "committed"
        /\ disk' = [disk EXCEPT ![o].record.phase = "committed"]
        /\ disk[o].record # None
    BY <1>11 DEF Commit, Goto, TypeOK, Mine
  <2>2. disk[o] \in Directory /\ disk[o].record \in Record
    BY <1>1, <2>1 DEF TypeOK, Directory
  <2>3. /\ disk'[o].record = [disk[o].record EXCEPT !.phase = "committed"]
        /\ disk'[o].data = disk[o].data
    BY <1>1, <2>1, <2>2 DEF TypeOK, Directory
  <2>4. disk'[o].record \in Record /\ disk'[o].record.phase = "committed"
    BY <2>2, <2>3 DEF Record
  <2>5. disk'[o].record # None /\ Committed(o)'
    BY <2>4, CustodyAssumption DEF Committed
  <2>6. Whole(o)' /\ HasBucket(o)' /\ Progress(r)'
    BY <1>1, <1>5, <2>1, <2>3, <2>5 DEF Whole, HasBucket, Progress
  <2>7. Safe
    BY <1>1, <1>5, <2>1, <2>5, <2>6 DEF NeverReplaced
  <2> QED BY <1>1, <1>2, <1>3, <1>4, <1>5, <1>6, <2>7, Local
<1>12. CASE SyncCommit(r)
  <2>1. UNCHANGED <<disk, bucket>> /\ pc[r] = "committed" /\ pc'[r] = "provisioned"
    BY <1>12 DEF SyncCommit, Goto, TypeOK
  <2>2. Committed(o)' /\ Whole(o)' /\ HasBucket(o)' /\ Progress(r)'
    BY <1>1, <1>5, <2>1 DEF Committed, Whole, HasBucket, Progress
  <2>3. Safe
    BY <1>1, <1>5, <2>1, <2>2 DEF NeverReplaced
  <2> QED BY <1>1, <1>2, <1>3, <1>4, <1>5, <1>6, <2>3, Local
<1>13. CASE MakeBucketUnanswered(r)
  <2>1. /\ UNCHANGED <<disk, newStore>> /\ pc[r] = "started" /\ pc'[r] = "started"
        /\ newStore[r]
    BY <1>13 DEF MakeBucketUnanswered
  <2>2. ~InUse(o) /\ ~InUse(o)'
    BY <1>1, <1>7, <2>1 DEF Kept
  <2>3. Progress(r)'
    BY <1>1, <1>5, <2>1 DEF Progress, Whole
  <2>4. Safe
    BY <1>5, <2>2, <2>3 DEF InUse
  <2> QED BY <1>1, <1>2, <1>3, <1>4, <1>5, <1>6, <2>4, Local
<1> QED BY <1>8, <1>9, <1>10, <1>11, <1>12, <1>13

\* Init returns: the store is in use from here on.
LEMMA Hand ==
  ASSUME CustodyInv, NEW r \in Runs, Ready(r)
  PROVE  StoreInv'
<1> DEFINE o == OwnerOf[r]
<1>1. o \in Owners /\ Progress(r)
  BY CustodyAssumption DEF CustodyInv
<1>2. /\ UNCHANGED <<disk, bucket, newStore, written, lost>>
      /\ pc[r] = "provisioned" /\ pc'[r] = "ready"
      /\ \A s \in Runs \ {r} : pc'[s] = pc[s]
  BY DEF Ready, Goto, diskVars, ghostVars, CustodyInv, TypeOK
<1>3. Committed(o)' /\ Whole(o)' /\ HasBucket(o)' /\ Progress(r)'
  BY <1>1, <1>2 DEF Committed, Whole, HasBucket, Progress
<1>4. written'[o] # 0 => bucket'[o] \in {0, written'[o]}
  BY <1>1, <1>2 DEF CustodyInv, NeverReplaced
<1>5. pc[r] \in Critical
  BY <1>2 DEF Critical
<1> QED BY <1>1, <1>2, <1>3, <1>4, <1>5, Local

\* Objects are stored only in the bucket of a run that is ready.
LEMMA Stored ==
  ASSUME CustodyInv, NEW r \in Runs, Store(r)
  PROVE  StoreInv'
<1> DEFINE o == OwnerOf[r]
<1>1. o \in Owners /\ InUse(o)
  BY CustodyAssumption DEF Store, InUse
<1>2. /\ UNCHANGED <<pc, newStore, disk, bucket, lost>>
      /\ written' = [written EXCEPT ![o] = bucket[o]]
  BY DEF Store, diskVars
<1>3. NeverReplaced'
  BY <1>1, <1>2 DEF CustodyInv, NeverReplaced, TypeOK
<1>4. ASSUME NEW p \in Owners PROVE Kept(p)'
  <2>1. InUse(p)' => InUse(p)
    BY <1>1, <1>2 DEF InUse, CustodyInv, TypeOK
  <2> QED BY <1>2, <2>1 DEF CustodyInv, Kept, Committed, Whole, HasBucket
<1>5. ASSUME NEW s \in Runs PROVE Progress(s)'
  <2>1. Progress(s)
    BY DEF CustodyInv
  <2> QED BY <1>2, <2>1 DEF Progress, Committed, Whole, HasBucket
<1> QED BY <1>3, <1>4, <1>5 DEF StoreInv

\* Lose takes the record or the data of a store, never both, and makes neither.
LEMMA LoseShape ==
  ASSUME TypeOK, NEW o \in Owners, Lose(o)
  PROVE  \A p \in Owners : /\ disk'[p].record \in {None, disk[p].record}
                           /\ disk'[p].record = disk[p].record \/ disk'[p].data = disk[p].data
<1>1. disk[o] \in Directory
  BY DEF TypeOK
<1>2. PICK d \in {disk[o], [disk[o] EXCEPT !.record = None],
                  [disk[o] EXCEPT !.data = FALSE, !.marker = None],
                  [disk[o] EXCEPT !.data = TRUE, !.marker = Foreign]} :
        disk' = [disk EXCEPT ![o] = d]
  <2>1. disk = [disk EXCEPT ![o] = disk[o]]
    BY DEF TypeOK
  <2> QED BY <2>1, Zenon DEF Lose
<1>3. /\ d.record \in {None, disk[o].record}
      /\ d.record = disk[o].record \/ d.data = disk[o].data
  BY <1>1, <1>2 DEF Directory
<1> QED BY <1>2, <1>3 DEF TypeOK

\* One loss leaves the record or the data, and with either of them no run starts
\* over.
LEMMA Lost ==
  ASSUME CustodyInv, Losses <= 1, NEW o \in Owners, Lose(o)
  PROVE  StoreInv'
<1>1. lost = 0 /\ lost' = 1
  <2>1. lost < Losses /\ lost' = lost + 1
    BY Zenon DEF Lose
  <2>2. lost \in 0..Losses
    BY DEF CustodyInv, TypeOK
  <2> HIDE DEF Lose
  <2> QED BY <2>1, <2>2, CustodyAssumption
<1>2. UNCHANGED <<pc, newStore, written>>
  BY DEF Lose
<1>3. \A p \in Owners : bucket'[p] \in {0, bucket[p]}
  BY DEF Lose, CustodyInv, TypeOK
<1>4. \A p \in Owners : /\ disk'[p].record \in {None, disk[p].record}
                        /\ disk'[p].record = disk[p].record \/ disk'[p].data = disk[p].data
  BY LoseShape DEF CustodyInv
<1>5. ASSUME NEW p \in Owners, lost = 0 => disk[p].record # None /\ disk[p].data
      PROVE  Whole(p)'
  BY <1>1, <1>4, <1>5 DEF Whole
<1>6. NeverReplaced'
  BY <1>2, <1>3 DEF CustodyInv, NeverReplaced
<1>7. ASSUME NEW p \in Owners PROVE Kept(p)'
  <2>1. InUse(p)' => InUse(p)
    BY <1>2 DEF InUse
  <2>2. Committed(p) => Committed(p)'
    BY <1>4 DEF Committed
  <2> QED BY <1>1, <1>2, <1>5, <2>1, <2>2 DEF CustodyInv, Kept, Whole, HasBucket
<1>8. ASSUME NEW r \in Runs PROVE Progress(r)'
  <2>1. Progress(r) /\ OwnerOf[r] \in Owners
    BY CustodyAssumption DEF CustodyInv
  <2>2. Committed(OwnerOf[r]) => Committed(OwnerOf[r])'
    BY <1>4, <2>1 DEF Committed
  <2> QED BY <1>1, <1>2, <1>5, <2>1, <2>2 DEF Progress, Whole, HasBucket
<1> QED BY <1>6, <1>7, <1>8 DEF StoreInv

LEMMA CustodyNext ==
  ASSUME "power" \notin Faults, Losses <= 1, CustodyInv, [Next]_vars
  PROVE  CustodyInv'
<1>1. TypeOK' /\ OneProvisioner'
  BY CustodyTyped, LockKept DEF CustodyInv
<1>2. ASSUME NEW r \in Runs, InitStep(r) PROVE StoreInv'
  BY <1>2, QuietInit, Bootstrap, Provision, Hand DEF InitStep
<1>3. ASSUME NEW r \in Runs, FailStep(r) \/ Destroy(r) \/ Store(r) \/ Crash(r) \/ Restart(r)
      PROVE  StoreInv'
  BY <1>3, QuietRun, Stored
<1>4. ~PowerLoss
  BY DEF PowerLoss
<1>5. ASSUME UNCHANGED vars PROVE StoreInv'
  BY <1>5, Quiet DEF vars
<1>6. StoreInv'
  BY <1>2, <1>3, <1>4, <1>5, Lost DEF Next
<1> QED BY <1>1, <1>6 DEF CustodyInv, StoreInv

-----------------------------------------------------------------------------
(* Whose container a run may replace                                          *)

\* From the look at the container to the start of its own, a run may count on
\* what it saw.
Looked == {"inspected", "claimed", "data", "marked", "recorded", "durable", "synced", "verified"}

MountKnown(r) == pc[r] \in Looked /\ container # None => container.mount = OwnerOf[r]

MountInv == TypeOK /\ OneProvisioner /\ \A r \in Runs : MountKnown(r)

\* The container is as it was, except whose process it is.
SameContainer ==
  /\ container # None
  /\ container'.mount = container.mount
  /\ container'.by \in {container.by, Nobody}

\* A container appears only in StartContainer: every other step keeps the store it
\* mounts, or removes it.
LEMMA ContainerStep ==
  ASSUME TypeOK, [Next]_vars, container' # None
  PROVE  SameContainer \/ \E r \in Runs : StartContainer(r)
<1> USE DEF SameContainer
<1>1. ASSUME NEW r \in Runs, InitStep(r) PROVE UNCHANGED container \/ StartContainer(r)
  BY <1>1 DEF InitStep, Acquire, LockTimeout, Inspect, InspectRefuses, FindRecord, ClaimRoot,
              ClaimRefuses, MakeData, MakeDataFails, WriteMarker, WriteRecord, SyncRecord,
              SyncParent, Verify, VerifyRefuses, FindBucket, MakeBucket, MakeBucketUnanswered,
              BucketRefuses, Commit, SyncCommit, Ready, Refuse
<1>2. ASSUME NEW r \in Runs, FailStep(r) \/ Destroy(r) PROVE UNCHANGED container
  BY <1>2 DEF FailStep, PreflightFails, StartFails, GatewayFails, ConnectionFails, Rollback,
              Refuse, Destroy, ShutMinIO
<1>3. ASSUME NEW r \in Runs, Store(r) \/ Restart(r) PROVE UNCHANGED container
  BY <1>3 DEF Store, Restart
<1>4. ASSUME NEW r \in Runs, Crash(r) PROVE SameContainer
  BY <1>4 DEF Crash, IsMine, TypeOK, Container
<1>5. ASSUME PowerLoss PROVE SameContainer
  BY <1>5 DEF PowerLoss, TypeOK, Container
<1>6. ASSUME NEW o \in Owners, Lose(o) PROVE UNCHANGED container
  BY <1>6 DEF Lose
<1> QED BY <1>1, <1>2, <1>3, <1>4, <1>5, <1>6 DEF Next, vars

\* A run gets to these steps only by looking at the container.
LEMMA LooksFirst ==
  ASSUME TypeOK, [Next]_vars, NEW r \in Runs, pc'[r] \in Looked
  PROVE  pc[r] \in Looked \/ Inspect(r)
<1> USE DEF Looked, TypeOK, Goto
<1>1. ASSUME NEW s \in Runs, InitStep(s) PROVE pc[r] \in Looked \/ Inspect(r)
  <2>1. CASE s = r
    BY <1>1, <2>1 DEF InitStep, Acquire, LockTimeout, InspectRefuses, FindRecord,
           ClaimRoot, ClaimRefuses, MakeData, MakeDataFails, WriteMarker, WriteRecord, SyncRecord,
           SyncParent, Verify, VerifyRefuses, StartContainer, FindBucket, MakeBucket,
           MakeBucketUnanswered, BucketRefuses, Commit, SyncCommit, Ready, Refuse
  <2>2. CASE s # r
    BY <1>1, <2>2 DEF InitStep, Acquire, LockTimeout, Inspect, InspectRefuses, FindRecord,
           ClaimRoot, ClaimRefuses, MakeData, MakeDataFails, WriteMarker, WriteRecord, SyncRecord,
           SyncParent, Verify, VerifyRefuses, StartContainer, FindBucket, MakeBucket,
           MakeBucketUnanswered, BucketRefuses, Commit, SyncCommit, Ready, Refuse
  <2> QED BY <2>1, <2>2
<1>2. ASSUME NEW s \in Runs, FailStep(s) PROVE pc[r] \in Looked
  BY <1>2 DEF FailStep, PreflightFails, StartFails, GatewayFails, ConnectionFails, Rollback, Refuse
<1>3. ASSUME NEW s \in Runs, Destroy(s) \/ Store(s) \/ Crash(s) \/ Restart(s)
      PROVE  pc[r] \in Looked
  BY <1>3 DEF Destroy, Store, Crash, Restart
<1>4. ASSUME PowerLoss PROVE pc[r] \in Looked
  BY <1>4 DEF PowerLoss
<1>5. ASSUME NEW o \in Owners, Lose(o) PROVE pc[r] \in Looked
  BY <1>5 DEF Lose
<1> QED BY <1>1, <1>2, <1>3, <1>4, <1>5 DEF Next, vars

LEMMA MountKept == MountInv /\ [Next]_vars => MountInv'
<1> SUFFICES ASSUME MountInv, [Next]_vars PROVE MountInv'
  OBVIOUS
<1>1. TypeOK' /\ OneProvisioner'
  BY CustodyTyped, LockKept DEF MountInv
<1>2. ASSUME NEW r \in Runs, pc'[r] \in Looked, container' # None
      PROVE  container'.mount = OwnerOf[r]
  <2>1. ~ \E s \in Runs : StartContainer(s)
    <3> SUFFICES ASSUME NEW s \in Runs, StartContainer(s) PROVE FALSE
      OBVIOUS
    <3>1. pc[s] = "verified" /\ pc' = [pc EXCEPT ![s] = "started"]
      BY DEF StartContainer, Goto
    <3>2. s # r /\ pc[r] \in Looked
      BY <1>2, <3>1 DEF MountInv, TypeOK, Looked
    <3> QED BY <3>1, <3>2, Alone DEF MountInv, Looked, Critical, Preflight
  <2>2. SameContainer
    BY <1>2, <2>1, ContainerStep DEF MountInv
  <2>3. pc[r] \in Looked \/ Inspect(r)
    BY <1>2, LooksFirst DEF MountInv
  <2> QED BY <2>2, <2>3 DEF MountInv, MountKnown, SameContainer, Inspect, MayInspect
<1> QED BY <1>1, <1>2 DEF MountInv, MountKnown

LEMMA MountInit == Init => MountInv
BY CustodyInit, LockInit DEF MountInv, MountKnown, Init, Looked

-----------------------------------------------------------------------------
(* What custody is taken of                                                   *)

Starting == {"claimed", "data", "marked"}

\* A bucket is in a directory with something in it, so a run that found nothing
\* there found no bucket.
Housed(o) == bucket[o] # 0 => Whole(o)

NothingThere(r) == pc[r] \in Starting => bucket[OwnerOf[r]] = 0

FoundInv ==
  CustodyInv /\ (\A o \in Owners : Housed(o)) /\ (\A r \in Runs : NothingThere(r))

\* A bucket appears only in a store whose directory is there: its run started the
\* container on it.
LEMMA BucketStep ==
  ASSUME CustodyInv, "power" \notin Faults, [Next]_vars, NEW o \in Owners, bucket'[o] # 0
  PROVE  \/ bucket[o] = bucket'[o]
         \/ /\ Whole(o) /\ UNCHANGED <<disk, lost>>
            /\ \E r \in Runs : OwnerOf[r] = o /\ pc[r] = "started" /\ pc'[r] \in {"started", "bucketed"}
<1> USE DEF CustodyInv, TypeOK, diskVars, ghostVars
<1>1. ASSUME NEW r \in Runs, InitStep(r)
      PROVE  UNCHANGED bucket \/ MakeBucket(r) \/ MakeBucketUnanswered(r)
  BY <1>1 DEF InitStep, Acquire, LockTimeout, Inspect, InspectRefuses, FindRecord, ClaimRoot,
              ClaimRefuses, MakeData, MakeDataFails, WriteMarker, WriteRecord, SyncRecord,
              SyncParent, Verify, VerifyRefuses, StartContainer, FindBucket, BucketRefuses,
              Commit, SyncCommit, Ready, Refuse
<1>2. ASSUME NEW r \in Runs, FailStep(r) \/ Destroy(r) \/ Store(r) \/ Crash(r) \/ Restart(r)
      PROVE  UNCHANGED bucket
  BY <1>2 DEF FailStep, PreflightFails, StartFails, GatewayFails, ConnectionFails, Rollback,
              Refuse, Destroy, Store, Crash, Restart
<1>3. ASSUME NEW p \in Owners, Lose(p) PROVE bucket[o] = bucket'[o]
  BY <1>3 DEF Lose
<1>4. ASSUME NEW r \in Runs, MakeBucket(r) \/ MakeBucketUnanswered(r), bucket'[o] # bucket[o]
      PROVE  /\ OwnerOf[r] = o /\ pc[r] = "started" /\ pc'[r] \in {"started", "bucketed"}
             /\ Whole(o) /\ UNCHANGED <<disk, lost>>
  <2>1. OwnerOf[r] = o /\ pc[r] = "started"
    BY <1>4, CustodyAssumption DEF MakeBucket, MakeBucketUnanswered
  <2>2. pc'[r] \in {"started", "bucketed"} /\ UNCHANGED <<disk, lost>>
    BY <1>4, <2>1 DEF MakeBucket, MakeBucketUnanswered, Goto
  <2> QED BY <2>1, <2>2 DEF Progress
<1> QED BY <1>1, <1>2, <1>3, <1>4 DEF Next, PowerLoss, vars

\* What is in a directory stays in it, or is the one part of a store that is lost.
LEMMA WholeKept ==
  ASSUME CustodyInv, "power" \notin Faults, Losses <= 1, [Next]_vars, NEW o \in Owners, Whole(o)
  PROVE  Whole(o)'
<1> USE DEF CustodyInv, TypeOK, diskVars, ghostVars
<1>1. disk[o] \in Directory
  OBVIOUS
<1>2. ASSUME NEW p \in Owners, Lose(p) PROVE Whole(o)'
  <2>1. lost = 0 /\ lost' = 1
    <3>1. lost < Losses /\ lost' = lost + 1
      BY <1>2, Zenon DEF Lose
    <3>2. lost \in 0..Losses
      OBVIOUS
    <3> HIDE <1>2
    <3> QED BY <3>1, <3>2, CustodyAssumption
  <2>2. disk[o].record # None /\ disk[o].data
    BY <2>1 DEF Whole
  <2>3. disk'[o].record # None \/ disk'[o].data
    BY <1>2, <2>2, LoseShape
  <2> QED BY <2>1, <2>3 DEF Whole
<1>3. ASSUME UNCHANGED <<disk, lost>> PROVE Whole(o)'
  BY <1>3 DEF Whole
<1>4. ASSUME NEW r \in Runs, FailStep(r) \/ Destroy(r) \/ Store(r) \/ Crash(r) \/ Restart(r)
      PROVE  UNCHANGED <<disk, lost>>
  BY <1>4 DEF FailStep, PreflightFails, StartFails, GatewayFails, ConnectionFails, Rollback,
              Refuse, Destroy, Store, Crash, Restart
<1>5. ASSUME NEW r \in Runs, InitStep(r)
      PROVE  \/ UNCHANGED <<disk, lost>>
             \/ ClaimRoot(r) \/ MakeData(r) \/ WriteMarker(r) \/ WriteRecord(r)
             \/ StartContainer(r) \/ Commit(r)
  BY <1>5 DEF InitStep, Acquire, LockTimeout, Inspect, InspectRefuses, FindRecord,
              ClaimRefuses, MakeDataFails, SyncRecord, SyncParent, Verify, VerifyRefuses,
              FindBucket, MakeBucket, MakeBucketUnanswered, BucketRefuses, SyncCommit, Ready, Refuse
<1>6. ASSUME NEW r \in Runs, ClaimRoot(r) \/ MakeData(r) \/ WriteMarker(r) \/ StartContainer(r)
      PROVE  Whole(o)'
  <2>1. lost' = lost /\ disk'[o].record = disk[o].record
    BY <1>1, <1>6 DEF ClaimRoot, MakeData, WriteMarker, StartContainer, Directory
  <2>2. disk[o].data => disk'[o].data
    BY <1>1, <1>6 DEF ClaimRoot, MakeData, WriteMarker, StartContainer, Directory
  <2> QED BY <2>1, <2>2 DEF Whole
<1>7. ASSUME NEW r \in Runs, WriteRecord(r) \/ Commit(r)
      PROVE  Whole(o)'
  <2>1. lost' = lost /\ disk'[o].data = disk[o].data
    BY <1>1, <1>7 DEF WriteRecord, Commit, Directory
  <2>2. disk[o].record # None => disk'[o].record # None
    <3>1. Fresh(r, made) \in Record
      BY DEF Fresh, Record
    <3>2. disk[o].record # None => [disk[o].record EXCEPT !.phase = "committed"] \in Record
      BY <1>1 DEF Directory, Record
    <3>3. disk'[o].record \in {disk[o].record, Fresh(r, made), [disk[o].record EXCEPT !.phase = "committed"]}
      BY <1>1, <1>7 DEF WriteRecord, Commit, Directory
    <3> QED BY <3>1, <3>2, <3>3, CustodyAssumption
  <2> QED BY <2>1, <2>2 DEF Whole
<1> QED BY <1>2, <1>3, <1>4, <1>5, <1>6, <1>7 DEF Next, PowerLoss, vars

\* A run starts over only from an empty directory.
LEMMA StartsOver ==
  ASSUME TypeOK, [Next]_vars, NEW r \in Runs, pc'[r] \in Starting
  PROVE  \/ pc[r] \in Starting
         \/ disk[OwnerOf[r]].record = None /\ ~disk[OwnerOf[r]].data
<1> USE DEF Starting, TypeOK, Goto, Empty, Mine
<1>1. ASSUME NEW s \in Runs, InitStep(s), s = r PROVE pc[r] \in Starting \/ ClaimRoot(r)
  BY <1>1 DEF InitStep, Acquire, LockTimeout, Inspect, InspectRefuses, FindRecord,
         ClaimRefuses, MakeData, MakeDataFails, WriteMarker, WriteRecord, SyncRecord,
         SyncParent, Verify, VerifyRefuses, StartContainer, FindBucket, MakeBucket,
         MakeBucketUnanswered, BucketRefuses, Commit, SyncCommit, Ready, Refuse
<1>2. ASSUME NEW s \in Runs, InitStep(s), s # r PROVE pc[r] \in Starting
  BY <1>2 DEF InitStep, Acquire, LockTimeout, Inspect, InspectRefuses, FindRecord,
         ClaimRoot, ClaimRefuses, MakeData, MakeDataFails, WriteMarker, WriteRecord, SyncRecord,
         SyncParent, Verify, VerifyRefuses, StartContainer, FindBucket, MakeBucket,
         MakeBucketUnanswered, BucketRefuses, Commit, SyncCommit, Ready, Refuse
<1>3. ASSUME NEW s \in Runs, FailStep(s) \/ Destroy(s) \/ Store(s) \/ Crash(s) \/ Restart(s)
      PROVE  pc[r] \in Starting
  BY <1>3 DEF FailStep, PreflightFails, StartFails, GatewayFails, ConnectionFails, Rollback,
              Refuse, Destroy, Store, Crash, Restart
<1>4. ASSUME PowerLoss \/ \E o \in Owners : Lose(o) PROVE pc[r] \in Starting
  BY <1>4 DEF PowerLoss, Lose
<1> QED BY <1>1, <1>2, <1>3, <1>4 DEF Next, vars, ClaimRoot

LEMMA FoundKept ==
  ASSUME "power" \notin Faults, Losses <= 1, FoundInv, [Next]_vars
  PROVE  FoundInv'
<1>1. CustodyInv /\ CustodyInv'
  BY CustodyNext DEF FoundInv
<1>2. ASSUME NEW o \in Owners, bucket'[o] # 0 PROVE Whole(o)'
  <2>1. CASE bucket[o] = bucket'[o]
    BY <1>1, <1>2, <2>1, WholeKept DEF FoundInv, Housed
  <2>2. CASE Whole(o)
    BY <1>1, <2>2, WholeKept
  <2> QED BY <1>1, <1>2, <2>1, <2>2, BucketStep
<1>3. ASSUME NEW r \in Runs, pc'[r] \in Starting PROVE bucket'[OwnerOf[r]] = 0
  <2> DEFINE o == OwnerOf[r]
  <2> SUFFICES ASSUME bucket'[o] # 0 PROVE FALSE
    OBVIOUS
  <2>1. o \in Owners
    BY CustodyAssumption
  <2>2. bucket[o] = 0
    BY <1>1, <1>3, <2>1, StartsOver DEF FoundInv, NothingThere, Housed, Whole, CustodyInv
  <2>3. PICK s \in Runs : /\ pc[s] = "started" /\ pc'[s] \in {"started", "bucketed"}
                          /\ Whole(o)
    BY <1>1, <2>1, <2>2, BucketStep
  <2>4. pc[r] \in Starting /\ s # r
    BY <1>1, <1>3, <2>3, StartsOver DEF Whole, CustodyInv, Starting
  <2> QED BY <1>1, <2>3, <2>4, Alone DEF CustodyInv, Starting, Critical, Preflight
<1> QED BY <1>1, <1>2, <1>3 DEF FoundInv, Housed, NothingThere

LEMMA FoundInit == Init => FoundInv
BY CustodyInvInit DEF FoundInv, Housed, NothingThere, Init, Starting

\* Only WriteRecord makes a record.
LEMMA RecordStep ==
  ASSUME TypeOK, [Next]_vars, NEW o \in Owners, disk[o].record = None, disk'[o].record # None
  PROVE  \E r \in Runs : OwnerOf[r] = o /\ pc[r] = "marked"
<1> USE DEF TypeOK, diskVars, ghostVars, Mine
<1>1. disk[o] \in Directory
  OBVIOUS
<1>2. ASSUME NEW r \in Runs, FailStep(r) \/ Destroy(r) \/ Store(r) \/ Crash(r) \/ Restart(r)
      PROVE  UNCHANGED disk
  BY <1>2 DEF FailStep, PreflightFails, StartFails, GatewayFails, ConnectionFails, Rollback,
              Refuse, Destroy, Store, Crash, Restart
<1>3. ASSUME NEW r \in Runs, InitStep(r)
      PROVE  \/ UNCHANGED disk
             \/ ClaimRoot(r) \/ MakeData(r) \/ WriteMarker(r) \/ WriteRecord(r)
             \/ StartContainer(r) \/ Commit(r)
  BY <1>3 DEF InitStep, Acquire, LockTimeout, Inspect, InspectRefuses, FindRecord,
              ClaimRefuses, MakeDataFails, SyncRecord, SyncParent, Verify, VerifyRefuses,
              FindBucket, MakeBucket, MakeBucketUnanswered, BucketRefuses, SyncCommit, Ready, Refuse
<1>4. ASSUME NEW r \in Runs, ClaimRoot(r) \/ MakeData(r) \/ WriteMarker(r) \/ StartContainer(r)
      PROVE  disk'[o].record = None
  BY <1>1, <1>4 DEF ClaimRoot, MakeData, WriteMarker, StartContainer, Directory
<1>5. ASSUME NEW r \in Runs, WriteRecord(r) \/ Commit(r) PROVE OwnerOf[r] = o /\ pc[r] = "marked"
  BY <1>1, <1>5 DEF WriteRecord, Commit, Directory
<1>6. ASSUME PowerLoss PROVE disk'[o].record = None
  <2>1. PICK L \in [Owners -> SUBSET Entries] : disk' = [p \in Owners |-> Recovered(disk[p], L[p])]
    BY <1>6 DEF PowerLoss
  <2> QED BY <2>1 DEF Recovered, NoDisk
<1>7. ASSUME NEW p \in Owners, Lose(p) PROVE disk'[o].record = None
  BY <1>7, LoseShape
<1> QED BY <1>2, <1>3, <1>4, <1>5, <1>6, <1>7 DEF Next, vars

-----------------------------------------------------------------------------
(* What survives                                                              *)

\* The bucket is the one objects were stored in, or a run may store some in it.
Used(o) ==
  \/ written[o] # 0 /\ bucket[o] = written[o]
  \/ \E r \in Runs : OwnerOf[r] = o /\ pc[r] = "ready"

\* A store in use is complete, and on disk but for its directory's own entry.
Complete(o) ==
  /\ disk[o].record # None /\ disk[o].record.phase = "committed"
  /\ Marked(disk[o])
  /\ bucket[o] # 0
  /\ unsynced[o] \subseteq {"root"}

Durable(o) == Used(o) => Complete(o)

\* The marker is on disk before there is a record.
MarkerFirst(o) == disk[o].record # None => "marker" \notin unsynced[o]

\* What a run has made of the store when it is at each step.
Course(r) ==
  LET o == OwnerOf[r]
  IN  /\ pc[r] \in Starting => disk[o].record = None
      /\ pc[r] \in {"verified", "started", "bucketed", "committed", "provisioned"} =>
           disk[o].record # None /\ Marked(disk[o])
      /\ pc[r] \in {"bucketed", "committed", "provisioned"} => bucket[o] # 0
      /\ pc[r] \in {"committed", "provisioned"} => disk[o].record.phase = "committed"
      /\ pc[r] = "provisioned" => unsynced[o] \subseteq {"root"}

\* A bucket that is still to be made is not one that objects are in.
Numbered == \A o \in Owners : written[o] <= made /\ bucket[o] <= made

SurvivalInv ==
  /\ \A o \in Owners : Durable(o) /\ MarkerFirst(o)
  /\ \A r \in Runs : Course(r)

DurableInv == TypeOK /\ OneProvisioner /\ Numbered /\ (lost = 0 => SurvivalInv)

LEMMA NumberGrows ==
  ASSUME NEW x \in Nat, NEW n \in Nat, x <= n
  PROVE  x <= n + 1 /\ x # n + 1
OBVIOUS

\* Ids and buckets are numbered upwards.
LEMMA NumberedKept ==
  ASSUME TypeOK, Numbered, [Next]_vars
  PROVE  Numbered'
<1>1. ASSUME UNCHANGED <<bucket, written, made>> PROVE Numbered'
  BY <1>1 DEF Numbered
<1>2. ASSUME NEW r \in Runs, InitStep(r) PROVE Numbered'
  <2>1. CASE WriteMarker(r)
    BY <2>1, NumberGrows DEF WriteMarker, ghostVars, Numbered, TypeOK
  <2>2. CASE MakeBucket(r) \/ MakeBucketUnanswered(r)
    <3>1. /\ made' = made + 1 /\ UNCHANGED written
          /\ bucket' = [bucket EXCEPT ![OwnerOf[r]] = made + 1]
      BY <2>2 DEF MakeBucket, MakeBucketUnanswered, ghostVars
    <3>2. ASSUME NEW o \in Owners PROVE written'[o] <= made' /\ bucket'[o] <= made'
      <4>1. written[o] <= made + 1 /\ bucket[o] <= made + 1 /\ made + 1 <= made + 1
        BY NumberGrows DEF Numbered, TypeOK
      <4> QED BY <3>1, <4>1 DEF TypeOK
    <3> QED BY <3>2 DEF Numbered
  <2>3. CASE ~WriteMarker(r) /\ ~MakeBucket(r) /\ ~MakeBucketUnanswered(r)
    BY <1>1, <1>2, <2>3 DEF InitStep, Acquire, LockTimeout, Inspect, InspectRefuses, FindRecord, ClaimRoot,
       ClaimRefuses, MakeData, MakeDataFails, WriteRecord, SyncRecord, SyncParent, Verify, VerifyRefuses,
       StartContainer, FindBucket, BucketRefuses, Commit, SyncCommit, Ready, Refuse, diskVars, ghostVars
  <2> QED BY <2>1, <2>2, <2>3
<1>3. ASSUME NEW r \in Runs, FailStep(r) \/ Destroy(r) \/ Crash(r) \/ Restart(r) PROVE Numbered'
  BY <1>1, <1>3 DEF FailStep, PreflightFails, StartFails, GatewayFails, ConnectionFails, Rollback, Refuse,
     Destroy, Crash, Restart, diskVars, ghostVars
<1>4. ASSUME NEW r \in Runs, Store(r) PROVE Numbered'
  <2>1. UNCHANGED <<bucket, made>> /\ written' = [written EXCEPT ![OwnerOf[r]] = bucket[OwnerOf[r]]]
    BY <1>4 DEF Store, diskVars
  <2> QED BY <2>1 DEF Numbered, TypeOK
<1>5. CASE PowerLoss
  <2>1. UNCHANGED <<written, made>> /\ \A o \in Owners : bucket'[o] \in {0, bucket[o]}
    BY <1>5 DEF PowerLoss, ghostVars
  <2>2. \A o \in Owners : 0 <= made
    BY DEF TypeOK
  <2> QED BY <2>1, <2>2 DEF Numbered
<1>6. ASSUME NEW o \in Owners, Lose(o) PROVE Numbered'
  <2>1. UNCHANGED <<written, made>> /\ bucket' \in {bucket, [bucket EXCEPT ![o] = 0]}
    BY <1>6 DEF Lose
  <2>2. \A p \in Owners : bucket'[p] \in {0, bucket[p]}
    BY <2>1 DEF TypeOK
  <2>3. 0 <= made
    BY DEF TypeOK
  <2> QED BY <2>1, <2>2, <2>3 DEF Numbered
<1>7. CASE UNCHANGED vars
  BY <1>1, <1>7 DEF vars
<1> QED BY <1>2, <1>3, <1>4, <1>5, <1>6, <1>7 DEF Next

\* A step that leaves the stores alone, and takes no run to a step at which
\* something is known of its store, keeps what is known.
LEMMA QuietSurvival ==
  ASSUME SurvivalInv, UNCHANGED <<disk, bucket, written, unsynced>>,
         \A r \in Runs : pc'[r] = pc[r] \/ pc'[r] \notin Sensitive
  PROVE  SurvivalInv'
<1>1. ASSUME NEW o \in Owners PROVE Durable(o)' /\ MarkerFirst(o)'
  <2>1. Used(o)' => Used(o)
    BY DEF Used, Sensitive
  <2> QED BY <2>1 DEF SurvivalInv, Durable, Complete, MarkerFirst
<1>2. ASSUME NEW r \in Runs PROVE Course(r)'
  BY DEF SurvivalInv, Course, Starting, Sensitive
<1> QED BY <1>1, <1>2 DEF SurvivalInv

\* What is left to show of a step that a run takes under the lock: only its own
\* store and its own progress can change.
LEMMA LocalSurvival ==
  ASSUME OneProvisioner, SurvivalInv, NEW r \in Runs, NEW o \in Owners, OwnerOf[r] = o,
         pc[r] \in Critical,
         \A s \in Runs \ {r} : pc'[s] = pc[s],
         \A p \in Owners \ {o} : /\ disk'[p] = disk[p] /\ bucket'[p] = bucket[p]
                                 /\ written'[p] = written[p] /\ unsynced'[p] = unsynced[p],
         Durable(o)', MarkerFirst(o)', Course(r)'
  PROVE  SurvivalInv'
<1>1. \A s \in Runs \ {r} : pc'[s] \notin Critical
  BY Alone
<1>2. ASSUME NEW p \in Owners, p # o PROVE Durable(p)' /\ MarkerFirst(p)'
  <2>1. Used(p)' => Used(p)
    BY <1>2 DEF Used
  <2> QED BY <1>2, <2>1 DEF SurvivalInv, Durable, Complete, MarkerFirst
<1>3. ASSUME NEW s \in Runs, s # r PROVE Course(s)'
  BY <1>1, <1>3 DEF Course, Starting, Critical, Preflight
<1> QED BY <1>2, <1>3 DEF SurvivalInv

LEMMA QuietRunSurvival ==
  ASSUME TypeOK, SurvivalInv, NEW r \in Runs,
         \/ Acquire(r) \/ LockTimeout(r) \/ Inspect(r) \/ InspectRefuses(r) \/ FindRecord(r)
         \/ ClaimRefuses(r) \/ MakeDataFails(r) \/ VerifyRefuses(r) \/ BucketRefuses(r)
         \/ FailStep(r) \/ Destroy(r) \/ Crash(r) \/ Restart(r)
  PROVE  SurvivalInv'
<1>1. UNCHANGED <<disk, bucket, written, unsynced>>
  BY DEF Acquire, LockTimeout, Inspect, InspectRefuses, FindRecord, ClaimRefuses, MakeDataFails,
         VerifyRefuses, BucketRefuses, Refuse, FailStep, PreflightFails, StartFails,
         GatewayFails, ConnectionFails, Rollback, Destroy, Crash, Restart, diskVars, ghostVars
<1>2. \A s \in Runs : pc'[s] = pc[s] \/ pc'[s] \notin Sensitive
  BY DEF Acquire, LockTimeout, Inspect, InspectRefuses, FindRecord, ClaimRefuses, MakeDataFails,
         VerifyRefuses, BucketRefuses, Refuse, FailStep, PreflightFails, StartFails,
         GatewayFails, ConnectionFails, Rollback, Destroy, Crash, Restart, Goto, Sensitive, TypeOK
<1> QED BY <1>1, <1>2, QuietSurvival

\* The steps of a bootstrap: nothing is stored in what has no record yet.
LEMMA BootstrapSurvival ==
  ASSUME TypeOK, OneProvisioner, SurvivalInv, NEW r \in Runs,
         ClaimRoot(r) \/ MakeData(r) \/ WriteMarker(r) \/ WriteRecord(r)
  PROVE  SurvivalInv'
<1> DEFINE o == OwnerOf[r]
<1>1. o \in Owners /\ Durable(o) /\ MarkerFirst(o) /\ Course(r) /\ disk[o] \in Directory
  BY CustodyAssumption DEF SurvivalInv, TypeOK
<1>2. pc[r] \in {"inspected", "claimed", "data", "marked"} /\ pc[r] \in Critical
  BY DEF ClaimRoot, MakeData, WriteMarker, WriteRecord, Critical, Preflight
<1>3. disk[o].record = None
  BY <1>1 DEF Course, Starting, ClaimRoot, MakeData, WriteMarker, WriteRecord, Mine
<1>4. /\ UNCHANGED <<bucket, written>>
      /\ \A p \in Owners \ {o} : disk'[p] = disk[p] /\ unsynced'[p] = unsynced[p]
      /\ \A s \in Runs \ {r} : pc'[s] = pc[s]
      /\ pc'[r] \in {"claimed", "data", "marked", "recorded"}
  BY DEF ClaimRoot, MakeData, WriteMarker, WriteRecord, Goto, ghostVars, TypeOK
<1>5. ~Used(o)'
  <2>1. ~Used(o)
    BY <1>1, <1>3 DEF Durable, Complete
  <2> QED BY <1>4, <2>1 DEF Used
<1>6. CASE ClaimRoot(r) \/ MakeData(r) \/ WriteMarker(r)
  <2>1. disk'[o].record = None
    BY <1>1, <1>3, <1>6 DEF ClaimRoot, MakeData, WriteMarker, TypeOK, Directory
  <2>2. pc'[r] \in Starting
    BY <1>6 DEF ClaimRoot, MakeData, WriteMarker, Goto, TypeOK, Starting
  <2>3. Course(r)' /\ MarkerFirst(o)' /\ Durable(o)'
    BY <1>5, <2>1, <2>2 DEF Course, Starting, MarkerFirst, Durable
  <2> QED BY <1>1, <1>2, <1>4, <2>3, LocalSurvival
<1>7. CASE WriteRecord(r)
  <2>1. pc'[r] = "recorded" /\ "marker" \notin unsynced'[o]
    BY <1>1, <1>7 DEF WriteRecord, Goto, TypeOK
  <2>2. Course(r)' /\ MarkerFirst(o)' /\ Durable(o)'
    BY <1>5, <2>1 DEF Course, Starting, MarkerFirst, Durable
  <2> QED BY <1>1, <1>2, <1>4, <2>2, LocalSurvival
<1> QED BY <1>6, <1>7

\* The syncs of a bootstrap and of a commit.
LEMMA SyncSurvival ==
  ASSUME TypeOK, OneProvisioner, SurvivalInv, NEW r \in Runs,
         SyncRecord(r) \/ SyncParent(r) \/ SyncCommit(r)
  PROVE  SurvivalInv'
<1> DEFINE o == OwnerOf[r]
<1>1. o \in Owners /\ Durable(o) /\ MarkerFirst(o) /\ Course(r) /\ unsynced[o] \subseteq Entries
  BY CustodyAssumption DEF SurvivalInv, TypeOK
<1>2. pc[r] \in Critical
  BY DEF SyncRecord, SyncParent, SyncCommit, Critical, Preflight
<1>3. /\ UNCHANGED <<disk, bucket, written>>
      /\ \A p \in Owners \ {o} : unsynced'[p] = unsynced[p]
      /\ \A s \in Runs \ {r} : pc'[s] = pc[s]
      /\ unsynced'[o] \subseteq unsynced[o]
      /\ pc'[r] \in {"durable", "synced", "provisioned"}
  BY <1>1 DEF SyncRecord, SyncParent, SyncCommit, Goto, ghostVars, TypeOK
<1>4. Durable(o)' /\ MarkerFirst(o)'
  <2>1. Used(o)' => Used(o)
    BY <1>3 DEF Used
  <2> QED BY <1>1, <1>3, <2>1 DEF Durable, Complete, MarkerFirst
<1>5. Course(r)'
  <2>1. CASE SyncCommit(r)
    <3>1. pc[r] = "committed" /\ unsynced'[o] = unsynced[o] \ {"record", "phase", "data"}
      BY <1>1, <2>1 DEF SyncCommit, TypeOK
    <3>2. disk[o].record # None /\ Marked(disk[o]) /\ bucket[o] # 0 /\ disk[o].record.phase = "committed"
      BY <1>1, <3>1 DEF Course
    <3>3. unsynced'[o] \subseteq {"root"}
      BY <1>1, <3>1, <3>2 DEF MarkerFirst, Entries
    <3> QED BY <1>3, <3>2, <3>3 DEF Course, Starting
  <2>2. CASE SyncRecord(r) \/ SyncParent(r)
    <3>1. pc'[r] \in {"durable", "synced"}
      BY <2>2 DEF SyncRecord, SyncParent, Goto, TypeOK
    <3> QED BY <3>1 DEF Course, Starting
  <2> QED BY <2>1, <2>2
<1> QED BY <1>1, <1>2, <1>3, <1>4, <1>5, LocalSurvival

\* From the record that agrees with its marker to the committed one.
LEMMA ProvisionSurvival ==
  ASSUME TypeOK, OneProvisioner, Numbered, SurvivalInv, NEW r \in Runs,
         \/ Verify(r) \/ StartContainer(r) \/ FindBucket(r) \/ MakeBucket(r) \/ MakeBucketUnanswered(r)
         \/ Commit(r)
  PROVE  SurvivalInv'
<1> DEFINE o == OwnerOf[r]
<1>1. o \in Owners /\ Durable(o) /\ MarkerFirst(o) /\ Course(r) /\ disk[o] \in Directory
  BY CustodyAssumption DEF SurvivalInv, TypeOK
<1>2. pc[r] \in {"synced", "verified", "started", "bucketed"} /\ pc[r] \in Critical
  BY DEF Verify, StartContainer, FindBucket, MakeBucket, MakeBucketUnanswered, Commit, Critical, Preflight
<1>3. /\ UNCHANGED written
      /\ \A p \in Owners \ {o} : /\ disk'[p] = disk[p] /\ bucket'[p] = bucket[p]
                                 /\ unsynced'[p] = unsynced[p]
      /\ \A s \in Runs \ {r} : pc'[s] = pc[s]
      /\ pc'[r] \in {"verified", "started", "bucketed", "committed"}
  BY DEF Verify, StartContainer, FindBucket, MakeBucket, MakeBucketUnanswered, Commit, Goto, diskVars,
         ghostVars, TypeOK
<1>4. bucket'[o] = bucket[o] => (Used(o)' => Used(o))
  BY <1>3 DEF Used
<1>5. CASE Verify(r)
  <2>1. UNCHANGED <<disk, bucket, unsynced>> /\ pc'[r] = "verified"
    BY <1>5 DEF Verify, Goto, diskVars, TypeOK
  <2>2. disk[o].record # None /\ Marked(disk[o])
    BY <1>5 DEF Verify, Agrees, Mine
  <2>3. Durable(o)' /\ MarkerFirst(o)' /\ Course(r)'
    BY <1>1, <1>4, <2>1, <2>2 DEF Durable, Complete, MarkerFirst, Course, Starting
  <2> QED BY <1>1, <1>2, <1>3, <2>3, LocalSurvival
<1>6. CASE StartContainer(r)
  <2>1. UNCHANGED <<bucket, unsynced>> /\ pc'[r] = "started"
    BY <1>6 DEF StartContainer, Goto, TypeOK
  <2>2. disk'[o] = [disk[o] EXCEPT !.data = TRUE]
    BY <1>1, <1>6 DEF StartContainer, TypeOK
  <2>3. disk[o].record # None /\ Marked(disk[o])
    BY <1>1, <1>6 DEF Course, StartContainer
  <2>4. disk'[o].record = disk[o].record /\ Marked(disk'[o])
    BY <1>1, <2>2, <2>3 DEF Directory, Marked
  <2>5. Durable(o)' /\ MarkerFirst(o)' /\ Course(r)'
    BY <1>1, <1>4, <2>1, <2>3, <2>4 DEF Durable, Complete, MarkerFirst, Course, Starting
  <2> QED BY <1>1, <1>2, <1>3, <2>5, LocalSurvival
<1>7. CASE FindBucket(r) \/ MakeBucket(r) \/ MakeBucketUnanswered(r)
  <2>1. /\ UNCHANGED <<disk, unsynced>> /\ pc[r] = "started" /\ pc'[r] \in {"started", "bucketed"}
        /\ \/ bucket'[o] = bucket[o] /\ bucket[o] # 0
           \/ bucket[o] = 0 /\ bucket'[o] = made + 1
    BY <1>1, <1>7 DEF FindBucket, MakeBucket, MakeBucketUnanswered, Goto, diskVars, TypeOK
  <2>2. bucket'[o] # 0
    BY <2>1 DEF TypeOK
  <2>3. Used(o)' => Used(o) /\ bucket'[o] = bucket[o]
    <3>1. CASE bucket'[o] = bucket[o]
      BY <1>4, <3>1
    <3>2. CASE bucket[o] = 0 /\ bucket'[o] = made + 1
      <4>1. written[o] # made + 1
        BY <1>1, NumberGrows DEF Numbered, TypeOK
      <4>2. ~Used(o)
        BY <1>1, <3>2 DEF Durable, Complete
      <4> QED BY <1>3, <2>1, <3>2, <4>1, <4>2 DEF Used
    <3> QED BY <2>1, <3>1, <3>2
  <2>4. Durable(o)' /\ MarkerFirst(o)'
    BY <1>1, <2>1, <2>3 DEF Durable, Complete, MarkerFirst
  <2>5. Course(r)'
    BY <1>1, <2>1, <2>2 DEF Course, Starting
  <2> QED BY <1>1, <1>2, <1>3, <2>1, <2>4, <2>5, LocalSurvival
<1>8. CASE Commit(r)
  <2>1. /\ UNCHANGED bucket /\ pc[r] = "bucketed" /\ pc'[r] = "committed"
        /\ disk' = [disk EXCEPT ![o].record.phase = "committed"]
        /\ disk[o].record # None
    BY <1>8 DEF Commit, Goto, TypeOK, Mine
  <2>2. disk[o].record \in Record /\ Marked(disk[o]) /\ bucket[o] # 0
    BY <1>1, <2>1 DEF Directory, Course
  <2>3. /\ disk'[o].record = [disk[o].record EXCEPT !.phase = "committed"]
        /\ disk'[o].data = disk[o].data /\ disk'[o].marker = disk[o].marker
    BY <1>1, <2>1, <2>2 DEF TypeOK, Directory
  <2>4. /\ disk'[o].record # None /\ disk'[o].record.phase = "committed"
        /\ disk'[o].record.bucket = disk[o].record.bucket /\ disk'[o].record.id = disk[o].record.id
    BY <2>2, <2>3, CustodyAssumption DEF Record
  <2>5. Marked(disk'[o])
    BY <2>2, <2>3, <2>4 DEF Marked
  <2>6. /\ unsynced'[o] \subseteq unsynced[o] \cup {"phase"}
        /\ disk[o].record.phase = "committed" => unsynced'[o] = unsynced[o]
    BY <1>1, <1>8 DEF Commit, Mine, TypeOK
  <2>7. Durable(o)' /\ MarkerFirst(o)'
    BY <1>1, <1>4, <2>1, <2>4, <2>5, <2>6 DEF Durable, Complete, MarkerFirst
  <2>8. Course(r)'
    BY <2>1, <2>2, <2>4, <2>5 DEF Course, Starting
  <2> QED BY <1>1, <1>2, <1>3, <2>1, <2>7, <2>8, LocalSurvival
<1> QED BY <1>5, <1>6, <1>7, <1>8

\* The store is handed to the gateway: its record is committed and synced.
LEMMA HandSurvival ==
  ASSUME TypeOK, OneProvisioner, SurvivalInv, NEW r \in Runs, Ready(r)
  PROVE  SurvivalInv'
<1> DEFINE o == OwnerOf[r]
<1>1. o \in Owners /\ MarkerFirst(o) /\ Course(r)
  BY CustodyAssumption DEF SurvivalInv
<1>2. /\ UNCHANGED <<disk, unsynced, bucket, written>>
      /\ pc[r] = "provisioned" /\ pc'[r] = "ready" /\ \A s \in Runs \ {r} : pc'[s] = pc[s]
  BY DEF Ready, Goto, diskVars, ghostVars, TypeOK
<1>3. pc[r] \in Critical
  BY <1>2 DEF Critical
<1>4. Complete(o)
  BY <1>1, <1>2 DEF Course, Complete
<1>5. Durable(o)' /\ MarkerFirst(o)' /\ Course(r)'
  BY <1>1, <1>2, <1>4 DEF Durable, Complete, MarkerFirst, Course, Starting
<1> QED BY <1>1, <1>2, <1>3, <1>5, LocalSurvival

\* Objects are stored in a store that is complete.
LEMMA StoredSurvival ==
  ASSUME TypeOK, SurvivalInv, NEW r \in Runs, Store(r)
  PROVE  SurvivalInv' /\ \A o \in Owners : written'[o] # written[o] => InPlace(o)'
<1> DEFINE o == OwnerOf[r]
<1>1. o \in Owners /\ Used(o) /\ Complete(o)
  BY CustodyAssumption DEF Store, Used, SurvivalInv, Durable
<1>2. /\ UNCHANGED <<pc, disk, bucket, unsynced>>
      /\ written' = [written EXCEPT ![o] = bucket[o]]
  BY DEF Store, diskVars
<1>3. written'[o] = bucket[o] /\ \A p \in Owners \ {o} : written'[p] = written[p]
  BY <1>1, <1>2 DEF TypeOK
<1>4. ASSUME NEW p \in Owners PROVE Durable(p)' /\ MarkerFirst(p)'
  <2>1. Used(p)' => Used(p)
    BY <1>1, <1>2, <1>3 DEF Used
  <2> QED BY <1>2, <2>1 DEF SurvivalInv, Durable, Complete, MarkerFirst
<1>5. ASSUME NEW p \in Owners, written'[p] # written[p] PROVE InPlace(p)'
  <2>1. p = o
    BY <1>3, <1>5
  <2> QED BY <1>1, <1>2, <1>3, <2>1 DEF Complete, InPlace
<1>6. \A s \in Runs : Course(s)'
  BY <1>2 DEF SurvivalInv, Course
<1> QED BY <1>4, <1>5, <1>6 DEF SurvivalInv

\* A loss of power takes nothing of a store in use, or all of its directory.
LEMMA PowerSurvival ==
  ASSUME TypeOK, SurvivalInv, PowerLoss
  PROVE  /\ SurvivalInv'
         /\ \A o \in Owners : InPlace(o) => InPlace(o)' \/ ("root" \in unsynced[o] /\ ~disk'[o].root)
<1>1. UNCHANGED written /\ (\A r \in Runs : pc'[r] = "dead") /\ \A o \in Owners : unsynced'[o] = {}
  BY DEF PowerLoss, ghostVars
<1>2. PICK L \in [Owners -> SUBSET Entries] :
        /\ \A o \in Owners : L[o] \subseteq unsynced[o]
        /\ disk' = [o \in Owners |-> Recovered(disk[o], L[o])]
        /\ bucket' = [o \in Owners |-> IF {"root", "data"} \cap L[o] # {} THEN 0 ELSE bucket[o]]
  BY DEF PowerLoss
<1>3. ASSUME NEW o \in Owners, Complete(o), L[o] = {}
      PROVE  /\ disk'[o].record = disk[o].record /\ bucket'[o] = bucket[o]
             /\ disk'[o].data = disk[o].data /\ disk'[o].marker = disk[o].marker
             /\ Marked(disk'[o])
  <2>1. disk'[o] = Recovered(disk[o], {}) /\ bucket'[o] = bucket[o]
    BY <1>2, <1>3
  <2>2. /\ disk'[o].record = disk[o].record /\ disk'[o].data = disk[o].data
        /\ disk'[o].marker = disk[o].marker
    BY <2>1, <1>3 DEF Recovered, Complete, TypeOK, Directory
  <2> QED BY <1>3, <2>1, <2>2 DEF Complete, Marked
<1>4. ASSUME NEW o \in Owners PROVE Durable(o)' /\ MarkerFirst(o)'
  <2>1. ASSUME Used(o)' PROVE Complete(o)'
    <3>1. written[o] # 0 /\ bucket'[o] = written[o]
      BY <1>1, <2>1 DEF Used
    <3>2. "root" \notin L[o] /\ bucket[o] = written[o]
      BY <1>2, <3>1
    <3>3. Complete(o) /\ L[o] = {}
      BY <1>2, <3>1, <3>2 DEF SurvivalInv, Durable, Used, Complete
    <3> QED BY <1>1, <1>3, <3>1, <3>3 DEF Complete
  <2> QED BY <1>1, <2>1 DEF Durable, MarkerFirst
<1>5. ASSUME NEW o \in Owners, InPlace(o)
      PROVE  InPlace(o)' \/ ("root" \in unsynced[o] /\ ~disk'[o].root)
  <2>1. Complete(o) /\ L[o] \subseteq {"root"} /\ L[o] \subseteq unsynced[o]
    BY <1>2, <1>5 DEF SurvivalInv, Durable, Used, Complete, InPlace
  <2>2. CASE L[o] = {}
    BY <1>1, <1>3, <1>5, <2>1, <2>2 DEF InPlace
  <2>3. CASE L[o] = {"root"}
    BY <1>2, <2>1, <2>3 DEF Recovered, NoDisk
  <2> QED BY <2>1, <2>2, <2>3
<1>6. \A r \in Runs : Course(r)'
  BY <1>1 DEF Course, Starting
<1> QED BY <1>4, <1>5, <1>6 DEF SurvivalInv

\* No run takes a bucket away, nor the note of what is in it.
LEMMA BucketStays ==
  ASSUME TypeOK, NEW r \in Runs, NEW o \in Owners, bucket[o] # 0,
         InitStep(r) \/ FailStep(r) \/ Destroy(r) \/ Crash(r) \/ Restart(r)
  PROVE  bucket'[o] = bucket[o] /\ UNCHANGED <<written, lost>>
<1> USE DEF TypeOK, diskVars, ghostVars
<1>1. CASE MakeBucket(r) \/ MakeBucketUnanswered(r)
  BY <1>1 DEF MakeBucket, MakeBucketUnanswered
<1>2. CASE InitStep(r) /\ ~MakeBucket(r) /\ ~MakeBucketUnanswered(r)
  BY <1>2 DEF InitStep, Acquire, LockTimeout, Inspect, InspectRefuses, FindRecord, ClaimRoot,
     ClaimRefuses, MakeData, MakeDataFails, WriteMarker, WriteRecord, SyncRecord, SyncParent,
     Verify, VerifyRefuses, StartContainer, FindBucket, BucketRefuses, Commit, SyncCommit, Ready, Refuse
<1>3. CASE FailStep(r) \/ Destroy(r) \/ Crash(r) \/ Restart(r)
  BY <1>3 DEF FailStep, PreflightFails, StartFails, GatewayFails, ConnectionFails, Rollback, Refuse,
     Destroy, Crash, Restart
<1> QED BY <1>1, <1>2, <1>3

\* So what is complete before and after such a step is in place throughout.
LEMMA PlaceStays ==
  ASSUME TypeOK, SurvivalInv', NEW o \in Owners, InPlace(o),
         bucket'[o] = bucket[o], written'[o] = written[o]
  PROVE  InPlace(o)'
BY DEF SurvivalInv, Durable, Used, Complete, InPlace

\* While nothing is lost, what a step may do to a store with objects in it.
Stays ==
  \A o \in Owners : lost' = 0 /\ (InPlace(o) \/ written'[o] # written[o]) =>
    InPlace(o)' \/ ("root" \in unsynced[o] /\ ~disk'[o].root)

LEMMA NotLost ==
  ASSUME TypeOK, [Next]_vars, lost' = 0
  PROVE  lost = 0 /\ \A o \in Owners : ~Lose(o)
<1>1. lost \in Nat
  BY CustodyAssumption DEF TypeOK
<1>2. lost' = lost \/ lost' = lost + 1
  <2>1. CASE \E r \in Runs : InitStep(r)
    BY <2>1 DEF InitStep, Acquire, LockTimeout, Inspect, InspectRefuses, FindRecord, ClaimRoot,
            ClaimRefuses, MakeData, MakeDataFails, WriteMarker, WriteRecord, SyncRecord,
            SyncParent, Verify, VerifyRefuses, StartContainer, FindBucket, MakeBucket,
            MakeBucketUnanswered, BucketRefuses, Commit, SyncCommit, Ready, Refuse, ghostVars
  <2>2. CASE \E r \in Runs : FailStep(r) \/ Destroy(r) \/ Store(r) \/ Crash(r) \/ Restart(r)
    BY <2>2 DEF FailStep, PreflightFails, StartFails, GatewayFails, ConnectionFails, Rollback,
            Refuse, Destroy, Store, Crash, Restart, ghostVars
  <2>3. CASE PowerLoss \/ UNCHANGED vars \/ \E o \in Owners : Lose(o)
    BY <2>3 DEF PowerLoss, Lose, vars, ghostVars
  <2> QED BY <2>1, <2>2, <2>3 DEF Next
<1>3. \A o \in Owners : Lose(o) => lost' = lost + 1
  BY DEF Lose
<1>4. lost + 1 # 0
  BY <1>1
<1> QED BY <1>2, <1>3, <1>4, Zenon

LEMMA DurableKept ==
  ASSUME DurableInv, [Next]_vars
  PROVE  DurableInv' /\ Stays
<1>1. TypeOK /\ OneProvisioner /\ Numbered /\ TypeOK' /\ OneProvisioner' /\ Numbered'
  BY CustodyTyped, LockKept, NumberedKept DEF DurableInv
<1>2. ASSUME lost' = 0 PROVE SurvivalInv' /\ Stays
  <2>1. SurvivalInv /\ \A o \in Owners : ~Lose(o)
    BY <1>1, <1>2, NotLost DEF DurableInv
  <2>2. ASSUME NEW r \in Runs, InitStep(r) \/ FailStep(r) \/ Destroy(r) \/ Crash(r) \/ Restart(r)
        PROVE  SurvivalInv' /\ Stays
    <3>1. SurvivalInv'
      BY <1>1, <2>1, <2>2, QuietRunSurvival, BootstrapSurvival, SyncSurvival, ProvisionSurvival,
         HandSurvival DEF InitStep
    <3>2. UNCHANGED written
      <4>1. CASE InitStep(r)
        BY <4>1 DEF InitStep, Acquire, LockTimeout, Inspect, InspectRefuses, FindRecord, ClaimRoot,
           ClaimRefuses, MakeData, MakeDataFails, WriteMarker, WriteRecord, SyncRecord, SyncParent,
           Verify, VerifyRefuses, StartContainer, FindBucket, MakeBucket, MakeBucketUnanswered,
           BucketRefuses, Commit, SyncCommit, Ready, Refuse, ghostVars
      <4>2. CASE FailStep(r) \/ Destroy(r) \/ Crash(r) \/ Restart(r)
        BY <4>2 DEF FailStep, PreflightFails, StartFails, GatewayFails, ConnectionFails, Rollback,
           Refuse, Destroy, Crash, Restart, ghostVars
      <4> QED BY <2>2, <4>1, <4>2
    <3>3. ASSUME NEW o \in Owners, InPlace(o) PROVE InPlace(o)'
      <4>1. bucket[o] # 0
        BY <3>3 DEF InPlace
      <4>2. bucket'[o] = bucket[o]
        BY <1>1, <2>2, <4>1, BucketStays
      <4> QED BY <1>1, <3>1, <3>2, <3>3, <4>2, PlaceStays
    <3> QED BY <3>1, <3>2, <3>3 DEF Stays
  <2>3. ASSUME NEW r \in Runs, Store(r) PROVE SurvivalInv' /\ Stays
    <3>1. SurvivalInv' /\ \A o \in Owners : written'[o] # written[o] => InPlace(o)'
      BY <1>1, <2>1, <2>3, StoredSurvival
    <3>2. ASSUME NEW o \in Owners, InPlace(o), written'[o] = written[o] PROVE InPlace(o)'
      BY <1>1, <2>3, <3>1, <3>2, PlaceStays DEF Store, diskVars
    <3> QED BY <3>1, <3>2 DEF Stays
  <2>4. ASSUME UNCHANGED vars PROVE SurvivalInv' /\ Stays
    <3>1. SurvivalInv'
      BY <2>1, <2>4, QuietSurvival DEF vars, diskVars, ghostVars
    <3> QED BY <1>1, <2>4, <3>1, PlaceStays DEF Stays, vars, diskVars, ghostVars
  <2>5. ASSUME PowerLoss PROVE SurvivalInv' /\ Stays
    BY <1>1, <2>1, <2>5, PowerSurvival DEF Stays, PowerLoss, ghostVars
  <2> QED BY <2>1, <2>2, <2>3, <2>4, <2>5 DEF Next
<1> QED BY <1>1, <1>2 DEF DurableInv, Stays

LEMMA DurableInit == Init => DurableInv
<1> SUFFICES ASSUME Init PROVE DurableInv
  OBVIOUS
<1>1. \A o \in Owners : Durable(o) /\ MarkerFirst(o)
  BY DEF Init, Durable, Used, MarkerFirst
<1>2. \A r \in Runs : Course(r)
  BY DEF Init, Course, Starting
<1>3. Numbered
  BY DEF Init, Numbered
<1> QED BY <1>1, <1>2, <1>3, CustodyInit, LockInit DEF DurableInv, SurvivalInv

-----------------------------------------------------------------------------
(* Theorems *)

\* The state of custody stays well typed, whatever fails, dies or is lost.
THEOREM CustodyTypeCorrect == Spec => []TypeOK
BY CustodyInit, CustodyTyped, PTL DEF Spec

\* Runs provision one at a time, and every way out of the critical steps, the
\* failing ones included, leaves the lock free.
THEOREM CustodyExcludes == Spec => []OneProvisioner
<1>1. Init => TypeOK /\ OneProvisioner
  BY CustodyInit, LockInit
<1>2. TypeOK /\ OneProvisioner /\ [Next]_vars => (TypeOK /\ OneProvisioner)'
  BY CustodyTyped, LockKept
<1> QED BY <1>1, <1>2, PTL DEF Spec

\* Where the machine keeps power and at most one part of a store is lost, no run
\* makes a new bucket where objects were stored, wherever earlier runs died.
THEOREM CustodyNeverReplaces ==
  ASSUME "power" \notin Faults, Losses <= 1
  PROVE  Spec => []NeverReplaced
<1>1. CustodyInv /\ [Next]_vars => CustodyInv'
  BY CustodyNext
<1>2. CustodyInv => NeverReplaced
  BY DEF CustodyInv
<1> QED BY CustodyInvInit, <1>1, <1>2, PTL DEF Spec

\* No run replaces, or takes over, the container of another owner's store,
\* although it looked at the container long before it starts its own: whatever
\* fails, dies or is lost, nobody else's container can appear in between.
THEOREM CustodyReplacesOnlyItsOwn == Spec => ReplacesOnlyItsOwn
<1> DEFINE Own == \A r \in Runs : container # None /\ container' # None /\ container'.by = r /\ ~IsMine(r)
                                  => container.mount = OwnerOf[r]
<1>1. MountInv /\ [Next]_vars => [Own]_vars
  <2> SUFFICES ASSUME MountInv, [Next]_vars,
                      NEW r \in Runs, container # None, container' # None, container'.by = r, ~IsMine(r)
               PROVE  container.mount = OwnerOf[r]
    OBVIOUS
  <2>1. r # Nobody /\ ~SameContainer
    BY CustodyAssumption DEF IsMine, SameContainer
  <2>2. PICK s \in Runs : StartContainer(s)
    BY <2>1, ContainerStep DEF MountInv
  <2>3. s = r /\ pc[r] = "verified"
    BY <2>2 DEF StartContainer
  <2> QED BY <2>3 DEF MountInv, MountKnown, Looked
<1> QED BY MountInit, MountKept, <1>1, PTL DEF Spec, ReplacesOnlyItsOwn

\* Custody is taken of nothing only: wherever earlier runs died, and whichever part
\* of a store was lost, no run writes the record of a new store over a bucket.
THEOREM CustodyInitializesOverNothing ==
  ASSUME "power" \notin Faults, Losses <= 1
  PROVE  Spec => InitializesOverNothing
<1> DEFINE Fine == \A o \in Owners : disk[o].record = None /\ disk'[o].record # None
                                     => bucket[o] = 0 /\ written[o] = 0
<1>1. FoundInv /\ [Next]_vars => [Fine]_vars
  <2> SUFFICES ASSUME FoundInv, [Next]_vars,
                      NEW o \in Owners, disk[o].record = None, disk'[o].record # None
               PROVE  bucket[o] = 0 /\ written[o] = 0
    OBVIOUS
  <2>1. PICK r \in Runs : OwnerOf[r] = o /\ pc[r] = "marked"
    BY RecordStep DEF FoundInv, CustodyInv
  <2>2. bucket[o] = 0
    BY <2>1 DEF FoundInv, NothingThere, Starting
  <2>3. ~InUse(o)
    BY <2>1 DEF FoundInv, CustodyInv, Kept
  <2> QED BY <2>2, <2>3 DEF InUse
<1>2. FoundInv /\ [Next]_vars => FoundInv'
  BY FoundKept
<1> QED BY FoundInit, <1>1, <1>2, PTL DEF Spec, InitializesOverNothing

\* Objects go into a store that is in place only, and it stays in place whatever
\* steps runs die at, whatever fails, and whenever the machine loses power; what a
\* loss of power may still take is a directory whose own entry no run synced.
THEOREM CustodyStoredStays == Spec => StoredStays
<1>1. DurableInv /\ [Next]_vars => DurableInv' /\ Stays
  BY DurableKept
<1>2. DurableInv /\ [Next]_vars => [Stays]_vars
  BY <1>1
<1>3. StoredStays <=> [][Stays]_vars
  BY PTL DEF StoredStays, Stays
<1> QED BY DurableInit, <1>1, <1>2, <1>3, PTL DEF Spec
=============================================================================
