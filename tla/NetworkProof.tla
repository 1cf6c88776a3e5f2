---------------------------- MODULE NetworkProof ----------------------------
(* Proofs about MinioNetwork, for every number of runs and whatever fails or *)
(* is killed: its types, that a ready gateway keeps its network, that a      *)
(* clean teardown leaves none of the run's containers, and that containers   *)
(* go by their own run or by a successor only.                               *)
EXTENDS MinioNetwork, TLAPS

\* A step of run r.
Step(r) == Acquire(r) \/ Up(r) \/ Destroy(r) \/ TearDown(r) \/ Crash(r)

\* Only the run that holds the lock is on its way up.
Locked == \A r \in Runs : pc[r] \in GoingUp => lock = r

\* A container is remembered by the run that made it.
Owned == \A r \in Runs : \A k \in Kinds : box[k] = r => k \in env[r]

\* What a run on its way up, or ready, has attached already.
ConnectedOf(r) ==
  /\ (pc[r] \in {"preparing", "ready"} \/ (pc[r] \in GoingUp /\ kind[r] = "gateway")) =>
        (box["minio"] = r => "minio" \in members)
  /\ pc[r] \in {"configuring", "ready"} => (box["gateway"] = r => "gateway" \in members)

Connected == \A r \in Runs : ConnectedOf(r)

\* MinIO goes up before the gateway, and each once.
InTurnOf(r) ==
  /\ pc[r] = "off" => kind[r] = "minio" /\ env[r] = {}
  /\ pc[r] \in GoingUp /\ kind[r] = "minio" => "gateway" \notin env[r]
  /\ pc[r] = "starting" => kind[r] \notin env[r]
  /\ pc[r] = "preparing" => kind[r] = "minio"
  /\ pc[r] = "configuring" => kind[r] = "gateway"

InTurn == \A r \in Runs : InTurnOf(r)

\* What a teardown without an error so far has removed.
UndoneOf(r) ==
  /\ pc[r] = "down minio" /\ clean[r] => "gateway" \notin env[r]
  /\ pc[r] \in {"down network", "checking"} /\ clean[r] => env[r] = {}
  /\ pc[r] = "gone" => env[r] = {} /\ ~joined[r]

Undone == \A r \in Runs : UndoneOf(r)

Inv == TypeOK /\ Locked /\ Owned /\ Connected /\ InTurn /\ Undone

\* It holds at the start.
LEMMA NetworkInit == Init => Inv
<1> SUFFICES ASSUME Init PROVE Inv
  OBVIOUS
<1> USE NetworkAssumption DEF Init
<1>1. TypeOK
  BY DEF TypeOK, Kinds, GoingUp, GoingDown
<1>2. Locked /\ Owned /\ Connected /\ InTurn /\ Undone
  BY DEF Locked, Owned, Connected, ConnectedOf, InTurn, InTurnOf, Undone, UndoneOf, GoingUp, Kinds
<1> QED BY <1>1, <1>2 DEF Inv

\* What Boxed leaves is well formed.
LEMMA BoxedType ==
  ASSUME TypeOK, NEW k \in Kinds, NEW b \in Runs \cup {None}, Boxed(k, b)
  PROVE  /\ box' \in [Kinds -> Runs \cup {None}]
         /\ members' \in SUBSET Kinds
         /\ members' \subseteq members
         /\ \A m \in members' : box'[m] # None
         /\ \A j \in Kinds \ {k} : box'[j] = box[j] /\ (j \in members => j \in members')
         /\ box'[k] = b
<1>1. box' = [box EXCEPT ![k] = b] /\ members' = IF box[k] = b THEN members ELSE members \ {k}
  BY DEF Boxed
<1>2. \A m \in members : m \in Kinds /\ box[m] # None
  BY DEF TypeOK
<1> QED BY <1>1, <1>2 DEF TypeOK

\* So is what the shutdown of an environment leaves.
LEMMA ShutDownType ==
  ASSUME TypeOK, NEW r \in Runs, NEW k \in Kinds, ShutDown(r, k)
  PROVE  /\ env' \in [Runs -> SUBSET Kinds]
         /\ clean' \in [Runs -> BOOLEAN]
         /\ faulted' \in [Runs -> BOOLEAN]
         /\ box' \in [Kinds -> Runs \cup {None}]
         /\ members' \in SUBSET Kinds
         /\ members' \subseteq members
         /\ \A m \in members' : box'[m] # None
<1>1. Removed(r, k) => /\ box' \in [Kinds -> Runs \cup {None}]
                      /\ members' \in SUBSET Kinds
                      /\ members' \subseteq members
                      /\ \A m \in members' : box'[m] # None
  BY BoxedType DEF Removed, TypeOK
<1>2. env' \in [Runs -> SUBSET Kinds] /\ clean' \in [Runs -> BOOLEAN] /\ faulted' \in [Runs -> BOOLEAN]
  BY DEF ShutDown, Fault, TypeOK
<1> QED BY <1>1, <1>2 DEF ShutDown, TypeOK

\* And it removes a container of the run, or none.
LEMMA ShutDownRemoves ==
  ASSUME TypeOK, NEW r \in Runs, NEW k \in Kinds, ShutDown(r, k), NEW j \in Kinds
  PROVE  \/ box'[j] = box[j] /\ (j \in members => j \in members')
         \/ box'[j] = None /\ box[j] = r /\ k = j
<1>1. (box[k] = r /\ Boxed(k, None)) \/ (box' = box /\ members' = members)
  BY DEF ShutDown, Removed, Removes
<1>2. CASE box' = box /\ members' = members
  BY <1>2
<1>3. CASE box[k] = r /\ Boxed(k, None)
  <2>1. CASE j = k
    BY <1>3, <2>1, BoxedType
  <2>2. CASE j # k
    BY <1>3, <2>2, BoxedType
  <2> QED BY <2>1, <2>2
<1> QED BY <1>1, <1>2, <1>3

\* An environment more is a set of kinds still.
LEMMA EnvironmentAdded ==
  ASSUME TypeOK, NEW r \in Runs, NEW k \in Kinds
  PROVE  [env EXCEPT ![r] = @ \cup {k}] \in [Runs -> SUBSET Kinds]
BY DEF TypeOK

\* The types.
LEMMA TypeStep ==
  ASSUME TypeOK, NEW r \in Runs, Step(r)
  PROVE  TypeOK'
<1> USE NetworkAssumption DEF TypeOK, Goto, docker, history, Kinds, GoingUp, GoingDown
<1>1. CASE Acquire(r)
  BY <1>1 DEF Acquire
<1>2. CASE Start(r)
  BY <1>2 DEF Start, Boxed
<1>3. CASE StartFails(r)
  <2>1. kind[r] \in Kinds /\ \A k \in Kinds : box[k] \in Runs \cup {None}
    BY DEF TypeOK
  <2>2. UNCHANGED <<box, members>> \/ \E b \in Runs \cup {None} : Boxed(kind[r], b)
    BY <1>3, <2>1 DEF StartFails
  <2>3. box' \in [Kinds -> Runs \cup {None}] /\ members' \in SUBSET Kinds /\ members' \subseteq members
        /\ \A m \in members' : box'[m] # None
    <3>1. CASE UNCHANGED <<box, members>>
      BY <3>1 DEF TypeOK
    <3>2. CASE \E b \in Runs \cup {None} : Boxed(kind[r], b)
      BY <3>2, <2>1, BoxedType
    <3> QED BY <2>2, <3>1, <3>2
  <2>4. env' \in [Runs -> SUBSET Kinds] /\ faulted' \in [Runs -> BOOLEAN]
    <3>1. env' = env \/ env' = [env EXCEPT ![r] = @ \cup {kind[r]}]
      BY <1>3 DEF StartFails
    <3>2. faulted' = [faulted EXCEPT ![r] = TRUE]
      BY <1>3 DEF StartFails, Fault
    <3>3. env' \in [Runs -> SUBSET Kinds]
      <4> HIDE DEF Kinds, TypeOK
      <4>1. env \in [Runs -> SUBSET Kinds]
        BY DEF TypeOK
      <4> QED BY <2>1, <3>1, <4>1, EnvironmentAdded
    <3>4. faulted' \in [Runs -> BOOLEAN]
      BY <3>2 DEF TypeOK
    <3> QED BY <3>3, <3>4
  <2>5. /\ lock' \in Runs \cup {None} /\ clean' \in [Runs -> BOOLEAN]
        /\ UNCHANGED <<kind, joined, net, orphaned>>
        /\ pc' = [pc EXCEPT ![r] = "down gateway"]
    BY <1>3 DEF StartFails, GiveUp, TypeOK
  <2> QED BY <2>3, <2>4, <2>5 DEF TypeOK
<1>4. CASE Inspect(r)
  BY <1>4 DEF Inspect, Ensured, GiveUp, Fault
<1>5. CASE Create(r)
  BY <1>5 DEF Create, Ensured, Fault
<1>6. CASE Recheck(r)
  BY <1>6 DEF Recheck, Ensured, GiveUp, Fault
<1>7. CASE Connect(r)
  <2>1. kind[r] \in Kinds
    BY DEF TypeOK
  <2>2. members' = members \/ (CanConnect(r) /\ members' = members \cup {kind[r]})
    BY <1>7 DEF Connect
  <2>3. members' \in SUBSET Kinds /\ (members' # {} => net) /\ \A m \in members' : box[m] # None
    BY <2>1, <2>2 DEF CanConnect, TypeOK
  <2>4. /\ UNCHANGED <<lock, kind, env, joined, clean, box, net, orphaned>>
        /\ faulted' \in [Runs -> BOOLEAN]
        /\ \E s \in {"preparing", "configuring", "verifying"} : pc' = [pc EXCEPT ![r] = s]
    BY <1>7 DEF Connect, Attached, Fault, TypeOK
  <2> QED BY <2>3, <2>4 DEF TypeOK
<1>8. CASE Verify(r)
  BY <1>8 DEF Verify, Attached, GiveUp, IsMember, Fault
<1>9. CASE Prepare(r)
  BY <1>9 DEF Prepare, GiveUp, Free, Fault
<1>10. CASE Configure(r)
  BY <1>10 DEF Configure, Free, Fault
<1>11. CASE Destroy(r)
  BY <1>11 DEF Destroy
<1>12. CASE DownGateway(r)
  <2>1. ShutDown(r, "gateway") /\ "gateway" \in Kinds
    BY <1>12 DEF DownGateway
  <2>2. UNCHANGED <<lock, kind, joined, net, orphaned>> /\ \E s \in GoingDown : pc' = [pc EXCEPT ![r] = s]
    BY <1>12 DEF DownGateway
  <2> QED BY <2>1, <2>2, ShutDownType DEF TypeOK
<1>13. CASE DownMinio(r)
  <2>1. ShutDown(r, "minio") /\ "minio" \in Kinds
    BY <1>13 DEF DownMinio
  <2>2. UNCHANGED <<lock, kind, joined, net, orphaned>> /\ \E s \in GoingDown : pc' = [pc EXCEPT ![r] = s]
    BY <1>13 DEF DownMinio
  <2> QED BY <2>1, <2>2, ShutDownType DEF TypeOK
<1>14. CASE RemoveNetwork(r)
  BY <1>14 DEF RemoveNetwork, Return, Free, Fault, InUse
<1>15. CASE CheckNetwork(r)
  BY <1>15 DEF CheckNetwork, Return, Free, Fault, LeftToOthers
<1>16. CASE Crash(r)
  BY <1>16 DEF Crash, Free
<1> QED BY <1>1, <1>2, <1>3, <1>4, <1>5, <1>6, <1>7, <1>8, <1>9, <1>10, <1>11, <1>12, <1>13, <1>14, <1>15, <1>16 DEF Step, Up, TearDown

\* A step changes no other run's state.
LEMMA OthersStep ==
  ASSUME TypeOK, NEW r \in Runs, Step(r), NEW q \in Runs, q # r
  PROVE  /\ pc'[q] = pc[q] /\ kind'[q] = kind[q] /\ env'[q] = env[q]
         /\ joined'[q] = joined[q] /\ clean'[q] = clean[q]
<1> USE NetworkAssumption DEF TypeOK, Goto, docker, history, Kinds, GoingUp, GoingDown
<1>1. CASE Acquire(r)
  BY <1>1 DEF Acquire
<1>2. CASE Start(r)
  BY <1>2 DEF Start, Boxed
<1>3. CASE StartFails(r)
  BY <1>3 DEF StartFails, Boxed, GiveUp, Fault
<1>4. CASE Inspect(r)
  BY <1>4 DEF Inspect, Ensured, GiveUp, Fault
<1>5. CASE Create(r)
  BY <1>5 DEF Create, Ensured, Fault
<1>6. CASE Recheck(r)
  BY <1>6 DEF Recheck, Ensured, GiveUp, Fault
<1>7. CASE Connect(r)
  BY <1>7 DEF Connect, Attached, CanConnect, Fault
<1>8. CASE Verify(r)
  BY <1>8 DEF Verify, Attached, GiveUp, IsMember, Fault
<1>9. CASE Prepare(r)
  BY <1>9 DEF Prepare, GiveUp, Free, Fault
<1>10. CASE Configure(r)
  BY <1>10 DEF Configure, Free, Fault
<1>11. CASE Destroy(r)
  BY <1>11 DEF Destroy
<1>12. CASE DownGateway(r)
  BY <1>12 DEF DownGateway, ShutDown, Removed, Removes, Boxed, Fault
<1>13. CASE DownMinio(r)
  BY <1>13 DEF DownMinio, ShutDown, Removed, Removes, Boxed, Fault
<1>14. CASE RemoveNetwork(r)
  BY <1>14 DEF RemoveNetwork, Return, Free, Fault, InUse
<1>15. CASE CheckNetwork(r)
  BY <1>15 DEF CheckNetwork, Return, Free, Fault, LeftToOthers
<1>16. CASE Crash(r)
  BY <1>16 DEF Crash, Free
<1> QED BY <1>1, <1>2, <1>3, <1>4, <1>5, <1>6, <1>7, <1>8, <1>9, <1>10, <1>11, <1>12, <1>13, <1>14, <1>15, <1>16 DEF Step, Up, TearDown

\* A run takes the lock when it is free, and frees its own.
LEMMA LockStep ==
  ASSUME TypeOK, Locked, NEW r \in Runs, Step(r)
  PROVE  /\ \/ lock' = lock
            \/ lock = None /\ lock' = r
            \/ lock = r /\ lock' = None
         /\ pc'[r] \in GoingUp => lock' = r
<1> USE NetworkAssumption DEF TypeOK, Goto, docker, history, Kinds, GoingUp, GoingDown, Locked
<1>1. CASE Acquire(r)
  BY <1>1 DEF Acquire
<1>2. CASE Start(r)
  BY <1>2 DEF Start, Boxed
<1>3. CASE StartFails(r)
  BY <1>3 DEF StartFails, Boxed, GiveUp, Fault
<1>4. CASE Inspect(r)
  BY <1>4 DEF Inspect, Ensured, GiveUp, Fault
<1>5. CASE Create(r)
  BY <1>5 DEF Create, Ensured, Fault
<1>6. CASE Recheck(r)
  BY <1>6 DEF Recheck, Ensured, GiveUp, Fault
<1>7. CASE Connect(r)
  BY <1>7 DEF Connect, Attached, CanConnect, Fault
<1>8. CASE Verify(r)
  BY <1>8 DEF Verify, Attached, GiveUp, IsMember, Fault
<1>9. CASE Prepare(r)
  BY <1>9 DEF Prepare, GiveUp, Free, Fault
<1>10. CASE Configure(r)
  BY <1>10 DEF Configure, Free, Fault
<1>11. CASE Destroy(r)
  BY <1>11 DEF Destroy
<1>12. CASE DownGateway(r)
  BY <1>12 DEF DownGateway, ShutDown, Removed, Removes, Boxed, Fault
<1>13. CASE DownMinio(r)
  BY <1>13 DEF DownMinio, ShutDown, Removed, Removes, Boxed, Fault
<1>14. CASE RemoveNetwork(r)
  BY <1>14 DEF RemoveNetwork, Return, Free, Fault, InUse
<1>15. CASE CheckNetwork(r)
  BY <1>15 DEF CheckNetwork, Return, Free, Fault, LeftToOthers
<1>16. CASE Crash(r)
  BY <1>16 DEF Crash, Free
<1> QED BY <1>1, <1>2, <1>3, <1>4, <1>5, <1>6, <1>7, <1>8, <1>9, <1>10, <1>11, <1>12, <1>13, <1>14, <1>15, <1>16 DEF Step, Up, TearDown

\* A step of r removes containers, or starts one of its own.
LEMMA BoxStep ==
  ASSUME TypeOK, NEW r \in Runs, Step(r), NEW k \in Kinds
  PROVE  \/ box'[k] = box[k] /\ (k \in members => k \in members')
         \/ box'[k] = None
         \/ box'[k] = r /\ pc[r] = "starting" /\ kind[r] = k
<1> USE NetworkAssumption DEF TypeOK, Goto, docker, history, Kinds, GoingUp, GoingDown
<1>1. CASE Acquire(r)
  BY <1>1 DEF Acquire
<1>2. CASE Start(r)
  BY <1>2 DEF Start, Boxed
<1>3. CASE StartFails(r)
  BY <1>3 DEF StartFails, Boxed, GiveUp, Fault
<1>4. CASE Inspect(r)
  BY <1>4 DEF Inspect, Ensured, GiveUp, Fault
<1>5. CASE Create(r)
  BY <1>5 DEF Create, Ensured, Fault
<1>6. CASE Recheck(r)
  BY <1>6 DEF Recheck, Ensured, GiveUp, Fault
<1>7. CASE Connect(r)
  BY <1>7 DEF Connect, Attached, CanConnect, Fault
<1>8. CASE Verify(r)
  BY <1>8 DEF Verify, Attached, GiveUp, IsMember, Fault
<1>9. CASE Prepare(r)
  BY <1>9 DEF Prepare, GiveUp, Free, Fault
<1>10. CASE Configure(r)
  BY <1>10 DEF Configure, Free, Fault
<1>11. CASE Destroy(r)
  BY <1>11 DEF Destroy
<1>12. CASE DownGateway(r)
  <2>1. ShutDown(r, "gateway") /\ "gateway" \in Kinds
    BY <1>12 DEF DownGateway
  <2>2. \/ box'[k] = box[k] /\ (k \in members => k \in members')
        \/ box'[k] = None
    BY <2>1, ShutDownRemoves
  <2> QED BY <2>2
<1>13. CASE DownMinio(r)
  <2>1. ShutDown(r, "minio") /\ "minio" \in Kinds
    BY <1>13 DEF DownMinio
  <2>2. \/ box'[k] = box[k] /\ (k \in members => k \in members')
        \/ box'[k] = None
    BY <2>1, ShutDownRemoves
  <2> QED BY <2>2
<1>14. CASE RemoveNetwork(r)
  BY <1>14 DEF RemoveNetwork, Return, Free, Fault, InUse
<1>15. CASE CheckNetwork(r)
  BY <1>15 DEF CheckNetwork, Return, Free, Fault, LeftToOthers
<1>16. CASE Crash(r)
  BY <1>16 DEF Crash, Free
<1> QED BY <1>1, <1>2, <1>3, <1>4, <1>5, <1>6, <1>7, <1>8, <1>9, <1>10, <1>11, <1>12, <1>13, <1>14, <1>15, <1>16 DEF Step, Up, TearDown

\* A container changes when r starts its own of the kind, or removes its own.
LEMMA RemovalStep ==
  ASSUME TypeOK, NEW r \in Runs, Step(r), NEW k \in Kinds, box'[k] # box[k]
  PROVE  (pc[r] = "starting" /\ kind[r] = k) \/ (box[k] = r /\ pc[r] \in GoingDown)
<1>1. CASE Start(r)
  BY <1>1 DEF Start, Boxed, TypeOK
<1>2. CASE StartFails(r)
  BY <1>2 DEF StartFails, Boxed, TypeOK
<1>3. CASE DownGateway(r)
  BY <1>3, ShutDownRemoves DEF DownGateway, GoingDown, Kinds
<1>4. CASE DownMinio(r)
  BY <1>4, ShutDownRemoves DEF DownMinio, GoingDown, Kinds
<1>5. CASE UNCHANGED box
  BY <1>5
<1> QED BY <1>1, <1>2, <1>3, <1>4, <1>5 DEF Step, Up, TearDown, docker, Acquire, Inspect, Create, Recheck,
      Connect, Verify, Prepare, Configure, Destroy, RemoveNetwork, CheckNetwork, Crash

\* Each part of it is kept by every step.
LEMMA LockedStep ==
  ASSUME TypeOK, Locked, NEW r \in Runs, Step(r)
  PROVE  Locked'
<1> SUFFICES ASSUME NEW q \in Runs, pc'[q] \in GoingUp PROVE lock' = q
  BY DEF Locked, GoingUp
<1>1. CASE q = r
  BY <1>1, LockStep
<1>2. CASE q # r
  <2>1. pc[q] \in GoingUp /\ lock = q
    BY <1>2, OthersStep DEF Locked
  <2> QED BY <1>2, <2>1, LockStep, NetworkAssumption
<1> QED BY <1>1, <1>2

LEMMA OwnedStep ==
  ASSUME TypeOK, Owned, NEW r \in Runs, Step(r)
  PROVE  Owned'
<1> SUFFICES ASSUME NEW q \in Runs, NEW k \in Kinds, box'[k] = q PROVE k \in env'[q]
  BY DEF Owned
<1>1. CASE q # r
  BY <1>1, BoxStep, OthersStep, NetworkAssumption DEF Owned
<1>2. CASE q = r
  <2>1. CASE Start(r)
    BY <1>2, <2>1 DEF Start, Boxed, Owned, TypeOK
  <2>2. CASE StartFails(r)
    BY <1>2, <2>2 DEF StartFails, Boxed, Owned, TypeOK
  <2>3. CASE DownGateway(r) \/ DownMinio(r)
    <3>1. PICK j \in Kinds : ShutDown(r, j)
      BY <2>3 DEF DownGateway, DownMinio, Kinds
    <3>2. box[k] = r /\ k \in env[r]
      BY <1>2, <3>1, ShutDownRemoves, NetworkAssumption DEF Owned
    <3>3. CASE k # j
      BY <1>2, <3>1, <3>2, <3>3 DEF ShutDown, TypeOK
    <3>4. CASE k = j /\ UNCHANGED env
      BY <1>2, <3>2, <3>4
    <3>5. CASE k = j /\ Boxed(k, None)
      BY <1>2, <3>5, NetworkAssumption DEF Boxed, TypeOK
    <3> QED BY <3>1, <3>2, <3>3, <3>4, <3>5 DEF ShutDown, Removed, Removes
  <2>4. CASE UNCHANGED <<box, env>>
    BY <1>2, <2>4 DEF Owned
  <2> QED BY <2>1, <2>2, <2>3, <2>4 DEF Step, Up, TearDown, docker, Acquire, Inspect, Create, Recheck,
        Connect, Verify, Prepare, Configure, Destroy, RemoveNetwork, CheckNetwork, Crash
<1> QED BY <1>1, <1>2

LEMMA InTurnStep ==
  ASSUME TypeOK, InTurn, NEW r \in Runs, Step(r)
  PROVE  InTurn'
<1> SUFFICES ASSUME NEW q \in Runs PROVE InTurnOf(q)'
  BY DEF InTurn
<1>1. CASE q # r
  BY <1>1, OthersStep DEF InTurn, InTurnOf
<1>0. InTurnOf(r) /\ kind[r] \in Kinds /\ env[r] \subseteq Kinds
  BY DEF InTurn, TypeOK
<1>2. CASE q = r
  <2> USE DEF InTurnOf, Goto, TypeOK
  <2>1. CASE Acquire(r)
    BY <1>0, <1>2, <2>1 DEF Acquire
  <2>2. CASE Start(r)
    <3>1. pc[r] = "starting" /\ pc'[r] = "inspecting" /\ kind'[r] = kind[r] /\ env'[r] = env[r] \cup {kind[r]}
      BY <2>2 DEF Start
    <3> QED BY <1>0, <1>2, <3>1 DEF GoingUp
  <2>3. CASE Inspect(r) \/ Create(r) \/ Recheck(r)
    BY <1>0, <1>2, <2>3 DEF Inspect, Create, Recheck, Ensured, GiveUp, GoingUp
  <2>4. CASE Connect(r)
    BY <1>0, <1>2, <2>4 DEF Connect, Attached, GoingUp, Kinds
  <2>5. CASE Verify(r)
    BY <1>0, <1>2, <2>5 DEF Verify, Attached, GiveUp, GoingUp, Kinds
  <2>6. CASE Prepare(r)
    BY <1>0, <1>2, <2>6 DEF Prepare, GiveUp, GoingUp
  <2>7. CASE StartFails(r) \/ Configure(r) \/ Destroy(r) \/ TearDown(r) \/ Crash(r)
    <3>1. pc'[r] \notin GoingUp \cup {"off"}
      BY <2>7 DEF StartFails, GiveUp, Configure, Destroy, TearDown, DownGateway, DownMinio, RemoveNetwork,
         CheckNetwork, Return, Crash, GoingUp
    <3> QED BY <1>2, <3>1 DEF GoingUp
  <2> QED BY <2>1, <2>2, <2>3, <2>4, <2>5, <2>6, <2>7 DEF Step, Up
<1> QED BY <1>1, <1>2

\* Of another run, BoxStep says that what it has attached stays; of r itself, the
\* attach is the step before each phase that relies on it.
LEMMA ConnectedStep ==
  ASSUME Inv, NEW r \in Runs, Step(r)
  PROVE  Connected'
<1> SUFFICES ASSUME NEW q \in Runs PROVE ConnectedOf(q)'
  BY DEF Connected
<1> USE DEF Inv
<1>0. "minio" \in Kinds /\ "gateway" \in Kinds /\ ConnectedOf(q)
  BY DEF Kinds, Connected
<1>1. CASE q # r
  <2>1. \A k \in Kinds : box'[k] = q => box[k] = q /\ (k \in members => k \in members')
    BY <1>1, BoxStep, NetworkAssumption
  <2>2. pc'[q] = pc[q] /\ kind'[q] = kind[q]
    BY <1>1, OthersStep
  <2> QED BY <1>0, <2>1, <2>2 DEF ConnectedOf
<1>2. CASE q = r
  <2>1. CASE Start(r)
    BY <1>0, <1>2, <2>1 DEF Start, Boxed, ConnectedOf, Goto, TypeOK, Kinds, GoingUp
  <2>2. CASE Inspect(r) \/ Create(r) \/ Recheck(r)
    BY <1>0, <1>2, <2>2 DEF Inspect, Create, Recheck, Ensured, GiveUp, ConnectedOf, Goto, TypeOK, GoingUp, docker
  <2>3. CASE Connect(r)
    BY <1>0, <1>2, <2>3 DEF Connect, Attached, CanConnect, ConnectedOf, Goto, TypeOK, Kinds, GoingUp
  <2>4. CASE Verify(r)
    BY <1>0, <1>2, <2>4 DEF Verify, Attached, GiveUp, IsMember, ConnectedOf, Goto, TypeOK, Kinds, GoingUp, docker
  <2>5. CASE Prepare(r)
    BY <1>0, <1>2, <2>5 DEF Prepare, GiveUp, ConnectedOf, Goto, TypeOK, GoingUp, docker
  <2>6. CASE Configure(r)
    <3>1. kind[r] = "gateway"
      BY <2>6 DEF Configure, InTurn, InTurnOf
    <3> QED BY <1>0, <1>2, <2>6, <3>1 DEF Configure, ConnectedOf, Goto, TypeOK, GoingUp, docker
  <2>7. CASE Acquire(r)
    <3>1. pc'[r] = "starting" /\ kind'[r] = "minio"
      BY <2>7 DEF Acquire, Goto, TypeOK, InTurn, InTurnOf
    <3> QED BY <1>2, <3>1 DEF ConnectedOf
  <2>8. CASE pc'[r] \notin GoingUp \cup {"ready"}
    BY <1>2, <2>8 DEF ConnectedOf, GoingUp
  <2>9. CASE StartFails(r) \/ Destroy(r) \/ TearDown(r) \/ Crash(r)
    <3>1. pc'[r] \notin GoingUp \cup {"ready"}
      BY <2>9 DEF StartFails, GiveUp, Destroy, TearDown, DownGateway, DownMinio, RemoveNetwork, CheckNetwork,
         Return, Crash, Goto, TypeOK, GoingUp
    <3> QED BY <2>8, <3>1
  <2> QED BY <2>1, <2>2, <2>3, <2>4, <2>5, <2>6, <2>7, <2>9 DEF Step, Up
<1> QED BY <1>1, <1>2

LEMMA UndoneStep ==
  ASSUME TypeOK, Undone, NEW r \in Runs, Step(r)
  PROVE  Undone'
<1> SUFFICES ASSUME NEW q \in Runs PROVE UndoneOf(q)'
  BY DEF Undone
<1>0. UndoneOf(q)
  BY DEF Undone
<1>1. CASE q # r
  BY <1>0, <1>1, OthersStep DEF UndoneOf
<1>2. CASE q = r
  <2>1. CASE DownGateway(r)
    BY <1>2, <2>1 DEF DownGateway, ShutDown, UndoneOf, Goto, TypeOK
  <2>2. CASE DownMinio(r)
    <3>1. pc[r] = "down minio" /\ pc'[r] = "down network" /\ ShutDown(r, "minio")
      BY <2>2 DEF DownMinio, Goto, TypeOK
    <3>2. clean'[r] => clean[r] /\ env'[r] = env[r] \ {"minio"}
      BY <3>1 DEF ShutDown, TypeOK
    <3>3. clean[r] => env[r] \subseteq {"minio"}
      BY <1>0, <1>2, <3>1 DEF UndoneOf, TypeOK, Kinds
    <3> QED BY <1>2, <3>1, <3>2, <3>3 DEF UndoneOf
  <2>3. CASE RemoveNetwork(r)
    BY <1>0, <1>2, <2>3 DEF RemoveNetwork, Return, UndoneOf, Goto, TypeOK
  <2>4. CASE CheckNetwork(r)
    BY <1>0, <1>2, <2>4 DEF CheckNetwork, Return, UndoneOf, Goto, TypeOK
  <2>5. CASE pc'[r] \notin {"down minio", "down network", "checking", "gone"}
    BY <1>2, <2>5 DEF UndoneOf
  <2>6. CASE Acquire(r) \/ Up(r) \/ Destroy(r) \/ Crash(r)
    <3>1. pc'[r] \notin {"down minio", "down network", "checking", "gone"}
      BY <2>6 DEF Up, Goto, TypeOK, Acquire, Start, StartFails, GiveUp, Inspect, Ensured, Create, Recheck,
         Connect, Attached, Verify, Prepare, Configure, Destroy, Crash
    <3> QED BY <2>5, <3>1
  <2> QED BY <2>1, <2>2, <2>3, <2>4, <2>6 DEF Step, TearDown
<1> QED BY <1>1, <1>2

LEMMA NetworkNext ==
  ASSUME Inv, [Next]_vars
  PROVE  Inv'
<1>1. CASE UNCHANGED vars
  BY <1>1 DEF Inv, vars, docker, history, TypeOK, Locked, Owned, Connected, ConnectedOf, InTurn, InTurnOf,
     Undone, UndoneOf
<1>2. CASE Next
  <2>1. PICK r \in Runs : Step(r)
    BY <1>2 DEF Next, Step
  <2>2. TypeOK' /\ Locked' /\ Owned'
    BY <2>1, TypeStep, LockedStep, OwnedStep DEF Inv
  <2>3. Connected' /\ InTurn' /\ Undone'
    BY <2>1, ConnectedStep, InTurnStep, UndoneStep DEF Inv
  <2> QED BY <2>2, <2>3 DEF Inv
<1> QED BY <1>1, <1>2

\* The inductive invariant.
THEOREM NetworkInvariant == Spec => []Inv
BY NetworkInit, NetworkNext, PTL DEF Spec

\* The state is well formed, whatever fails or dies.
THEOREM NetworkTypeCorrect == Spec => []TypeOK
<1>1. Inv => TypeOK
  BY DEF Inv
<1> QED BY <1>1, NetworkInvariant, PTL

\* While both containers of a ready run are there, they are on the network: what
\* teardown removes is never what a ready gateway uses.
THEOREM NetworkStaysConnected == Spec => []ReadyIsConnected
<1>1. Inv => ReadyIsConnected
  <2> SUFFICES ASSUME Inv, NEW r \in Runs, pc[r] = "ready", \A k \in Kinds : box[k] = r
               PROVE  net /\ members = Kinds
    BY DEF ReadyIsConnected
  <2>1. box["minio"] = r /\ box["gateway"] = r
    BY DEF Kinds
  <2>2. "minio" \in members /\ "gateway" \in members
    BY <2>1 DEF Inv, Connected, ConnectedOf
  <2>3. members \subseteq Kinds /\ (members # {} => net)
    BY DEF Inv, TypeOK
  <2> QED BY <2>2, <2>3 DEF Kinds
<1> QED BY <1>1, NetworkInvariant, PTL

\* teardown that reports no error has removed all that its run made.
THEOREM NetworkCleanIsGone == Spec => []CleanIsGone
<1>1. Inv => CleanIsGone
  BY DEF Inv, Owned, Undone, UndoneOf, CleanIsGone
<1> QED BY <1>1, NetworkInvariant, PTL

\* A container goes by its own run's teardown, or by a successor that holds the lock.
THEOREM NetworkOnlyASuccessorReplaces == Spec => OnlyASuccessorReplaces
<1> DEFINE Kept == \A k \in Kinds, r \in Runs : box[k] = r /\ box'[k] # r =>
       pc[r] \in GoingDown \/ (\E q \in Runs \ {r} : lock = q /\ pc[q] = "starting")
<1>1. ASSUME Inv, [Next]_vars PROVE [Kept]_vars
  <2> SUFFICES ASSUME Next PROVE Kept
    BY <1>1
  <2> SUFFICES ASSUME NEW k \in Kinds, NEW r \in Runs, box[k] = r, box'[k] # r
               PROVE  pc[r] \in GoingDown \/ (\E q \in Runs \ {r} : lock = q /\ pc[q] = "starting")
    OBVIOUS
  <2>1. PICK q \in Runs : Step(q)
    BY DEF Next, Step
  <2>2. (pc[q] = "starting" /\ kind[q] = k) \/ (box[k] = q /\ pc[q] \in GoingDown)
    BY <1>1, <2>1, RemovalStep DEF Inv
  <2>3. CASE pc[q] = "starting" /\ kind[q] = k
    <3>1. lock = q
      BY <1>1, <2>3 DEF Inv, Locked, GoingUp
    <3>2. q # r
      BY <1>1, <2>3 DEF Inv, Owned, InTurn, InTurnOf
    <3> QED BY <2>3, <3>1, <3>2
  <2> QED BY <2>2, <2>3
<1> QED BY <1>1, NetworkInvariant, PTL DEF Spec, OnlyASuccessorReplaces
=============================================================================
