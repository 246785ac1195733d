----------------------- MODULE AuthReplicationProofs -----------------------
(***************************************************************************)
(* Proofs about AuthReplication, for any services, groups, tasks, pushes   *)
(* and bounds.                                                             *)
(*                                                                         *)
(* A replica only writes the groups in which a push differs from what it   *)
(* read before.  That leaves the AuthDB of the push because the revision   *)
(* says what was read (DiffIsOfBase): the AuthDB of that revision of the   *)
(* primary, or that of a service without any (HasGroupsOf).                *)
(***************************************************************************)
EXTENDS AuthReplication, TLAPS

\* The AuthDB of a service that was never pushed to.
OwnAuthDB == [g \in Groups |-> IF g \in OwnGroups THEN Own ELSE 1]

\* What a service that states a revision has.
GroupsOf(rev) == IF rev \in Revs THEN history[rev] ELSE OwnAuthDB

IsOfHistory(blob) == blob.rev \in 1 .. primary.rev /\ blob.groups = history[blob.rev]

PrimaryIsOfHistory == IsOfHistory(primary)

SnapshotsAreOfHistory ==
    /\ \A v \in DOMAIN snapshots : v <= primary.rev /\ snapshots[v] = history[v]
    /\ latest # 0 => latest \in DOMAIN snapshots

BlobsAreOfHistory ==
    /\ \A w \in Workers :
          /\ task[w].pc \in {"insert", "latest", "query", "push"} => IsOfHistory(task[w].blob)
          /\ task[w].pc = "latest" => task[w].blob.rev \in DOMAIN snapshots
    /\ \A p \in pushes : IsOfHistory(p.blob)

HasGroupsOf ==
    \A r \in Replicas :
        /\ replica[r].linked <=> replica[r].rev # Own
        /\ linking[r] # "idle" => ~replica[r].linked
        /\ replica[r].rev \in {0, Own} \cup 1 .. primary.rev
        /\ replica[r].groups = GroupsOf(replica[r].rev)

DiffIsOfBase ==
    \A p \in pushes :
        /\ p.pc \in {"checked", "compared"} => replica[p.to].linked
        /\ p.pc = "compared" =>
              /\ p.base \in 0 .. primary.rev
              /\ p.diff = {g \in Groups : GroupsOf(p.base)[g] # p.blob.groups[g]}

WasReached ==
    /\ \A r \in Replicas :
          /\ replica[r].linked => replica[r].rev <= reached[r]
          /\ known[r].rev <= reached[r]
    /\ \A p \in pushes : p.pc = "done" => p.answer <= reached[p.to]

Inv ==
    /\ TypeOK
    /\ PrimaryIsOfHistory
    /\ SnapshotsAreOfHistory
    /\ BlobsAreOfHistory
    /\ HasGroupsOf
    /\ DiffIsOfBase
    /\ WasReached

-----------------------------------------------------------------------------
LEMMA InitInv == Init => Inv
<1> SUFFICES ASSUME Init PROVE Inv
  OBVIOUS
<1>1. TypeOK
  <2>1. /\ primary \in Blob /\ history \in [1 .. primary.rev -> AuthDB]
    BY ReplicationAssumption DEF Init, Blob, AuthDB, Revs, NoGroup
  <2>2. snapshots \in [DOMAIN snapshots -> AuthDB] /\ DOMAIN snapshots \subseteq Revs
    BY ReplicationAssumption DEF Init
  <2>3. known \in [Replicas -> AuthReplicaState]
    <3>1. NoReplicaState \in AuthReplicaState
      BY ReplicationAssumption DEF NoReplicaState, AuthReplicaState, AnyRev, PushStatus
    <3> QED
      BY <3>1 DEF Init
  <2>4. replica \in [Replicas -> [linked : BOOLEAN, rev : AnyRev \cup {Own},
                                  groups : [Groups -> 0 .. Own]]]
    <3>1. Own \in Nat /\ 1 \in 0 .. Own
      BY ReplicationAssumption DEF Own
    <3> QED
      BY <3>1 DEF Init
  <2>5. task \in [Workers -> TaskType]
    BY ReplicationAssumption DEF Init, Idle, NoBlob, TaskType, AnyRev, AuthDB, NoGroup
  <2>6. queue \in [Revs -> Nat] /\ latest \in AnyRev /\ faults \in 0 .. MaxFaults
    BY ReplicationAssumption DEF Init, AnyRev
  <2>7. /\ links \in [Replicas -> 0 .. MaxLinks]
        /\ reached \in [Replicas -> AnyRev] /\ refused \in [Replicas -> AnyRev]
    BY ReplicationAssumption DEF Init, AnyRev
  <2>8. linking \in [Replicas -> {"idle", "registered", "accepted"}] /\ pushes \subseteq PushType
    BY ReplicationAssumption DEF Init
  <2> QED
    BY <2>1, <2>2, <2>3, <2>4, <2>5, <2>6, <2>7, <2>8 DEF TypeOK
<1>2. PrimaryIsOfHistory /\ SnapshotsAreOfHistory
  BY ReplicationAssumption DEF Init, PrimaryIsOfHistory, SnapshotsAreOfHistory, IsOfHistory
<1>3. BlobsAreOfHistory /\ DiffIsOfBase
  BY ReplicationAssumption DEF Init, BlobsAreOfHistory, DiffIsOfBase, Idle
<1>4. HasGroupsOf
  <2>1. Own \notin Revs /\ Own # 0
    BY ReplicationAssumption DEF Own, Revs
  <2>2. \A r \in Replicas : /\ replica[r].rev = Own /\ replica[r].groups = OwnAuthDB
                            /\ ~replica[r].linked /\ linking[r] = "idle"
    BY ReplicationAssumption DEF Init, OwnAuthDB
  <2> QED
    BY <2>1, <2>2 DEF HasGroupsOf, GroupsOf
<1>5. WasReached
  <2>1. \A r \in Replicas : /\ ~replica[r].linked /\ known[r] = NoReplicaState
                            /\ reached[r] = 0
    BY DEF Init
  <2>2. pushes = {} /\ NoReplicaState.rev = 0
    BY DEF Init, NoReplicaState
  <2> QED
    BY <2>1, <2>2 DEF WasReached
<1> QED BY <1>1, <1>2, <1>3, <1>4, <1>5 DEF Inv

LEMMA StutterInv == Inv /\ UNCHANGED vars => Inv'
  BY DEF Inv, TypeOK, PrimaryIsOfHistory, SnapshotsAreOfHistory, BlobsAreOfHistory, HasGroupsOf,
         DiffIsOfBase, WasReached, IsOfHistory, GroupsOf, vars

\* A revision is added: those before it stay what they were.
LEMMA ChangeAuthDBInv ==
  ASSUME Inv, NEW g \in Groups, ChangeAuthDB(g)
  PROVE  Inv'
<1>1. PICK v \in {primary.rev + 1, NoGroup} :
        /\ primary' = [rev |-> primary.rev + 1, groups |-> [primary.groups EXCEPT ![g] = v]]
        /\ history' = [x \in 1 .. (primary.rev + 1) |->
                          IF x = primary.rev + 1 THEN primary'.groups ELSE history[x]]
  <2>1. PICK v \in {primary.rev + 1} \cup (IF primary.groups[g] = NoGroup THEN {} ELSE {NoGroup}) :
          /\ primary' = [rev |-> primary.rev + 1, groups |-> [primary.groups EXCEPT ![g] = v]]
          /\ history' = [x \in 1 .. (primary.rev + 1) |->
                            IF x = primary.rev + 1 THEN primary'.groups ELSE history[x]]
    BY Zenon DEF ChangeAuthDB
  <2>2. v \in {primary.rev + 1, NoGroup}
    OBVIOUS
  <2> QED
    BY <2>1, <2>2, Zenon
<1>2. /\ primary \in Blob /\ history \in [1 .. primary.rev -> AuthDB]
      /\ primary.rev \in Nat /\ primary.rev + 1 \in Revs
  BY ReplicationAssumption DEF ChangeAuthDB, Inv, TypeOK, Blob, Revs
<1>3. primary' \in Blob /\ primary'.rev = primary.rev + 1
  <2>1. [primary.groups EXCEPT ![g] = v] \in AuthDB
    BY <1>2 DEF Blob, AuthDB
  <2> QED
    BY <1>1, <1>2, <2>1 DEF Blob
<1>4. /\ history' \in [1 .. primary'.rev -> AuthDB]
      /\ \A x \in 1 .. primary.rev : history'[x] = history[x]
      /\ history'[primary'.rev] = primary'.groups
  BY <1>1, <1>2, <1>3 DEF Blob
<1>5. ASSUME NEW blob, IsOfHistory(blob)
      PROVE  IsOfHistory(blob)'
  BY <1>2, <1>3, <1>4, <1>5 DEF IsOfHistory
<1>6. \A rev \in {0, Own} \cup 1 .. primary.rev : GroupsOf(rev)' = GroupsOf(rev)
  BY ReplicationAssumption, <1>2, <1>4 DEF GroupsOf, OwnAuthDB, Own, Revs
<1>7. TypeOK'
  <2>1. queue' \in [Revs -> Nat]
    BY <1>2 DEF ChangeAuthDB, Enqueue, Inv, TypeOK
  <2> QED
    BY <1>3, <1>4, <2>1 DEF ChangeAuthDB, Inv, TypeOK
<1>8. PrimaryIsOfHistory'
  BY <1>2, <1>3, <1>4 DEF PrimaryIsOfHistory, IsOfHistory
<1>9. SnapshotsAreOfHistory'
  BY <1>2, <1>3, <1>4 DEF ChangeAuthDB, Inv, TypeOK, SnapshotsAreOfHistory, Revs
<1>10. BlobsAreOfHistory'
  BY <1>5 DEF ChangeAuthDB, Inv, BlobsAreOfHistory
<1>11. HasGroupsOf'
  BY <1>2, <1>3, <1>6 DEF ChangeAuthDB, Inv, HasGroupsOf
<1>12. DiffIsOfBase'
  BY <1>2, <1>3, <1>6 DEF ChangeAuthDB, Inv, DiffIsOfBase
<1>13. WasReached'
  BY DEF ChangeAuthDB, Inv, WasReached
<1> QED BY <1>7, <1>8, <1>9, <1>10, <1>11, <1>12, <1>13 DEF Inv

\* What no step but ChangeAuthDB() does.
HistoryStays == primary' = primary /\ history' = history

LEMMA GroupsOfStay ==
  ASSUME HistoryStays
  PROVE  /\ \A rev : GroupsOf(rev)' = GroupsOf(rev)
         /\ \A blob : IsOfHistory(blob)' <=> IsOfHistory(blob)
  BY DEF HistoryStays, GroupsOf, OwnAuthDB, IsOfHistory

LEMMA QueueType ==
  ASSUME queue \in [Revs -> Nat], NEW rev, Enqueue(rev)
  PROVE  queue' \in [Revs -> Nat]
<1>1. queue' = [v \in Revs |-> IF v = rev THEN queue[rev] + 1 ELSE queue[v]]
  BY Zenon DEF Enqueue
<1>2. \A v \in Revs : (IF v = rev THEN queue[rev] + 1 ELSE queue[v]) \in Nat
  OBVIOUS
<1> QED BY <1>1, <1>2

LEMMA LinkRegisterInv ==
  ASSUME Inv, NEW r \in Replicas, LinkRegister(r)
  PROVE  Inv'
<1>0. HistoryStays
  BY DEF LinkRegister, HistoryStays
<1>1. NewReplicaState \in AuthReplicaState /\ NewReplicaState.rev = 0 /\ 0 \in AnyRev
  BY ReplicationAssumption DEF NewReplicaState, AuthReplicaState, AnyRev, PushStatus
<1>2. TypeOK'
  <2>1. known' \in [Replicas -> AuthReplicaState]
    BY <1>1 DEF Inv, TypeOK, LinkRegister
  <2>2. refused' \in [Replicas -> AnyRev] /\ links' \in [Replicas -> 0 .. MaxLinks]
    BY ReplicationAssumption, <1>1 DEF Inv, TypeOK, LinkRegister
  <2> QED
    BY <2>1, <2>2 DEF Inv, TypeOK, LinkRegister
<1>3. PrimaryIsOfHistory' /\ SnapshotsAreOfHistory' /\ BlobsAreOfHistory'
  BY <1>0, GroupsOfStay DEF Inv, PrimaryIsOfHistory, SnapshotsAreOfHistory, BlobsAreOfHistory,
     HistoryStays, LinkRegister
<1>4. HasGroupsOf' /\ DiffIsOfBase'
  BY <1>0, GroupsOfStay DEF Inv, TypeOK, HasGroupsOf, DiffIsOfBase, HistoryStays, LinkRegister
<1>5. WasReached'
  BY <1>1 DEF Inv, TypeOK, AnyRev, WasReached, LinkRegister
<1> QED BY <1>2, <1>3, <1>4, <1>5 DEF Inv

LEMMA LinkTriggerInv ==
  ASSUME Inv, NEW r \in Replicas, LinkTrigger(r)
  PROVE  Inv'
<1>0. HistoryStays
  BY DEF LinkTrigger, HistoryStays
<1>1. TypeOK'
  <2>1. queue' \in [Revs -> Nat]
    BY QueueType DEF Inv, TypeOK, LinkTrigger
  <2>2. linking' \in [Replicas -> {"idle", "registered", "accepted"}]
    BY DEF Inv, TypeOK, LinkTrigger
  <2> QED
    BY <2>1, <2>2 DEF Inv, TypeOK, LinkTrigger
<1>2. PrimaryIsOfHistory' /\ SnapshotsAreOfHistory' /\ BlobsAreOfHistory' /\ WasReached'
  BY <1>0, GroupsOfStay DEF Inv, PrimaryIsOfHistory, SnapshotsAreOfHistory, BlobsAreOfHistory,
     WasReached, HistoryStays, LinkTrigger
<1>3. HasGroupsOf' /\ DiffIsOfBase'
  BY <1>0, GroupsOfStay DEF Inv, TypeOK, HasGroupsOf, DiffIsOfBase, HistoryStays, LinkTrigger
<1> QED BY <1>1, <1>2, <1>3 DEF Inv

\* A service that becomes a replica keeps its own groups until it is pushed to.
LEMMA BecomeReplicaInv ==
  ASSUME Inv, NEW r \in Replicas, BecomeReplica(r)
  PROVE  Inv'
<1>0. HistoryStays
  BY DEF BecomeReplica, HistoryStays
<1>1. /\ replica'[r] = [linked |-> TRUE, rev |-> 0, groups |-> replica[r].groups]
      /\ \A x \in Replicas \ {r} : replica'[x] = replica[x]
  BY DEF Inv, TypeOK, BecomeReplica
<1>2. ~replica[r].linked /\ replica[r].rev = Own
  BY DEF Inv, HasGroupsOf, BecomeReplica
<1>3. 0 # Own /\ 0 \notin Revs /\ Own \notin Revs /\ 0 \in AnyRev
  BY ReplicationAssumption DEF Own, Revs, AnyRev
<1>4. TypeOK'
  <2>1. [linked |-> TRUE, rev |-> 0, groups |-> replica[r].groups]
          \in [linked : BOOLEAN, rev : AnyRev \cup {Own}, groups : [Groups -> 0 .. Own]]
    BY <1>3 DEF Inv, TypeOK
  <2>2. replica' \in [Replicas -> [linked : BOOLEAN, rev : AnyRev \cup {Own},
                                   groups : [Groups -> 0 .. Own]]]
    BY <1>1, <2>1 DEF Inv, TypeOK, BecomeReplica
  <2> QED
    BY <2>2 DEF Inv, TypeOK, BecomeReplica
<1>5. PrimaryIsOfHistory' /\ SnapshotsAreOfHistory' /\ BlobsAreOfHistory'
  BY <1>0, GroupsOfStay DEF Inv, PrimaryIsOfHistory, SnapshotsAreOfHistory, BlobsAreOfHistory,
     HistoryStays, BecomeReplica
<1>6. HasGroupsOf'
  <2>1. GroupsOf(0) = OwnAuthDB /\ GroupsOf(Own) = OwnAuthDB
    BY <1>3 DEF GroupsOf
  <2>3. (replica[r].groups = GroupsOf(replica[r].rev))'
    BY <1>1, <1>2, <1>3, <2>1 DEF Inv, HasGroupsOf, GroupsOf, OwnAuthDB
  <2>4. \A x \in Replicas : linking'[x] # "idle" => linking[x] # "idle" /\ x # r
    BY DEF Inv, TypeOK, BecomeReplica
  <2> QED
    BY <1>0, <1>1, <1>2, <1>3, <2>3, <2>4, GroupsOfStay DEF Inv, HasGroupsOf, HistoryStays
<1>7. DiffIsOfBase'
  BY <1>0, <1>1, GroupsOfStay DEF Inv, TypeOK, PushType, DiffIsOfBase, HistoryStays, BecomeReplica
<1>8. WasReached'
  BY <1>1 DEF Inv, TypeOK, AnyRev, WasReached, BecomeReplica
<1> QED BY <1>4, <1>5, <1>6, <1>7, <1>8 DEF Inv

LEMMA LinkFailsInv ==
  ASSUME Inv, NEW r \in Replicas, LinkFails(r)
  PROVE  Inv'
<1>0. HistoryStays
  BY DEF LinkFails, HistoryStays
<1>1. TypeOK'
  BY ReplicationAssumption DEF Inv, TypeOK, LinkFails, Fault
<1>2. PrimaryIsOfHistory' /\ SnapshotsAreOfHistory' /\ BlobsAreOfHistory' /\ WasReached'
  BY <1>0, GroupsOfStay DEF Inv, PrimaryIsOfHistory, SnapshotsAreOfHistory, BlobsAreOfHistory,
     WasReached, HistoryStays, LinkFails
<1>3. HasGroupsOf' /\ DiffIsOfBase'
  BY <1>0, GroupsOfStay DEF Inv, TypeOK, HasGroupsOf, DiffIsOfBase, HistoryStays, LinkFails
<1> QED BY <1>1, <1>2, <1>3 DEF Inv

-----------------------------------------------------------------------------
WithRev(t, rev) == [t EXCEPT !.pc = "pack", !.rev = rev]
WithBlob(t, b) == [t EXCEPT !.pc = "insert", !.blob = b]
AtStep(t, pc) == [t EXCEPT !.pc = pc]

LEMMA TaskWithRev ==
  ASSUME NEW t \in TaskType, NEW rev \in Revs
  PROVE  WithRev(t, rev) \in TaskType /\ WithRev(t, rev).pc = "pack"
<1>1. rev \in AnyRev
  BY DEF Revs, AnyRev
<1> QED BY <1>1 DEF TaskType, WithRev

LEMMA TaskAtStep ==
  ASSUME NEW t \in TaskType, NEW pc \in {"insert", "latest", "query"}
  PROVE  /\ AtStep(t, pc) \in TaskType
         /\ AtStep(t, pc).pc = pc /\ AtStep(t, pc).blob = t.blob
  BY DEF TaskType, AtStep

LEMMA TaskWithBlob ==
  ASSUME NEW t \in TaskType, NEW b \in Blob
  PROVE  /\ WithBlob(t, b) \in TaskType
         /\ WithBlob(t, b).pc = "insert" /\ WithBlob(t, b).blob = b
<1>1. b \in [rev : AnyRev, groups : AuthDB]
  <2>1. Revs \subseteq AnyRev
    BY DEF Revs, AnyRev
  <2> QED
    BY <2>1 DEF Blob
<1> QED BY <1>1 DEF TaskType, WithBlob

\* A task is taken out of the queue.
LEMMA TakeTaskInv ==
  ASSUME Inv, NEW w \in Workers, TakeTask(w)
  PROVE  Inv'
<1>0. HistoryStays
  BY DEF TakeTask, HistoryStays
<1>1. PICK rev \in Revs :
        /\ queue[rev] > 0
        /\ queue' = [queue EXCEPT ![rev] = @ - 1]
        /\ task' = IF IsStaleTask(rev) THEN task
                   ELSE [task EXCEPT ![w].pc = "pack", ![w].rev = rev]
  BY DEF TakeTask
<1>2. \A x \in Workers : task'[x] = task[x] \/ task'[x] = WithRev(task[x], rev)
  BY <1>1 DEF Inv, TypeOK, WithRev
<1>3. TypeOK'
  <2>1. queue' \in [Revs -> Nat]
    BY <1>1 DEF Inv, TypeOK
  <2>2. task' = task \/ task' = [task EXCEPT ![w] = WithRev(task[w], rev)]
    BY <1>1, Zenon DEF WithRev
  <2>3. task' \in [Workers -> TaskType]
    <3>1. task \in [Workers -> TaskType] /\ task[w] \in TaskType
      BY DEF Inv, TypeOK
    <3>2. WithRev(task[w], rev) \in TaskType
      BY <3>1, TaskWithRev
    <3> QED
      BY <2>2, <3>1, <3>2
  <2> QED
    BY <2>1, <2>3 DEF Inv, TypeOK, TakeTask
<1>4. PrimaryIsOfHistory' /\ SnapshotsAreOfHistory' /\ WasReached'
  BY <1>0 DEF Inv, PrimaryIsOfHistory, SnapshotsAreOfHistory, IsOfHistory, WasReached, HistoryStays,
     TakeTask
<1>5. HasGroupsOf' /\ DiffIsOfBase'
  BY <1>0, GroupsOfStay DEF Inv, HasGroupsOf, DiffIsOfBase, HistoryStays, TakeTask
<1>6. BlobsAreOfHistory'
  <2>1. \A x \in Workers : task'[x].pc # "pack" => task'[x] = task[x]
    BY <1>2, TaskWithRev DEF Inv, TypeOK
  <2> QED
    BY <1>0, <2>1, GroupsOfStay DEF Inv, BlobsAreOfHistory, TakeTask
<1> QED BY <1>3, <1>4, <1>5, <1>6 DEF Inv

\* The AuthDB is read with its revision.
LEMMA PackAuthDBInv ==
  ASSUME Inv, NEW w \in Workers, PackAuthDB(w)
  PROVE  Inv'
<1>0. HistoryStays
  BY DEF PackAuthDB, HistoryStays
<1>1. /\ task'[w] = WithBlob(task[w], primary)
      /\ \A x \in Workers \ {w} : task'[x] = task[x]
  BY DEF Inv, TypeOK, PackAuthDB, PackedBlob, WithBlob
<1>2. TypeOK'
  <2>1. task'[w] \in TaskType
    BY <1>1, TaskWithBlob DEF Inv, TypeOK
  <2>2. task' \in [Workers -> TaskType]
    BY <1>1, <2>1 DEF Inv, TypeOK, PackAuthDB
  <2> QED
    BY <2>2 DEF Inv, TypeOK, PackAuthDB
<1>3. PrimaryIsOfHistory' /\ SnapshotsAreOfHistory' /\ WasReached'
  BY <1>0 DEF Inv, PrimaryIsOfHistory, SnapshotsAreOfHistory, IsOfHistory, WasReached, HistoryStays,
     PackAuthDB
<1>4. HasGroupsOf' /\ DiffIsOfBase'
  BY <1>0, GroupsOfStay DEF Inv, HasGroupsOf, DiffIsOfBase, HistoryStays, PackAuthDB
<1>5. BlobsAreOfHistory'
  <2>1. task'[w].pc = "insert" /\ task'[w].blob = primary
    BY <1>1, TaskWithBlob DEF Inv, TypeOK
  <2> QED
    BY <1>0, <1>1, <2>1, GroupsOfStay DEF Inv, PrimaryIsOfHistory, BlobsAreOfHistory, HistoryStays, PackAuthDB
<1> QED BY <1>2, <1>3, <1>4, <1>5 DEF Inv

\* A snapshot is inserted once.
LEMMA InsertSnapshotInv ==
  ASSUME Inv, NEW w \in Workers, InsertSnapshot(w)
  PROVE  Inv'
<1>0. HistoryStays
  BY DEF InsertSnapshot, HistoryStays
<1>1. /\ task[w] \in TaskType /\ task'[w] = AtStep(task[w], "latest")
      /\ \A x \in Workers \ {w} : task'[x] = task[x]
  BY DEF Inv, TypeOK, InsertSnapshot, AtStep
<1>2. IsOfHistory(task[w].blob) /\ task[w].blob \in [rev : AnyRev, groups : AuthDB]
      /\ task[w].blob.rev \in Revs
  BY ReplicationAssumption DEF Inv, TypeOK, TaskType, BlobsAreOfHistory, InsertSnapshot, IsOfHistory, Revs,
     AnyRev, Blob
<1>3. /\ DOMAIN snapshots' = (DOMAIN snapshots) \cup {task[w].blob.rev}
      /\ \A v \in DOMAIN snapshots' :
            \/ snapshots'[v] = snapshots[v] /\ v \in DOMAIN snapshots
            \/ snapshots'[v] = task[w].blob.groups /\ v = task[w].blob.rev
      /\ snapshots' = [v \in DOMAIN snapshots' |-> snapshots'[v]]
  <2>1. CASE task[w].blob.rev \in DOMAIN snapshots
    BY <2>1 DEF Inv, TypeOK, InsertSnapshot
  <2>2. CASE task[w].blob.rev \notin DOMAIN snapshots
    BY <2>2 DEF Inv, TypeOK, InsertSnapshot
  <2> QED
    BY <2>1, <2>2
<1>4. TypeOK'
  <2>1. task'[w] \in TaskType
    BY <1>1, TaskAtStep
  <2>2. task' \in [Workers -> TaskType]
    BY <1>1, <2>1 DEF Inv, TypeOK, InsertSnapshot
  <2>3. DOMAIN snapshots' \subseteq Revs /\ snapshots' \in [DOMAIN snapshots' -> AuthDB]
    BY <1>2, <1>3 DEF Inv, TypeOK
  <2> QED
    BY <2>2, <2>3 DEF Inv, TypeOK, InsertSnapshot
<1>5. PrimaryIsOfHistory' /\ WasReached'
  BY <1>0 DEF Inv, PrimaryIsOfHistory, IsOfHistory, WasReached, HistoryStays, InsertSnapshot
<1>6. SnapshotsAreOfHistory'
  <2>1. /\ primary'.rev = primary.rev /\ latest' = latest
        /\ task[w].blob.rev <= primary.rev /\ task[w].blob.groups = history[task[w].blob.rev]
    BY <1>0, <1>2 DEF IsOfHistory, HistoryStays, InsertSnapshot
  <2>2. ASSUME NEW v \in DOMAIN snapshots'
        PROVE  v <= primary'.rev /\ snapshots'[v] = history'[v]
    BY <1>0, <1>3, <2>1, <2>2 DEF Inv, SnapshotsAreOfHistory, HistoryStays
  <2> QED
    BY <1>3, <2>1, <2>2 DEF Inv, SnapshotsAreOfHistory
<1>7. HasGroupsOf' /\ DiffIsOfBase'
  BY <1>0, GroupsOfStay DEF Inv, HasGroupsOf, DiffIsOfBase, HistoryStays, InsertSnapshot
<1>8. BlobsAreOfHistory'
  <2>1. task'[w].pc = "latest" /\ task'[w].blob = task[w].blob
    BY <1>1, TaskAtStep
  <2> QED
    BY <1>0, <1>1, <1>2, <1>3, <2>1, GroupsOfStay DEF Inv, BlobsAreOfHistory, HistoryStays, InsertSnapshot
<1> QED BY <1>4, <1>5, <1>6, <1>7, <1>8 DEF Inv

LEMMA UpdateLatestInv ==
  ASSUME Inv, NEW w \in Workers, UpdateLatest(w)
  PROVE  Inv'
<1>0. HistoryStays
  BY DEF UpdateLatest, HistoryStays
<1>1. /\ task[w] \in TaskType /\ task'[w] = AtStep(task[w], "query")
      /\ \A x \in Workers \ {w} : task'[x] = task[x]
  BY DEF Inv, TypeOK, UpdateLatest, AtStep
<1>2. latest' \in {latest, task[w].blob.rev}
  BY DEF UpdateLatest, NewerPointer, Newest
<1>3. TypeOK'
  <2>1. task'[w] \in TaskType /\ task[w].blob.rev \in AnyRev
    BY <1>1, TaskAtStep DEF TaskType
  <2>2. task' \in [Workers -> TaskType]
    BY <1>1, <2>1 DEF Inv, TypeOK, UpdateLatest
  <2> QED
    BY <1>2, <2>1, <2>2 DEF Inv, TypeOK, UpdateLatest
<1>4. PrimaryIsOfHistory' /\ WasReached'
  BY <1>0 DEF Inv, PrimaryIsOfHistory, IsOfHistory, WasReached, HistoryStays, UpdateLatest
<1>5. SnapshotsAreOfHistory'
  BY <1>0, <1>2 DEF Inv, SnapshotsAreOfHistory, BlobsAreOfHistory, HistoryStays, UpdateLatest
<1>6. HasGroupsOf' /\ DiffIsOfBase'
  BY <1>0, GroupsOfStay DEF Inv, HasGroupsOf, DiffIsOfBase, HistoryStays, UpdateLatest
<1>7. BlobsAreOfHistory'
  <2>1. task'[w].pc = "query" /\ task'[w].blob = task[w].blob
    BY <1>1, TaskAtStep
  <2> QED
    BY <1>0, <1>1, <2>1, GroupsOfStay DEF Inv, BlobsAreOfHistory, HistoryStays, UpdateLatest
<1> QED BY <1>3, <1>4, <1>5, <1>6, <1>7 DEF Inv

-----------------------------------------------------------------------------
LEMMA IdleIsTask == Idle \in TaskType /\ Idle.pc = "idle"
<1>1. NoBlob \in [rev : AnyRev, groups : AuthDB] /\ 0 \in AnyRev
  BY ReplicationAssumption DEF NoBlob, AnyRev, AuthDB, NoGroup
<1> QED BY <1>1 DEF Idle, TaskType

\* What a task has packed is an AuthDB with its revision.
LEMMA TaskHasBlob ==
  ASSUME Inv, NEW w \in Workers, IsOfHistory(task[w].blob)
  PROVE  task[w].blob \in Blob
<1>1. task[w].blob \in [rev : AnyRev, groups : AuthDB] /\ primary.rev \in Revs
  BY DEF Inv, TypeOK, TaskType, Blob
<1>2. task[w].blob.rev \in Revs
  BY ReplicationAssumption, <1>1 DEF IsOfHistory, Revs, AnyRev
<1> QED BY <1>1, <1>2 DEF Blob

LEMMA SentIsPush ==
  ASSUME NEW w \in Workers, NEW r \in Replicas, NEW b \in Blob
  PROVE  /\ Sent(w, r, b) \in PushType
         /\ Sent(w, r, b).pc = "sent" /\ Sent(w, r, b).blob = b
<1>1. 0 \in AnyRev
  BY ReplicationAssumption DEF AnyRev
<1> QED BY <1>1 DEF Sent, PushType

Pushing(t, seen, stale) == [t EXCEPT !.pc = "push", !.seen = seen, !.waiting = stale]

LEMMA PushingIsTask ==
  ASSUME NEW t \in TaskType, NEW seen \in [Replicas -> AnyRev], NEW stale \in SUBSET Replicas
  PROVE  /\ Pushing(t, seen, stale) \in TaskType
         /\ Pushing(t, seen, stale).pc = "push" /\ Pushing(t, seen, stale).blob = t.blob
  BY DEF Pushing, TaskType

LEMMA PushToReplicasInv ==
  ASSUME Inv, NEW w \in Workers, PushToReplicas(w)
  PROVE  Inv'
<1> DEFINE stale == StaleReplicas(task[w].rev)
           seen == [r \in Replicas |-> IF r \in stale THEN known[r].rev ELSE 0]
<1>0. HistoryStays
  BY DEF PushToReplicas, HistoryStays
<1>1. /\ task[w] \in TaskType /\ task \in [Workers -> TaskType]
      /\ IsOfHistory(task[w].blob) /\ task[w].blob \in Blob
  BY TaskHasBlob DEF Inv, TypeOK, BlobsAreOfHistory, PushToReplicas
<1>2. stale \in SUBSET Replicas /\ seen \in [Replicas -> AnyRev]
  BY ReplicationAssumption DEF Inv, TypeOK, StaleReplicas, AuthReplicaState, AnyRev
<1>3. /\ task' \in {[task EXCEPT ![w] = Idle], [task EXCEPT ![w] = Pushing(task[w], seen, stale)]}
      /\ pushes' = pushes \cup {Sent(w, r, task[w].blob) : r \in stale}
  BY <1>1, Zenon DEF PushToReplicas, Pushing
<1> HIDE DEF stale, seen
<1>4. /\ task' \in [Workers -> TaskType]
      /\ \A x \in Workers : \/ task'[x] = task[x]
                            \/ task'[x].pc = "idle"
                            \/ task'[x].pc = "push" /\ task'[x].blob = task[w].blob
  BY <1>1, <1>2, <1>3, IdleIsTask, PushingIsTask
<1>5. \A p \in pushes' : \/ p \in pushes
                         \/ p \in PushType /\ p.pc = "sent" /\ p.blob = task[w].blob
  BY <1>1, <1>2, <1>3, SentIsPush
<1>6. TypeOK'
  BY <1>4, <1>5 DEF Inv, TypeOK, PushToReplicas
<1>7. PrimaryIsOfHistory' /\ SnapshotsAreOfHistory'
  BY <1>0 DEF Inv, PrimaryIsOfHistory, SnapshotsAreOfHistory, IsOfHistory, HistoryStays,
     PushToReplicas
<1>8. BlobsAreOfHistory'
  BY <1>0, <1>1, <1>4, <1>5, GroupsOfStay DEF Inv, BlobsAreOfHistory, PushToReplicas
<1>9. HasGroupsOf'
  BY <1>0, GroupsOfStay DEF Inv, HasGroupsOf, HistoryStays, PushToReplicas
<1>10. replica' = replica /\ reached' = reached /\ known' = known
  BY DEF PushToReplicas
<1>11. \A p \in pushes' : p.pc # "sent" => p \in pushes
  BY <1>5
<1>12. DiffIsOfBase'
  BY <1>0, <1>10, <1>11, GroupsOfStay DEF Inv, DiffIsOfBase, HistoryStays
<1>13. WasReached'
  BY <1>10, <1>11 DEF Inv, WasReached
<1> QED BY <1>6, <1>7, <1>8, <1>9, <1>12, <1>13 DEF Inv

-----------------------------------------------------------------------------
LEMMA StatesOnAnswer ==
  ASSUME NEW k \in AuthReplicaState, NEW seen, NEW p \in PushType
  PROVE  /\ StateOnAnswer(k, seen, p) \in AuthReplicaState
         /\ StateOnAnswer(k, seen, p).rev \in {k.rev, p.answer}
         /\ StateOnFail(k, seen, "transient") \in AuthReplicaState
         /\ StateOnFail(k, seen, "transient").rev = k.rev
  BY DEF StateOnAnswer, StateOnSuccess, StateOnFail, AuthReplicaState, PushStatus, PushType

LEMMA Collected ==
  ASSUME TypeOK, NEW w \in Workers, NEW r \in Replicas, NEW k \in AuthReplicaState, NEW again,
         Collect(w, r, k, again)
  PROVE  /\ known' \in [Replicas -> AuthReplicaState]
         /\ \A x \in Replicas : known'[x] = IF x = r THEN k ELSE known[x]
         /\ task' \in [Workers -> TaskType]
         /\ \A x \in Workers : task'[x].pc = task[x].pc /\ task'[x].blob = task[x].blob
<1>1. /\ known' \in [Replicas -> AuthReplicaState]
      /\ \A x \in Replicas : known'[x] = IF x = r THEN k ELSE known[x]
  BY DEF TypeOK, Collect
<1> DEFINE waiting == task[w].waiting \ {r}
           retry == IF again THEN task[w].retry \cup {r} ELSE task[w].retry
           t == [task[w] EXCEPT !.waiting = waiting, !.retry = retry]
<1>2. task' = [x \in Workers |-> IF x = w THEN t ELSE task[x]]
  BY DEF TypeOK, TaskType, Collect
<1>3. t \in TaskType /\ t.pc = task[w].pc /\ t.blob = task[w].blob
  <2>1. task[w] \in TaskType /\ waiting \in SUBSET Replicas /\ retry \in SUBSET Replicas
    BY DEF TypeOK, TaskType
  <2> HIDE DEF waiting, retry
  <2> QED
    BY <2>1 DEF TaskType
<1> HIDE DEF t
<1> QED BY <1>1, <1>2, <1>3 DEF TypeOK

\* What the primary learns from an answer, the replica has reached.
LEMMA PushAnsweredInv ==
  ASSUME Inv, NEW w \in Workers, NEW p \in pushes, PushAnswered(w, p)
  PROVE  Inv'
<1> DEFINE k == StateOnAnswer(known[p.to], task[w].seen[p.to], p)
<1>0. HistoryStays /\ replica' = replica /\ reached' = reached /\ pushes' \subseteq pushes
  BY DEF PushAnswered, HistoryStays
<1>1. /\ p \in PushType /\ p.to \in Replicas /\ known[p.to] \in AuthReplicaState
      /\ p.answer <= reached[p.to] /\ known[p.to].rev <= reached[p.to]
  BY DEF Inv, TypeOK, WasReached, PushAnswered, PushType
<1>2. k \in AuthReplicaState /\ k.rev <= reached[p.to]
  BY <1>1, StatesOnAnswer
<1>3. Collect(w, p.to, k, FALSE)
  BY DEF PushAnswered
<1> HIDE DEF k
<1>4. /\ known' \in [Replicas -> AuthReplicaState]
      /\ \A x \in Replicas : known'[x] = IF x = p.to THEN k ELSE known[x]
      /\ task' \in [Workers -> TaskType]
      /\ \A x \in Workers : task'[x].pc = task[x].pc /\ task'[x].blob = task[x].blob
  BY <1>1, <1>2, <1>3, Collected DEF Inv
<1>5. TypeOK'
  <2>1. refused' \in [Replicas -> AnyRev]
    BY DEF Inv, TypeOK, TaskType, PushAnswered, Newest
  <2> QED
    BY <1>0, <1>4, <2>1 DEF Inv, TypeOK, PushAnswered
<1>6. PrimaryIsOfHistory' /\ SnapshotsAreOfHistory'
  BY <1>0 DEF Inv, PrimaryIsOfHistory, SnapshotsAreOfHistory, IsOfHistory, HistoryStays, PushAnswered
<1>7. BlobsAreOfHistory'
  BY <1>0, <1>4, GroupsOfStay DEF Inv, BlobsAreOfHistory, PushAnswered
<1>8. HasGroupsOf'
  BY <1>0, GroupsOfStay DEF Inv, HasGroupsOf, HistoryStays, PushAnswered
<1>9. DiffIsOfBase'
  BY <1>0, GroupsOfStay DEF Inv, DiffIsOfBase, HistoryStays
<1>10. WasReached'
  BY <1>0, <1>2, <1>4 DEF Inv, WasReached
<1> QED BY <1>5, <1>6, <1>7, <1>8, <1>9, <1>10 DEF Inv

\* A push for which no task waits any more.
Unawaited(p) == [p EXCEPT !.from = NoWorker]

LEMMA UnawaitedIsPush ==
  ASSUME NEW p \in PushType
  PROVE  /\ Unawaited(p) \in PushType
         /\ Unawaited(p).to = p.to /\ Unawaited(p).blob = p.blob /\ Unawaited(p).pc = p.pc
         /\ Unawaited(p).base = p.base /\ Unawaited(p).diff = p.diff
  BY DEF Unawaited, PushType

\* What a task leaves behind: pushes that it waits for, or nobody does.
LeavesPushes ==
    \A p \in pushes' : p \in pushes \/ \E q \in pushes : q.pc # "done" /\ p = Unawaited(q)

LEMMA LeavesInv ==
  ASSUME Inv, HistoryStays, LeavesPushes, replica' = replica, reached' = reached,
         linking' = linking, snapshots' = snapshots,
         \A w \in Workers : \/ task'[w].pc = task[w].pc /\ task'[w].blob = task[w].blob
                            \/ task'[w].pc = "idle",
         \A r \in Replicas : known'[r].rev = known[r].rev
  PROVE  BlobsAreOfHistory' /\ HasGroupsOf' /\ DiffIsOfBase' /\ WasReached' /\ pushes' \subseteq PushType
<1>1. \A p \in pushes : p \in PushType
  BY DEF Inv, TypeOK
<1>2. \A p \in pushes' : \E q \in pushes :
        /\ p \in PushType /\ p.to = q.to /\ p.blob = q.blob /\ p.pc = q.pc
        /\ p.base = q.base /\ p.diff = q.diff /\ (p.pc = "done" => p.answer = q.answer)
  BY <1>1, UnawaitedIsPush DEF LeavesPushes
<1>3. BlobsAreOfHistory'
  BY <1>2, GroupsOfStay DEF Inv, BlobsAreOfHistory
<1>4. HasGroupsOf'
  BY GroupsOfStay DEF Inv, HasGroupsOf, HistoryStays
<1>5. DiffIsOfBase'
  BY <1>2, GroupsOfStay DEF Inv, DiffIsOfBase, HistoryStays
<1>6. WasReached'
  BY <1>2 DEF Inv, WasReached
<1> QED BY <1>2, <1>3, <1>4, <1>5, <1>6

LEMMA PushFailsInv ==
  ASSUME Inv, NEW w \in Workers, NEW p \in pushes, PushFails(w, p)
  PROVE  Inv'
<1> DEFINE k == StateOnFail(known[p.to], task[w].seen[p.to], "transient")
<1>0. /\ HistoryStays /\ replica' = replica /\ reached' = reached /\ linking' = linking
      /\ snapshots' = snapshots /\ LeavesPushes
  BY DEF PushFails, HistoryStays, LeavesPushes, Unawaited
<1>1. p \in PushType /\ p.to \in Replicas /\ known[p.to] \in AuthReplicaState
  BY DEF Inv, TypeOK, PushType
<1>2. k \in AuthReplicaState /\ k.rev = known[p.to].rev
  BY <1>1, StatesOnAnswer
<1>3. Collect(w, p.to, k, k.rev <= task[w].rev)
  BY DEF PushFails
<1> HIDE DEF k
<1>4. /\ known' \in [Replicas -> AuthReplicaState]
      /\ \A x \in Replicas : known'[x] = IF x = p.to THEN k ELSE known[x]
      /\ task' \in [Workers -> TaskType]
      /\ \A x \in Workers : task'[x].pc = task[x].pc /\ task'[x].blob = task[x].blob
  BY <1>1, <1>2, <1>3, Collected DEF Inv
<1>5. BlobsAreOfHistory' /\ HasGroupsOf' /\ DiffIsOfBase' /\ WasReached' /\ pushes' \subseteq PushType
  BY <1>0, <1>2, <1>4, LeavesInv
<1>6. TypeOK'
  <2>1. faults' \in 0 .. MaxFaults
    BY ReplicationAssumption DEF Inv, TypeOK, PushFails, Fault
  <2> QED
    BY <1>0, <1>4, <1>5, <2>1 DEF Inv, TypeOK, PushFails
<1>7. PrimaryIsOfHistory' /\ SnapshotsAreOfHistory'
  BY <1>0 DEF Inv, PrimaryIsOfHistory, SnapshotsAreOfHistory, IsOfHistory, HistoryStays, PushFails
<1> QED BY <1>5, <1>6, <1>7 DEF Inv

LEMMA TaskEndsInv ==
  ASSUME Inv, NEW w \in Workers, TaskEnds(w)
  PROVE  Inv'
<1>0. /\ HistoryStays /\ replica' = replica /\ reached' = reached /\ linking' = linking
      /\ snapshots' = snapshots /\ known' = known /\ LeavesPushes
  BY DEF TaskEnds, HistoryStays, LeavesPushes
<1>1. /\ task' \in [Workers -> TaskType]
      /\ \A x \in Workers : task'[x] = task[x] \/ task'[x].pc = "idle"
  BY IdleIsTask DEF Inv, TypeOK, TaskEnds
<1>2. BlobsAreOfHistory' /\ HasGroupsOf' /\ DiffIsOfBase' /\ WasReached' /\ pushes' \subseteq PushType
  BY <1>0, <1>1, LeavesInv
<1>3. TypeOK'
  <2>1. queue' \in [Revs -> Nat]
    BY QueueType DEF Inv, TypeOK, TaskEnds
  <2> QED
    BY <1>0, <1>1, <1>2, <2>1 DEF Inv, TypeOK, TaskEnds
<1>4. PrimaryIsOfHistory' /\ SnapshotsAreOfHistory'
  BY <1>0 DEF Inv, PrimaryIsOfHistory, SnapshotsAreOfHistory, IsOfHistory, HistoryStays, TaskEnds
<1> QED BY <1>2, <1>3, <1>4 DEF Inv

LEMMA TaskDiesInv ==
  ASSUME Inv, NEW w \in Workers, TaskDies(w)
  PROVE  Inv'
<1>0. /\ HistoryStays /\ replica' = replica /\ reached' = reached /\ linking' = linking
      /\ snapshots' = snapshots /\ known' = known
  BY DEF TaskDies, HistoryStays
<1>1. LeavesPushes
  BY DEF TaskDies, LeavesPushes, Unawaited
<1>2. /\ task' \in [Workers -> TaskType]
      /\ \A x \in Workers : task'[x] = task[x] \/ task'[x].pc = "idle"
  BY IdleIsTask DEF Inv, TypeOK, TaskDies
<1>3. BlobsAreOfHistory' /\ HasGroupsOf' /\ DiffIsOfBase' /\ WasReached' /\ pushes' \subseteq PushType
  BY <1>0, <1>1, <1>2, LeavesInv
<1>4. TypeOK'
  <2>1. queue' \in [Revs -> Nat]
    BY QueueType DEF Inv, TypeOK, TaskDies
  <2>2. faults' \in 0 .. MaxFaults
    BY ReplicationAssumption DEF Inv, TypeOK, TaskDies, Fault
  <2> QED
    BY <1>0, <1>2, <1>3, <2>1, <2>2 DEF Inv, TypeOK, TaskDies
<1>5. PrimaryIsOfHistory' /\ SnapshotsAreOfHistory'
  BY <1>0 DEF Inv, PrimaryIsOfHistory, SnapshotsAreOfHistory, IsOfHistory, HistoryStays, TaskDies
<1> QED BY <1>3, <1>4, <1>5 DEF Inv

-----------------------------------------------------------------------------
PushAs(p, pc, base, diff, answer) ==
    [p EXCEPT !.pc = pc, !.base = base, !.diff = diff, !.answer = answer]

LEMMA PushAsIsPush ==
  ASSUME NEW p \in PushType, NEW pc \in {"sent", "checked", "compared", "done"}, NEW base \in AnyRev,
         NEW diff \in SUBSET Groups, NEW answer \in AnyRev
  PROVE  LET q == PushAs(p, pc, base, diff, answer) IN
         /\ q \in PushType /\ q.to = p.to /\ q.blob = p.blob /\ q.pc = pc /\ q.base = base
         /\ q.diff = diff /\ q.answer = answer
  BY DEF PushAs, PushType

\* A push is replaced by what it has become, or is over.
Moves(p, q) == pushes' \subseteq (pushes \ {p}) \cup {q}

LEMMA AnswerMoves ==
  ASSUME NEW p \in PushType, NEW answer \in AnyRev, Answer(p, answer)
  PROVE  Moves(p, PushAs(p, "done", 0, {}, answer))
  BY DEF Answer, Becomes, Moves, PushAs

\* What a push becomes while the AuthDB of its replica is read.
LEMMA ReadsInv ==
  ASSUME Inv, HistoryStays, NEW p \in pushes, NEW q \in PushType, Moves(p, q),
         q.to = p.to, q.blob = p.blob,
         UNCHANGED <<replica, reached, linking, snapshots, known, latest, task, queue, faults, links, refused>>,
         q.pc \in {"checked", "compared"} => replica[q.to].linked,
         q.pc = "compared" => /\ q.base = replica[q.to].rev
                              /\ q.diff = {g \in Groups : replica[q.to].groups[g] # q.blob.groups[g]},
         q.pc = "done" => q.answer <= reached[q.to]
  PROVE  Inv'
<1>0. q.to \in Replicas /\ 0 # Own
  BY ReplicationAssumption DEF PushType, Own
<1>1. TypeOK'
  BY DEF Inv, TypeOK, HistoryStays, Moves
<1>2. PrimaryIsOfHistory' /\ SnapshotsAreOfHistory'
  BY DEF Inv, PrimaryIsOfHistory, SnapshotsAreOfHistory, IsOfHistory, HistoryStays
<1>3. BlobsAreOfHistory'
  BY GroupsOfStay DEF Inv, BlobsAreOfHistory, Moves
<1>4. HasGroupsOf'
  BY GroupsOfStay DEF Inv, HasGroupsOf, HistoryStays
<1>5. DiffIsOfBase'
  <2>1. q.pc = "compared" => /\ q.base \in 0 .. primary.rev
                             /\ q.diff = {g \in Groups : GroupsOf(q.base)[g] # q.blob.groups[g]}
    BY <1>0 DEF Inv, HasGroupsOf, TypeOK, Blob, Revs
  <2> QED
    BY <2>1, GroupsOfStay DEF Inv, DiffIsOfBase, HistoryStays, Moves
<1>6. WasReached'
  BY DEF Inv, WasReached, Moves
<1> QED BY <1>1, <1>2, <1>3, <1>4, <1>5, <1>6 DEF Inv

LEMMA CheckRevisionInv ==
  ASSUME Inv, NEW p \in pushes, CheckRevision(p)
  PROVE  Inv'
<1>0. /\ HistoryStays
      /\ UNCHANGED <<replica, reached, linking, snapshots, known, latest, task, queue, faults, links, refused>>
  BY DEF CheckRevision, HistoryStays
<1>1. p \in PushType /\ p.to \in Replicas /\ p.blob \in Blob /\ 0 \in AnyRev
  BY ReplicationAssumption DEF Inv, TypeOK, PushType, AnyRev
<1>2. CASE ~replica[p.to].linked
  <2> DEFINE q == PushAs(p, "done", 0, {}, 0)
  <2>1. Moves(p, q)
    BY <1>1, <1>2, AnswerMoves DEF CheckRevision
  <2>2. q \in PushType /\ q.to = p.to /\ q.blob = p.blob /\ q.pc = "done" /\ q.answer = 0
    BY <1>1, PushAsIsPush
  <2>3. 0 <= reached[p.to]
    BY <1>1 DEF Inv, TypeOK, AnyRev
  <2> HIDE DEF q
  <2> QED
    BY <1>0, <2>1, <2>2, <2>3, ReadsInv
<1>3. CASE replica[p.to].linked /\ replica[p.to].rev >= p.blob.rev
  <2> DEFINE q == PushAs(p, "done", 0, {}, replica[p.to].rev)
  <2>1. replica[p.to].rev \in AnyRev /\ replica[p.to].rev <= reached[p.to]
    BY <1>1, <1>3 DEF Inv, TypeOK, HasGroupsOf, WasReached
  <2>2. Moves(p, q)
    BY <1>1, <1>3, <2>1, AnswerMoves DEF CheckRevision
  <2>3. /\ q \in PushType /\ q.to = p.to /\ q.blob = p.blob /\ q.pc = "done"
        /\ q.answer = replica[p.to].rev
    BY <1>1, <2>1, PushAsIsPush
  <2> HIDE DEF q
  <2> QED
    BY <1>0, <2>1, <2>2, <2>3, ReadsInv
<1>4. CASE replica[p.to].linked /\ ~(replica[p.to].rev >= p.blob.rev)
  <2> DEFINE q == [p EXCEPT !.pc = "checked"]
  <2>1. Moves(p, q)
    BY <1>4 DEF CheckRevision, Becomes, Moves
  <2>2. q \in PushType /\ q.to = p.to /\ q.blob = p.blob /\ q.pc = "checked"
    BY <1>1 DEF PushType
  <2> HIDE DEF q
  <2> QED
    BY <1>0, <1>4, <2>1, <2>2, ReadsInv
<1> QED BY <1>2, <1>3, <1>4

LEMMA CompareGroupsInv ==
  ASSUME Inv, NEW p \in pushes, CompareGroups(p)
  PROVE  Inv'
<1> DEFINE diff == {g \in Groups : replica[p.to].groups[g] # p.blob.groups[g]}
           q == PushAs(p, "compared", replica[p.to].rev, diff, p.answer)
<1>0. /\ HistoryStays
      /\ UNCHANGED <<replica, reached, linking, snapshots, known, latest, task, queue, faults, links, refused>>
  BY DEF CompareGroups, HistoryStays
<1>1. p \in PushType /\ p.to \in Replicas /\ p.answer \in AnyRev /\ replica[p.to].linked
  BY DEF Inv, TypeOK, DiffIsOfBase, CompareGroups, PushType
<1>2. replica[p.to].rev \in AnyRev /\ diff \in SUBSET Groups
  BY <1>1 DEF Inv, TypeOK, HasGroupsOf
<1>3. Moves(p, q)
  BY <1>1 DEF CompareGroups, Becomes, Moves, PushAs, PushType
<1>4. /\ q \in PushType /\ q.to = p.to /\ q.blob = p.blob /\ q.pc = "compared"
      /\ q.base = replica[p.to].rev /\ q.diff = diff
  BY <1>1, <1>2, PushAsIsPush
<1> HIDE DEF q
<1> QED BY <1>0, <1>1, <1>3, <1>4, ReadsInv

\* What is written over what was read makes the AuthDB of the push.
LEMMA DiffMakesBlob ==
  ASSUME NEW b \in AuthDB, NEW old \in [Groups -> 0 .. Own]
  PROVE  [g \in Groups |-> IF g \in {x \in Groups : old[x] # b[x]} THEN b[g] ELSE old[g]] = b
  BY DEF AuthDB

LEMMA NewestIsNewer ==
  ASSUME NEW a \in AnyRev, NEW b \in AnyRev
  PROVE  Newest(a, b) \in AnyRev /\ a <= Newest(a, b) /\ b <= Newest(a, b)
  BY ReplicationAssumption DEF AnyRev, Newest

LEMMA WriteInv ==
  ASSUME Inv, NEW p \in pushes, UpdateAuthDB(p), NotChangedSince(p)
  PROVE  Inv'
<1> DEFINE here == replica[p.to]
           new == [linked |-> TRUE, rev |-> p.blob.rev, groups |-> p.blob.groups]
           q == PushAs(p, "done", 0, {}, p.blob.rev)
<1>0. HistoryStays /\ UNCHANGED <<snapshots, latest, known, linking, queue, task, faults, links, refused>>
  BY DEF UpdateAuthDB, HistoryStays
<1>1. /\ p \in PushType /\ p.to \in Replicas /\ p.blob \in Blob /\ p.pc = "compared"
      /\ p.blob.rev \in 1 .. primary.rev /\ p.blob.groups = history[p.blob.rev]
  BY DEF Inv, TypeOK, PushType, BlobsAreOfHistory, IsOfHistory, UpdateAuthDB
<1>2. /\ here \in [linked : BOOLEAN, rev : AnyRev \cup {Own}, groups : [Groups -> 0 .. Own]]
      /\ here.linked /\ here.rev = p.base /\ here.groups = GroupsOf(p.base)
      /\ p.diff = {g \in Groups : here.groups[g] # p.blob.groups[g]}
      /\ linking[p.to] = "idle"
  BY <1>1 DEF Inv, TypeOK, HasGroupsOf, DiffIsOfBase, NotChangedSince
<1>3. /\ p.blob.rev \in Revs /\ p.blob.rev \in AnyRev /\ p.blob.rev # Own /\ p.blob.groups \in AuthDB
      /\ GroupsOf(p.blob.rev) = p.blob.groups
  BY ReplicationAssumption, <1>1 DEF Blob, Revs, AnyRev, Own, GroupsOf
<1>4. [g \in Groups |-> IF g \in p.diff THEN p.blob.groups[g] ELSE here.groups[g]] = p.blob.groups
  BY <1>2, <1>3, DiffMakesBlob
<1>5. replica' = [replica EXCEPT ![p.to] = new]
  <2>1. replica' = [replica EXCEPT ![p.to] = [linked |-> here.linked, rev |-> p.blob.rev,
                                             groups |-> p.blob.groups]]
    BY <1>4, Zenon DEF UpdateAuthDB
  <2>2. here.linked = TRUE
    BY <1>2
  <2> QED
    BY <2>1, <2>2
<1>6. /\ replica'[p.to] = new
      /\ \A r \in Replicas \ {p.to} : replica'[r] = replica[r]
      /\ \A r \in Replicas : replica'[r].linked = replica[r].linked
  BY <1>1, <1>2, <1>5 DEF Inv, TypeOK
<1>7. /\ reached' \in [Replicas -> AnyRev]
      /\ p.blob.rev <= reached'[p.to]
      /\ \A r \in Replicas : reached[r] \in Nat /\ reached'[r] \in Nat /\ reached[r] <= reached'[r]
  <2>1. reached \in [Replicas -> AnyRev] /\ AnyRev \subseteq Nat /\ p.blob.rev \in Nat
    BY <1>3 DEF Inv, TypeOK, AnyRev
  <2>2. reached' = [reached EXCEPT ![p.to] = Newest(@, p.blob.rev)]
    BY DEF UpdateAuthDB
  <2>3. reached'[p.to] = Newest(reached[p.to], p.blob.rev)
    BY <1>1, <2>1, <2>2
  <2>4. \A r \in Replicas \ {p.to} : reached'[r] = reached[r]
    BY <2>1, <2>2
  <2>5. /\ Newest(reached[p.to], p.blob.rev) \in AnyRev
        /\ p.blob.rev <= Newest(reached[p.to], p.blob.rev)
        /\ reached[p.to] <= Newest(reached[p.to], p.blob.rev)
    BY <1>1, <1>3, <2>1, NewestIsNewer
  <2>6. \A r \in Replicas : reached'[r] \in AnyRev /\ reached[r] <= reached'[r]
    <3>1. SUFFICES ASSUME NEW r \in Replicas
                   PROVE  reached'[r] \in AnyRev /\ reached[r] <= reached'[r]
      OBVIOUS
    <3>2. CASE r = p.to
      BY <2>3, <2>5, <3>2
    <3>3. CASE r # p.to
      <4>1. reached'[r] = reached[r] /\ reached[r] \in AnyRev /\ reached[r] \in Nat
        BY <2>1, <2>4, <3>3
      <4> QED
        BY <4>1
    <3> QED
      BY <3>2, <3>3
  <2>7. reached' \in [Replicas -> AnyRev]
    <3>1. reached' = [r \in Replicas |-> reached'[r]]
      BY <2>1, <2>2
    <3> QED
      BY <2>6, <3>1
  <2>8. p.blob.rev <= reached'[p.to]
    BY <2>3, <2>5
  <2> HIDE DEF here, new
  <2> QED
    BY <2>1, <2>6, <2>7, <2>8
<1>8. Moves(p, q)
  BY <1>1, <1>3, AnswerMoves DEF UpdateAuthDB
<1>9. q \in PushType /\ q.to = p.to /\ q.blob = p.blob /\ q.pc = "done" /\ q.answer = p.blob.rev
  BY ReplicationAssumption, <1>1, <1>3, PushAsIsPush DEF AnyRev
<1> HIDE DEF q
<1>10. TypeOK'
  <2>1. p.blob.groups \in [Groups -> 0 .. Own]
    BY ReplicationAssumption, <1>3 DEF AuthDB, Revs, Own, NoGroup
  <2>2. replica' \in [Replicas -> [linked : BOOLEAN, rev : AnyRev \cup {Own},
                                   groups : [Groups -> 0 .. Own]]]
    BY <1>1, <1>3, <1>5, <2>1 DEF Inv, TypeOK
  <2> QED
    BY <1>0, <1>7, <1>8, <1>9, <2>2 DEF Inv, TypeOK, HistoryStays, Moves
<1>11. PrimaryIsOfHistory' /\ SnapshotsAreOfHistory'
  BY <1>0 DEF Inv, PrimaryIsOfHistory, SnapshotsAreOfHistory, IsOfHistory, HistoryStays
<1>12. BlobsAreOfHistory'
  BY <1>0, <1>8, <1>9, GroupsOfStay DEF Inv, BlobsAreOfHistory, Moves
<1>13. HasGroupsOf'
  BY <1>0, <1>1, <1>2, <1>3, <1>6, GroupsOfStay DEF Inv, HasGroupsOf, HistoryStays
<1>14. DiffIsOfBase'
  BY <1>0, <1>6, <1>8, <1>9, GroupsOfStay DEF Inv, TypeOK, PushType, DiffIsOfBase, HistoryStays, Moves
<1>15. WasReached'
  <2>1. \A r \in Replicas : known[r].rev \in Nat /\ known'[r] = known[r]
    BY <1>0 DEF Inv, TypeOK, AuthReplicaState, AnyRev
  <2>2. \A r \in Replicas : known[r].rev <= reached'[r]
    BY <1>7, <2>1 DEF Inv, WasReached
  <2>3. \A r \in Replicas : replica'[r].linked => replica'[r].rev <= reached'[r]
    <3>1. SUFFICES ASSUME NEW r \in Replicas, replica'[r].linked
                   PROVE  replica'[r].rev <= reached'[r]
      OBVIOUS
    <3>2. CASE r = p.to
      BY <1>6, <1>7, <3>2
    <3>3. CASE r # p.to
      <4>1. replica'[r] = replica[r] /\ replica[r].linked
        BY <1>6, <3>1, <3>3
      <4>2. replica[r].rev \in Nat /\ replica[r].rev <= reached[r]
        BY <3>1, <4>1 DEF Inv, TypeOK, WasReached, HasGroupsOf, AnyRev
      <4> QED
        BY <1>7, <3>1, <4>1, <4>2
    <3> QED
      BY <3>2, <3>3
  <2>4. \A x \in pushes : x.pc = "done" => x.answer <= reached'[x.to]
    BY <1>7 DEF Inv, TypeOK, PushType, WasReached, AnyRev
  <2> QED
    BY <1>7, <1>8, <1>9, <2>1, <2>2, <2>3, <2>4 DEF WasReached, Moves
<1> QED BY <1>10, <1>11, <1>12, <1>13, <1>14, <1>15 DEF Inv

LEMMA UpdateAuthDBInv ==
  ASSUME Inv, NEW p \in pushes, UpdateAuthDB(p)
  PROVE  Inv'
<1>1. CASE NotChangedSince(p)
  BY <1>1, WriteInv
<1>2. CASE ~NotChangedSince(p)
  <2>0. /\ HistoryStays
        /\ UNCHANGED <<replica, reached, linking, snapshots, known, latest, task, queue, faults, links, refused>>
    BY <1>2 DEF UpdateAuthDB, HistoryStays
  <2>1. /\ p \in PushType /\ p.to \in Replicas /\ p.blob \in Blob /\ 0 \in AnyRev
        /\ p.answer \in AnyRev /\ replica[p.to].linked
    BY ReplicationAssumption DEF Inv, TypeOK, PushType, DiffIsOfBase, AnyRev, UpdateAuthDB
  <2>2. CASE replica[p.to].rev >= p.blob.rev
    <3> DEFINE q == PushAs(p, "done", 0, {}, replica[p.to].rev)
    <3>1. replica[p.to].rev \in AnyRev /\ replica[p.to].rev <= reached[p.to]
      BY <2>1 DEF Inv, TypeOK, HasGroupsOf, WasReached
    <3>2. Moves(p, q)
      BY <1>2, <2>1, <2>2, <3>1, AnswerMoves DEF UpdateAuthDB
    <3>3. /\ q \in PushType /\ q.to = p.to /\ q.blob = p.blob /\ q.pc = "done"
          /\ q.answer = replica[p.to].rev
      BY <2>1, <3>1, PushAsIsPush
    <3> HIDE DEF q
    <3> QED
      BY <2>0, <3>1, <3>2, <3>3, ReadsInv
  <2>3. CASE ~(replica[p.to].rev >= p.blob.rev)
    <3> DEFINE q == PushAs(p, "sent", 0, {}, p.answer)
    <3>1. Moves(p, q)
      BY <1>2, <2>1, <2>3 DEF UpdateAuthDB, Becomes, Moves, PushAs, PushType
    <3>2. q \in PushType /\ q.to = p.to /\ q.blob = p.blob /\ q.pc = "sent"
      BY <2>1, PushAsIsPush
    <3> HIDE DEF q
    <3> QED
      BY <2>0, <3>1, <3>2, ReadsInv
  <2> QED
    BY <2>2, <2>3
<1> QED BY <1>1, <1>2

-----------------------------------------------------------------------------
LEMMA NextInv == Inv /\ [Next]_vars => Inv'
<1> SUFFICES ASSUME Inv, [Next]_vars PROVE Inv'
  OBVIOUS
<1>1. ASSUME NEW g \in Groups, ChangeAuthDB(g) PROVE Inv'
  BY <1>1, ChangeAuthDBInv
<1>2. ASSUME NEW r \in Replicas, LinkRegister(r) \/ Link(r) \/ LinkFails(r) PROVE Inv'
  BY <1>2, LinkRegisterInv, LinkTriggerInv, BecomeReplicaInv, LinkFailsInv DEF Link
<1>3. ASSUME NEW w \in Workers, Primary(w) PROVE Inv'
  BY <1>3, TakeTaskInv, PackAuthDBInv, InsertSnapshotInv, UpdateLatestInv, PushToReplicasInv, TaskEndsInv,
     PushAnsweredInv DEF Primary
<1>4. ASSUME NEW p \in pushes, Replica(p) PROVE Inv'
  BY <1>4, CheckRevisionInv, CompareGroupsInv, UpdateAuthDBInv DEF Replica
<1>5. ASSUME NEW w \in Workers, TaskDies(w) \/ \E p \in pushes : PushFails(w, p) PROVE Inv'
  BY <1>5, TaskDiesInv, PushFailsInv
<1>6. CASE UNCHANGED vars
  BY <1>6, StutterInv
<1> QED BY <1>1, <1>2, <1>3, <1>4, <1>5, <1>6 DEF Next, Faults

\* Every step of the primary, of a replica and of what may fail keeps the
\* AuthDBs, the snapshots, the tasks and the pushes coherent.
THEOREM InvHolds == Spec => []Inv
  BY InitInv, NextInv, PTL DEF Spec

\* Every variable has its type.
THEOREM TypeCorrect == Spec => []TypeOK
<1>1. Inv => TypeOK
  BY DEF Inv
<1> QED BY <1>1, InvHolds, PTL

\* A replica that states a revision of the primary has the AuthDB of that
\* revision, whatever pushes do to each other.
THEOREM ReplicaHasItsRevisionHolds == Spec => []ReplicaHasItsRevision
<1>1. Inv => ReplicaHasItsRevision
  BY DEF Inv, HasGroupsOf, GroupsOf, ReplicaHasItsRevision
<1> QED BY <1>1, InvHolds, PTL

\* The latest snapshot is stored, and a snapshot is the AuthDB of its revision.
THEOREM LatestIsStoredHolds == Spec => []LatestIsStored
<1>1. Inv => LatestIsStored
  BY DEF Inv, SnapshotsAreOfHistory, LatestIsStored
<1> QED BY <1>1, InvHolds, PTL

\* The primary never believes that a replica got further than it did.
THEOREM KnownWasReachedHolds == Spec => []KnownWasReached
<1>1. Inv => KnownWasReached
  BY DEF Inv, WasReached, KnownWasReached
<1> QED BY <1>1, InvHolds, PTL
=============================================================================
