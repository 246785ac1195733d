-------------------------- MODULE AuthReplication --------------------------
(***************************************************************************)
(* The auth service (the primary) pushes its AuthDB to the services that   *)
(* are linked to it (the replicas).                                        *)
(*                                                                         *)
(* A change of the AuthDB, one transaction, increments its revision and    *)
(* adds a task to the replication queue.  A task packs the AuthDB, stores  *)
(* it as a snapshot and pushes it to every replica that it believes to be  *)
(* behind.  A push is handled by the replica in three steps, and goes on   *)
(* there when the task that sent it stops waiting for it.                  *)
(*                                                                         *)
(* An AuthDB is abstracted to its revision and, for each group, to the     *)
(* revision that wrote the group.                                          *)
(***************************************************************************)
EXTENDS Naturals

CONSTANTS
    Replicas,    \* services that are, or may become, replicas
    Groups,      \* the entities of an AuthDB
    OwnGroups,   \* those that a standalone service has, and the primary has not
    Workers,     \* tasks of the replication queue that may run at a time
    NoWorker,
    MaxRev,      \* bound: revisions of the AuthDB
    MaxLinks,    \* bound: how many times a service asks to be linked
    MaxFaults    \* bound: lost pushes, answers and links, tasks that die

ASSUME ReplicationAssumption ==
    /\ OwnGroups \subseteq Groups
    /\ NoWorker \notin Workers
    /\ MaxRev \in Nat \ {0} /\ MaxLinks \in Nat /\ MaxFaults \in Nat

VARIABLES
    primary,    \* the AuthDB of the primary
    snapshots,  \* AuthDBSnapshot: by revision, the AuthDBs that were stored
    latest,     \* AuthDBSnapshotLatest
    known,      \* AuthReplicaState: what the primary knows of a replica
    replica,    \* the AuthDB of each service, and whether it is a replica
    linking,    \* become_replica(): where a request to be linked is
    queue,      \* the replication queue: how many tasks there are of a revision
    task,       \* update_replicas_task(): the tasks that run
    pushes,     \* pushes that were sent and are not finished
    faults, links,
    history,    \* history: the AuthDB of each revision
    reached,    \* history: the newest revision each replica has had
    refused     \* history: the newest task, by revision, that each replica refused

vars == <<primary, snapshots, latest, known, replica, linking, queue, task,
          pushes, faults, links, history, reached, refused>>

Revs == 1 .. MaxRev
NoGroup == 0         \* a group that is not there
Own == MaxRev + 1    \* revision and groups of a service that was standalone

AuthDB == [Groups -> Revs \cup {NoGroup}]
Blob == [rev : Revs, groups : AuthDB]
AnyRev == 0 .. MaxRev

PushStatus == {"none", "success", "transient", "fatal"}
AuthReplicaState == [registered : BOOLEAN, rev : AnyRev, status : PushStatus]
NoReplicaState == [registered |-> FALSE, rev |-> 0, status |-> "none"]
NewReplicaState == [registered |-> TRUE, rev |-> 0, status |-> "none"]

\* seen: the revision of each replica that was found to be behind;
\* waiting: those whose push is not finished.
NoBlob == [rev |-> 0, groups |-> [g \in Groups |-> NoGroup]]
Idle == [pc |-> "idle", rev |-> 0, blob |-> NoBlob, seen |-> [r \in Replicas |-> 0],
         waiting |-> {}, retry |-> {}]

\* answer.rev: the revision that the replica reports, 0 for a fatal error.
Sent(w, r, blob) ==
    [from |-> w, to |-> r, blob |-> blob, pc |-> "sent", base |-> 0, diff |-> {},
     answer |-> 0]

Init ==
    LET db == [g \in Groups |-> 1] IN
        /\ primary = [rev |-> 1, groups |-> db]
        /\ history = [v \in {1} |-> db]
        /\ snapshots = [v \in {} |-> db]
        /\ latest = 0
        /\ known = [r \in Replicas |-> NoReplicaState]
        /\ replica = [r \in Replicas |->
                        [linked |-> FALSE, rev |-> Own,
                         groups |-> [g \in Groups |-> IF g \in OwnGroups THEN Own ELSE 1]]]
        /\ linking = [r \in Replicas |-> "idle"]
        /\ queue = [v \in Revs |-> IF v = 1 THEN 1 ELSE 0]
        /\ task = [w \in Workers |-> Idle]
        /\ pushes = {}
        /\ faults = 0
        /\ links = [r \in Replicas |-> 0]
        /\ reached = [r \in Replicas |-> 0]
        /\ refused = [r \in Replicas |-> 0]

Enqueue(rev) == queue' = [queue EXCEPT ![rev] = @ + 1]
Newest(a, b) == IF a < b THEN b ELSE a
Fault == faults < MaxFaults /\ faults' = faults + 1

-----------------------------------------------------------------------------
(* The primary: changes and links.                                         *)

\* A group is written or deleted, the revision incremented and a task added,
\* in one transaction.
ChangeAuthDB(g) ==
    /\ primary.rev < MaxRev
    /\ LET rev == primary.rev + 1 IN
       \E v \in {rev} \cup (IF primary.groups[g] = NoGroup THEN {} ELSE {NoGroup}) :
        /\ primary' = [rev |-> rev, groups |-> [primary.groups EXCEPT ![g] = v]]
        /\ history' = [x \in 1 .. rev |-> IF x = rev THEN primary'.groups ELSE history[x]]
        /\ Enqueue(rev)
    /\ UNCHANGED <<snapshots, latest, known, replica, linking, task, pushes, faults, links, reached, refused>>

\* become_replica() sends the ticket, register_replica() stores the replica
\* or resets what was known of it.
LinkRegister(r) ==
    /\ linking[r] = "idle" /\ ~replica[r].linked /\ links[r] < MaxLinks
    /\ linking' = [linking EXCEPT ![r] = "registered"]
    /\ links' = [links EXCEPT ![r] = @ + 1]
    /\ known' = [known EXCEPT ![r] = NewReplicaState]
    /\ refused' = [refused EXCEPT ![r] = 0]
    /\ UNCHANGED <<primary, snapshots, latest, replica, queue, task, pushes, faults, history, reached>>

\* register_replica() triggers a replication of the present revision.
LinkTrigger(r) ==
    /\ linking[r] = "registered"
    /\ linking' = [linking EXCEPT ![r] = "accepted"]
    /\ Enqueue(primary.rev)
    /\ UNCHANGED <<primary, snapshots, latest, known, replica, task, pushes, faults, links, history, reached, refused>>

\* The answer reaches the service, which becomes a replica.
BecomeReplica(r) ==
    /\ linking[r] = "accepted"
    /\ linking' = [linking EXCEPT ![r] = "idle"]
    /\ replica' = [replica EXCEPT ![r].linked = TRUE, ![r].rev = 0]
    /\ UNCHANGED <<primary, snapshots, latest, known, queue, task, pushes, faults, links, history, reached, refused>>

\* The trigger fails or the answer is lost: the service stays standalone,
\* the primary keeps the replica.
LinkFails(r) ==
    /\ linking[r] # "idle"
    /\ Fault
    /\ linking' = [linking EXCEPT ![r] = "idle"]
    /\ UNCHANGED <<primary, snapshots, latest, known, replica, queue, task, pushes, links, history, reached, refused>>

-----------------------------------------------------------------------------
(* The primary: update_replicas_task().                                    *)

\* Mutant: a task is skipped when a snapshot of its revision is stored.
IsStored(rev) == latest >= rev

IsStaleTask(rev) == rev # primary.rev

\* A task of an older revision is skipped.
TakeTask(w) ==
    /\ task[w].pc = "idle"
    /\ \E rev \in Revs :
        /\ queue[rev] > 0
        /\ queue' = [queue EXCEPT ![rev] = @ - 1]
        /\ task' = IF IsStaleTask(rev) THEN task
                   ELSE [task EXCEPT ![w].pc = "pack", ![w].rev = rev]
    /\ UNCHANGED <<primary, snapshots, latest, known, replica, linking, pushes, faults, links, history, reached, refused>>

\* The AuthDB and its revision are read in one transaction: they may be newer
\* than the task.
PackedBlob(rev) == primary

PackAuthDB(w) ==
    /\ task[w].pc = "pack"
    /\ task' = [task EXCEPT ![w].pc = "insert", ![w].blob = PackedBlob(task[w].rev)]
    /\ UNCHANGED <<primary, snapshots, latest, known, replica, linking, queue, pushes, faults, links, history, reached, refused>>

InsertSnapshot(w) ==
    /\ task[w].pc = "insert"
    /\ task' = [task EXCEPT ![w].pc = "latest"]
    /\ LET blob == task[w].blob IN
       snapshots' = IF blob.rev \in DOMAIN snapshots THEN snapshots
                    ELSE [v \in DOMAIN snapshots \cup {blob.rev} |->
                             IF v = blob.rev THEN blob.groups ELSE snapshots[v]]
    /\ UNCHANGED <<primary, latest, known, replica, linking, queue, pushes, faults, links, history, reached, refused>>

NewerPointer(rev) == Newest(latest, rev)

UpdateLatest(w) ==
    /\ task[w].pc = "latest"
    /\ task' = [task EXCEPT ![w].pc = "query"]
    /\ latest' = NewerPointer(task[w].blob.rev)
    /\ UNCHANGED <<primary, snapshots, known, replica, linking, queue, pushes, faults, links, history, reached, refused>>

\* The replicas that are behind, by the revision of the task.
StaleReplicas(rev) == {r \in Replicas : known[r].registered /\ known[r].rev < rev}

PushToReplicas(w) ==
    /\ task[w].pc = "query"
    /\ LET stale == StaleReplicas(task[w].rev)
           seen == [r \in Replicas |-> IF r \in stale THEN known[r].rev ELSE 0] IN
        /\ task' = IF stale = {} THEN [task EXCEPT ![w] = Idle]
                   ELSE [task EXCEPT ![w].pc = "push", ![w].seen = seen, ![w].waiting = stale]
        /\ pushes' = pushes \cup {Sent(w, r, task[w].blob) : r \in stale}
    /\ UNCHANGED <<primary, snapshots, latest, known, replica, linking, queue, faults, links, history, reached, refused>>

\* _update_state_on_success(), _update_state_on_fail()
StateOnSuccess(k, rev) ==
    IF k.rev >= rev THEN k ELSE [k EXCEPT !.rev = rev, !.status = "success"]

StateOnFail(k, seen, status) ==
    IF k.rev > seen THEN k ELSE [k EXCEPT !.status = status]

\* Mutant: the status of the answer is not looked at.
StateOnAnyAnswer(k, seen, p) == StateOnSuccess(k, p.blob.rev)

StateOnAnswer(k, seen, p) ==
    IF p.answer = 0 THEN StateOnFail(k, seen, "fatal") ELSE StateOnSuccess(k, p.answer)

\* The outcome of a push is stored at once, the list of those to retry kept.
Collect(w, r, newState, again) ==
    /\ known' = [known EXCEPT ![r] = newState]
    /\ task' = [task EXCEPT ![w].waiting = @ \ {r},
                            ![w].retry = IF again THEN @ \cup {r} ELSE @]

PushAnswered(w, p) ==
    /\ p \in pushes /\ p.from = w /\ p.pc = "done"
    /\ pushes' = pushes \ {p}
    /\ Collect(w, p.to, StateOnAnswer(known[p.to], task[w].seen[p.to], p), FALSE)
    /\ refused' = [refused EXCEPT ![p.to] = IF p.answer = 0 THEN Newest(@, task[w].rev) ELSE @]
    /\ UNCHANGED <<primary, snapshots, latest, replica, linking, queue, faults, links, history, reached>>

\* A transient error: the push is lost before or after it is handled, or is
\* still going on at the replica.
PushFails(w, p) ==
    /\ p \in pushes /\ p.from = w
    /\ Fault
    /\ \/ pushes' = pushes \ {p}
       \/ p.pc # "done" /\ pushes' = (pushes \ {p}) \cup {[p EXCEPT !.from = NoWorker]}
    /\ LET k == StateOnFail(known[p.to], task[w].seen[p.to], "transient") IN
       Collect(w, p.to, k, k.rev <= task[w].rev)
    /\ UNCHANGED <<primary, snapshots, latest, replica, linking, queue, links, history, reached, refused>>

\* A task with something to retry fails, and the queue runs it again.
TaskEnds(w) ==
    /\ task[w].pc = "push" /\ task[w].waiting = {}
    /\ task' = [task EXCEPT ![w] = Idle]
    /\ IF task[w].retry # {} THEN Enqueue(task[w].rev) ELSE UNCHANGED queue
    /\ UNCHANGED <<primary, snapshots, latest, known, replica, linking, pushes, faults, links, history, reached, refused>>

\* A task is killed, or meets a datastore error (the handler of that error
\* calls retry.add() of a list, and so raises another one): the queue runs it
\* again.  Its pushes go on.
TaskDies(w) ==
    /\ task[w].pc # "idle"
    /\ Fault
    /\ Enqueue(task[w].rev)
    /\ task' = [task EXCEPT ![w] = Idle]
    /\ pushes' = {p \in pushes : p.from # w}
                 \cup {[p EXCEPT !.from = NoWorker] : p \in {q \in pushes : q.from = w /\ q.pc # "done"}}
    /\ UNCHANGED <<primary, snapshots, latest, known, replica, linking, links, history, reached, refused>>

-----------------------------------------------------------------------------
(* The replica: ReplicationHandler, push_auth_db(), replace_auth_db().     *)

Becomes(p, q) == pushes' = (pushes \ {p}) \cup {q}

\* The answer of a push for which nobody waits is lost.
Answer(p, answer) ==
    IF p.from = NoWorker THEN pushes' = pushes \ {p}
    ELSE Becomes(p, [p EXCEPT !.pc = "done", !.base = 0, !.diff = {}, !.answer = answer])

\* The service is a replica, and behind.
CheckRevision(p) ==
    /\ p \in pushes /\ p.pc = "sent"
    /\ LET here == replica[p.to] IN
       IF ~here.linked THEN Answer(p, 0)
       ELSE IF here.rev >= p.blob.rev THEN Answer(p, here.rev)
       ELSE Becomes(p, [p EXCEPT !.pc = "checked"])
    /\ UNCHANGED <<primary, snapshots, latest, known, replica, linking, queue, task, faults, links, history, reached, refused>>

\* The groups to write or to delete, by the AuthDB that is there and whose
\* revision is kept.
CompareGroups(p) ==
    /\ p \in pushes /\ p.pc = "checked"
    /\ LET here == replica[p.to] IN
       Becomes(p, [p EXCEPT !.pc = "compared", !.base = here.rev,
                            !.diff = {g \in Groups : here.groups[g] # p.blob.groups[g]}])
    /\ UNCHANGED <<primary, snapshots, latest, known, replica, linking, queue, task, faults, links, history, reached, refused>>

\* Mutant: what is there now is not compared with what was there.
Always(p) == TRUE

\* The revision that the comparison was made with is still there.
NotChangedSince(p) == replica[p.to].rev = p.base

\* Otherwise, start again unless what is there is recent enough.
UpdateAuthDB(p) ==
    /\ p \in pushes /\ p.pc = "compared"
    /\ LET here == replica[p.to] IN
       IF NotChangedSince(p)
       THEN /\ replica' = [replica EXCEPT ![p.to] =
                   [linked |-> here.linked, rev |-> p.blob.rev,
                    groups |-> [g \in Groups |->
                        IF g \in p.diff THEN p.blob.groups[g] ELSE here.groups[g]]]]
            /\ reached' = [reached EXCEPT ![p.to] = Newest(@, p.blob.rev)]
            /\ Answer(p, p.blob.rev)
       ELSE /\ IF here.rev >= p.blob.rev THEN Answer(p, here.rev)
               ELSE Becomes(p, [p EXCEPT !.pc = "sent", !.base = 0, !.diff = {}])
            /\ UNCHANGED <<replica, reached>>
    /\ UNCHANGED <<primary, snapshots, latest, known, linking, queue, task, faults, links, history, refused>>

-----------------------------------------------------------------------------
Primary(w) ==
    \/ TakeTask(w) \/ PackAuthDB(w) \/ InsertSnapshot(w) \/ UpdateLatest(w)
    \/ PushToReplicas(w) \/ TaskEnds(w)
    \/ \E p \in pushes : PushAnswered(w, p)
Replica(p) == CheckRevision(p) \/ CompareGroups(p) \/ UpdateAuthDB(p)
Link(r) == LinkTrigger(r) \/ BecomeReplica(r)
Faults ==
    \/ \E w \in Workers : TaskDies(w) \/ \E p \in pushes : PushFails(w, p)
    \/ \E r \in Replicas : LinkFails(r)

Next ==
    \/ \E g \in Groups : ChangeAuthDB(g)
    \/ \E r \in Replicas : LinkRegister(r) \/ Link(r)
    \/ \E w \in Workers : Primary(w)
    \/ \E p \in pushes : Replica(p)
    \/ Faults

Spec == Init /\ [][Next]_vars

\* The queue runs its tasks, replicas and links that are under way go on.
\* Changes, requests to be linked and faults need not happen.
Fairness ==
    /\ \A w \in Workers : WF_vars(Primary(w))
    /\ WF_vars(\E p \in pushes : Replica(p))
    /\ \A r \in Replicas : WF_vars(Link(r))
FairSpec == Spec /\ Fairness

-----------------------------------------------------------------------------
(* Properties.                                                             *)

TaskType ==
    [pc : {"idle", "pack", "insert", "latest", "query", "push"}, rev : AnyRev,
     blob : [rev : AnyRev, groups : AuthDB], seen : [Replicas -> AnyRev],
     waiting : SUBSET Replicas, retry : SUBSET Replicas]

PushType ==
    [from : Workers \cup {NoWorker}, to : Replicas, blob : Blob,
     pc : {"sent", "checked", "compared", "done"},
     base : AnyRev, diff : SUBSET Groups, answer : AnyRev]

\* Every variable has the type of the code's entity or field.
TypeOK ==
    /\ primary \in Blob
    /\ history \in [1 .. primary.rev -> AuthDB]
    /\ DOMAIN snapshots \subseteq Revs
    /\ snapshots \in [DOMAIN snapshots -> AuthDB]
    /\ latest \in AnyRev
    /\ known \in [Replicas -> AuthReplicaState]
    /\ replica \in [Replicas -> [linked : BOOLEAN, rev : AnyRev \cup {Own},
                                 groups : [Groups -> 0 .. Own]]]
    /\ linking \in [Replicas -> {"idle", "registered", "accepted"}]
    /\ queue \in [Revs -> Nat]
    /\ task \in [Workers -> TaskType]
    /\ pushes \subseteq PushType
    /\ faults \in 0 .. MaxFaults
    /\ links \in [Replicas -> 0 .. MaxLinks]
    /\ reached \in [Replicas -> AnyRev] /\ refused \in [Replicas -> AnyRev]

\* A replica that states a revision of the primary has, group by group, the
\* AuthDB of that revision, although pushes overtake each other and each only
\* writes the groups in which it differs from an AuthDB read earlier
\* (replace_auth_db).
ReplicaHasItsRevision ==
    \A r \in Replicas :
        replica[r].rev \in Revs => replica[r].groups = history[replica[r].rev]

\* The pointer to the latest snapshot names one that is stored, and a stored
\* snapshot is the AuthDB of its revision (store_auth_db_snapshot).
LatestIsStored ==
    /\ latest # 0 => latest \in DOMAIN snapshots
    /\ \A v \in DOMAIN snapshots : v <= primary.rev /\ snapshots[v] = history[v]

\* The primary never believes that a replica got further than it ever did
\* (_update_state_on_success).
KnownWasReached == \A r \in Replicas : known[r].rev <= reached[r]

\* When changes stop, the primary has stored the last revision and knows every
\* linked replica to have it, or to have refused it.
Settles ==
    <>[](/\ latest = primary.rev
         /\ \A r \in Replicas : replica[r].linked =>
                known[r].rev = primary.rev \/ refused[r] = primary.rev)

=============================================================================
