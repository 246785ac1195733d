-------------------------- MODULE GceBackendProofs --------------------------
(***************************************************************************)
(* Proofs of the two safety properties of the GCE backend, for any number  *)
(* of revisions, virtual machines and overlapping tasks.                   *)
(***************************************************************************)
EXTENDS GceBackend, TLAPS

-----------------------------------------------------------------------------
(* The types of what the proofs speak of.                                  *)

Instances == [exists : BOOLEAN, cataloged : BOOLEAN, leased : BOOLEAN,
              pending : BOOLEAN, deleted : BOOLEAN, old : BOOLEAN]

VmStates == {"none", "up", "going", "gone", "lost"}

IsJob(j) == \E do, on, step, list, size : j = Task(do, on, step, list, size)

AreJobs(f) == f = [w \in Workers |-> f[w]] /\ \A w \in Workers : IsJob(f[w])

TypeInv ==
    /\ instance \in [Vms -> Instances]
    /\ vm \in [Vms -> VmStates]
    /\ catalog \in [Vms -> {"absent", "free", "leased"}]
    /\ until \in [Vms -> SUBSET Workers]
    /\ AreJobs(job)

-----------------------------------------------------------------------------
(* What becomes of a task.                                                 *)

\* Only the task of w changes.
OnlyJob(w) == AreJobs(job') /\ \A x \in Workers \ {w} : job'[x] = job[x]

LEMMA TaskIsJob ==
    ASSUME NEW do, NEW on, NEW step, NEW list, NEW size, NEW j, j = Task(do, on, step, list, size)
    PROVE  IsJob(j) /\ j.do = do /\ j.on = on /\ j.step = step /\ j.list = list
BY DEF IsJob, Task

LEMMA IdleIsJob == IsJob(Idle) /\ Idle.do = "none" /\ Idle.step = "idle" /\ Idle.list = {}
BY TaskIsJob DEF Idle

LEMMA StepOfJob ==
    ASSUME NEW j, IsJob(j), NEW s, NEW k, k = [j EXCEPT !.step = s]
    PROVE  IsJob(k) /\ k.do = j.do /\ k.on = j.on /\ k.list = j.list /\ k.step = s
<1>1. PICK d, o, t, l, n : j = Task(d, o, t, l, n)
    BY DEF IsJob
<1>2. k = Task(d, o, s, l, n)
    BY <1>1 DEF Task
<1>3. IsJob(k)
    BY <1>2 DEF IsJob
<1>4. QED BY <1>1, <1>2, <1>3 DEF Task

LEMMA UpdateJob ==
    ASSUME AreJobs(job), NEW w \in Workers, NEW j, IsJob(j), job' = [job EXCEPT ![w] = j]
    PROVE  OnlyJob(w) /\ job'[w] = j
BY DEF AreJobs, OnlyJob

LEMMA NewTask ==
    ASSUME AreJobs(job), NEW w \in Workers, NEW do, NEW on, NEW step, NEW list, NEW size,
           job' = [job EXCEPT ![w] = Task(do, on, step, list, size)]
    PROVE  OnlyJob(w)
<1>1. IsJob(Task(do, on, step, list, size))
    BY DEF IsJob
<1>2. QED BY <1>1, UpdateJob

LEMMA Becoming ==
    ASSUME AreJobs(job), NEW w \in Workers, NEW s, Becomes(w, s)
    PROVE  /\ OnlyJob(w)
           /\ job'[w].do = job[w].do /\ job'[w].on = job[w].on
           /\ job'[w].list = job[w].list /\ job'[w].step = s
<1> DEFINE k == [job[w] EXCEPT !.step = s]
<1>1. IsJob(job[w])
    BY DEF AreJobs
<1>2. job' = [job EXCEPT ![w] = k]
    BY DEF Becomes
<1>3. IsJob(k) /\ k.do = job[w].do /\ k.on = job[w].on /\ k.list = job[w].list /\ k.step = s
    BY <1>1, StepOfJob
<1> HIDE DEF k
<1>4. OnlyJob(w) /\ job'[w] = k
    BY <1>2, <1>3, UpdateJob
<1>5. QED BY <1>3, <1>4

LEMMA Ending ==
    ASSUME AreJobs(job), until \in [Vms -> SUBSET Workers], NEW w \in Workers, Ends(w)
    PROVE  /\ OnlyJob(w) /\ job'[w] = Idle
           /\ until' \in [Vms -> SUBSET Workers]
           /\ \A v \in Vms : until'[v] = until[v] \ {w}
<1>1. job' = [job EXCEPT ![w] = Idle] /\ until' = [u \in Vms |-> until[u] \ {w}]
    BY DEF Ends
<1>2. OnlyJob(w) /\ job'[w] = Idle
    BY <1>1, IdleIsJob, UpdateJob
<1>3. QED BY <1>1, <1>2

\* An instance is put.
IsPut(ws, v, e) ==
    /\ instance' \in [Vms -> Instances]
    /\ until' \in [Vms -> SUBSET Workers]
    /\ \A u \in Vms \ {v} : instance'[u] = instance[u] /\ until'[u] = until[u] \ ws
    /\ instance'[v].exists = e.exists /\ instance'[v].deleted = e.deleted
    /\ instance'[v].pending = e.pending /\ instance'[v].old = FALSE
    /\ e.deleted => until'[v] = Running \ ws

LEMMA Putting ==
    ASSUME TypeInv, NEW v \in Vms, NEW ws, NEW e \in Instances, Put(ws, v, e)
    PROVE  IsPut(ws, v, e)
<1> DEFINE k == [e EXCEPT !.old = FALSE]
<1>1. k \in Instances /\ k.exists = e.exists /\ k.deleted = e.deleted
      /\ k.pending = e.pending /\ k.old = FALSE
    BY DEF Instances
<1>2. instance' = [instance EXCEPT ![v] = k]
    BY DEF Put
<1> HIDE DEF k
<1>3. instance' \in [Vms -> Instances] /\ instance'[v] = k
      /\ \A u \in Vms \ {v} : instance'[u] = instance[u]
    BY <1>1, <1>2 DEF TypeInv
<1>4. until' = [u \in Vms |-> IF u # v THEN until[u] \ ws
                              ELSE IF e.deleted THEN Running \ ws ELSE {}]
    BY DEF Put
<1>5. Running \subseteq Workers
    BY DEF Running
<1>6. until' \in [Vms -> SUBSET Workers]
    BY <1>4, <1>5 DEF TypeInv
<1>7. QED BY <1>1, <1>3, <1>4, <1>6 DEF IsPut

-----------------------------------------------------------------------------
(* The inductive invariant.                                                *)

\* A task has a list of instances between its call and its transaction only, and
\* is about an instance when its kind says so.
JobInv(j) ==
    /\ j.list # {} => j.do = "fetch" /\ j.step = "store"
    /\ j.step = "mark" => j.do \in {"remove", "update"}
    /\ j.do \in {"catalog", "remove", "update", "cleanup"} => j.on \in Vms

Lists(w, v) == v \in job[w].list
Marks(w, v) == job[w].step = "mark" /\ job[w].on = v

\* What is known of an instance was there.
WasThere(v) ==
    instance[v].exists \/ v \in cleaned \/ (\E w \in Workers : Lists(w, v)) => vm[v] # "none"

DeletedIsGone(v) ==
    (instance[v].exists /\ instance[v].deleted) \/ v \in cleaned => vm[v] \in {"gone", "lost"}

\* The tasks that may still store a list with a deleted instance are waited for.
ListersAreKnown(v) ==
    instance[v].exists /\ instance[v].deleted => \A w \in Workers : Lists(w, v) => w \in until[v]

OldIsUnlisted(v) == instance[v].old => until[v] = {}

CleanedIsAway(v) ==
    v \in cleaned => ~instance[v].exists /\ \A w \in Workers : ~Lists(w, v)

\* A virtual machine only goes when it is pending, or was crossed.
DownIsPending(v) ==
    vm[v] \in {"going", "gone"} =>
        v \in crossed \/ v \in cleaned \/ (instance[v].exists /\ instance[v].pending)

\* What is pending, or about to be, has left the catalog.
PendingIsRemoved(v) ==
    (instance[v].exists /\ instance[v].pending) \/ (\E w \in Workers : Marks(w, v)) =>
        catalog[v] = "absent" \/ v \in crossed

Offered(v) == catalog[v] # "absent" => vm[v] \in {"up", "lost"} \/ v \in crossed

VmInv(v) ==
    /\ WasThere(v) /\ DeletedIsGone(v) /\ ListersAreKnown(v) /\ OldIsUnlisted(v)
    /\ CleanedIsAway(v) /\ DownIsPending(v) /\ PendingIsRemoved(v) /\ Offered(v)

Inv ==
    /\ TypeInv
    /\ \A w \in Workers : JobInv(job[w])
    /\ \A v \in Vms : VmInv(v)

\* The initial states.
LEMMA InitIsInv == Init => Inv
<1> SUFFICES ASSUME Init PROVE Inv OBVIOUS
<1>1. NoInstance \in Instances /\ ~NoInstance.exists /\ ~NoInstance.old
    BY DEF NoInstance, Instances
<1>2. AreJobs(job) /\ \A w \in Workers : job[w] = Idle
    BY IdleIsJob DEF Init, AreJobs
<1>3. TypeInv
    BY <1>1, <1>2 DEF Init, TypeInv, VmStates
<1>4. \A w \in Workers : JobInv(job[w])
    BY <1>2, IdleIsJob DEF JobInv
<1>5. \A v \in Vms : instance[v] = NoInstance /\ vm[v] = "none" /\ catalog[v] = "absent"
                      /\ v \notin cleaned
    BY DEF Init
<1>6. \A v \in Vms, w \in Workers : ~Lists(w, v) /\ ~Marks(w, v)
    BY <1>2, IdleIsJob DEF Lists, Marks
<1>7. ASSUME NEW v \in Vms PROVE VmInv(v)
    BY <1>1, <1>5, <1>6 DEF VmInv, WasThere, DeletedIsGone, ListersAreKnown, OldIsUnlisted,
        CleanedIsAway, DownIsPending, PendingIsRemoved, Offered
<1>8. QED BY <1>3, <1>4, <1>7 DEF Inv

\* What the task of w may become.
Proceeds(w) ==
    /\ OnlyJob(w) /\ job'[w].list = {} /\ JobInv(job'[w])
    /\ until' \in [Vms -> SUBSET Workers]
    /\ \A v \in Vms : until'[v] = until[v] \/ until'[v] = until[v] \ {w}

\* Virtual machines may be taken down by a task that does not know of them.
TakesDown ==
    /\ vm' \in [Vms -> VmStates] /\ crossed \subseteq crossed'
    /\ \A v \in Vms : vm'[v] = vm[v] \/ (vm[v] = "up" /\ vm'[v] = "going" /\ v \in crossed')

\* Machines may leave the catalog.
Withdraws ==
    /\ catalog' \in [Vms -> {"absent", "free", "leased"}]
    /\ \A v \in Vms : catalog'[v] \in {catalog[v], "absent"}

\* A task goes on or ends, and nothing else happens.
LEMMA QuietStep ==
    ASSUME Inv, NEW w \in Workers, Proceeds(w), TakesDown, Withdraws, UNCHANGED <<instance, cleaned>>,
           \A v \in Vms : Marks(w, v)' => catalog'[v] = "absent" \/ v \in crossed'
    PROVE  Inv'
<1> USE DEF Proceeds, TakesDown, Withdraws
<1>1. TypeInv'
    BY DEF Inv, TypeInv, OnlyJob
<1>2. ASSUME NEW x \in Workers PROVE JobInv(job'[x])
    BY DEF Inv, OnlyJob
<1>3. \A v \in Vms, x \in Workers : Lists(x, v)' => Lists(x, v) /\ x # w
    BY DEF Lists, OnlyJob
<1>4. \A v \in Vms, x \in Workers : Marks(x, v)' => Marks(x, v) \/ x = w
    BY DEF Marks, OnlyJob
<1>5. ASSUME NEW v \in Vms PROVE VmInv(v)'
    <2>1. VmInv(v)
        BY DEF Inv
    <2>2. WasThere(v)' /\ DeletedIsGone(v)' /\ CleanedIsAway(v)' /\ DownIsPending(v)' /\ Offered(v)'
        BY <1>3, <2>1 DEF VmInv, WasThere, DeletedIsGone, CleanedIsAway, DownIsPending, Offered
    <2>3. ListersAreKnown(v)' /\ OldIsUnlisted(v)'
        BY <1>3, <2>1 DEF VmInv, ListersAreKnown, OldIsUnlisted
    <2>4. PendingIsRemoved(v)'
        BY <1>4, <2>1 DEF VmInv, PendingIsRemoved
    <2>5. QED BY <2>2, <2>3, <2>4 DEF VmInv
<1>6. QED BY <1>1, <1>2, <1>5 DEF Inv

LEMMA TaskStep ==
    ASSUME Inv, NEW w \in Workers, Proceeds(w), UNCHANGED <<instance, vm, catalog, cleaned, crossed>>,
           \A v \in Vms : Marks(w, v)' => catalog[v] = "absent" \/ v \in crossed
    PROVE  Inv'
<1>1. TakesDown /\ Withdraws
    BY DEF TakesDown, Withdraws, Inv, TypeInv
<1>2. QED BY <1>1, QuietStep

LEMMA EndingIsInv ==
    ASSUME Inv, NEW w \in Workers, Ends(w), UNCHANGED <<instance, vm, catalog, cleaned, crossed>>
    PROVE  Inv'
<1>1. AreJobs(job) /\ until \in [Vms -> SUBSET Workers]
    BY DEF Inv, TypeInv
<1>2. OnlyJob(w) /\ job'[w] = Idle /\ until' \in [Vms -> SUBSET Workers]
      /\ \A v \in Vms : until'[v] = until[v] \ {w}
    BY <1>1, Ending
<1>3. job'[w].list = {} /\ JobInv(job'[w]) /\ \A v \in Vms : ~Marks(w, v)'
    BY <1>2, IdleIsJob DEF JobInv, Marks
<1>4. QED BY <1>2, <1>3, TaskStep DEF Proceeds

LEMMA BecomingIsInv ==
    ASSUME Inv, NEW w \in Workers, job[w].do # "fetch", NEW s, s # "mark", Becomes(w, s),
           UNCHANGED <<until, instance, vm, catalog, cleaned, crossed>>
    PROVE  Inv'
<1>1. AreJobs(job) /\ until \in [Vms -> SUBSET Workers] /\ JobInv(job[w])
    BY DEF Inv, TypeInv
<1>2. OnlyJob(w) /\ job'[w].do = job[w].do /\ job'[w].on = job[w].on
      /\ job'[w].list = job[w].list /\ job'[w].step = s
    BY <1>1, Becoming
<1>3. job'[w].list = {} /\ JobInv(job'[w]) /\ \A v \in Vms : ~Marks(w, v)'
    BY <1>1, <1>2 DEF JobInv, Marks
<1>4. QED BY <1>1, <1>2, <1>3, TaskStep DEF Proceeds

LEMMA GoingOnIsInv ==
    ASSUME Inv, NEW w \in Workers, job[w].do # "fetch", NEW p, GoesOn(w, p, "call"),
           UNCHANGED <<instance, vm, catalog, cleaned, crossed>>
    PROVE  Inv'
<1>1. CASE Ends(w)
    BY <1>1, EndingIsInv
<1>2. CASE Becomes(w, "call") /\ UNCHANGED until
    BY <1>2, BecomingIsInv
<1>3. QED BY <1>1, <1>2 DEF GoesOn

\* The tasks that create and delete instance templates and instance groups write
\* nothing that the invariant speaks of.
LEMMA TemplateStep ==
    ASSUME Inv, NEW w \in Workers, CheckTemplate(w) \/ CallTemplate(w) \/ StoreTemplateUrl(w)
    PROVE  Inv'
<1>1. CASE CheckTemplate(w)
    BY <1>1, GoingOnIsInv DEF CheckTemplate, Is, outside
<1>2. CASE CallTemplate(w)
    <2>1. job[w].do # "fetch" /\ Becomes(w, "store")
          /\ UNCHANGED <<until, instance, vm, catalog, cleaned, crossed>>
        BY <1>2 DEF CallTemplate, Is, entities
    <2>2. QED BY <2>1, BecomingIsInv
<1>3. CASE StoreTemplateUrl(w)
    <2>1. Ends(w) /\ UNCHANGED <<instance, vm, catalog, cleaned, crossed>>
        BY <1>3 DEF StoreTemplateUrl, outside
    <2>2. QED BY <2>1, EndingIsInv
<1>4. QED BY <1>1, <1>2, <1>3

LEMMA ManagerStep ==
    ASSUME Inv, NEW w \in Workers, CheckManager(w) \/ CreateGroup(w) \/ StoreManagerUrl(w)
    PROVE  Inv'
<1>1. CASE CheckManager(w)
    BY <1>1, GoingOnIsInv DEF CheckManager, Is, outside
<1>2. CASE CreateGroup(w)
    <2>1. job[w].do # "fetch" /\ Becomes(w, "store")
          /\ UNCHANGED <<until, instance, vm, catalog, cleaned, crossed>>
        BY <1>2 DEF CreateGroup, Is, entities
    <2>2. QED BY <2>1, BecomingIsInv
<1>3. CASE StoreManagerUrl(w)
    <2>1. Ends(w) /\ UNCHANGED <<instance, vm, catalog, cleaned, crossed>>
        BY <1>3 DEF StoreManagerUrl, outside
    <2>2. QED BY <2>1, EndingIsInv
<1>4. QED BY <1>1, <1>2, <1>3

LEMMA ResizeStep ==
    ASSUME Inv, NEW w \in Workers, CheckSize(w) \/ DeleteGroup(w) \/ ResizeGroup(w)
    PROVE  Inv'
<1> USE DEF Inv, TypeInv
<1>1. CASE CheckSize(w)
    <2>1. CASE Ends(w)
        BY <1>1, <2>1, EndingIsInv DEF CheckSize, outside
    <2>2. ASSUME NEW n, job' = [job EXCEPT ![w] = Task("resize", job[w].on, "call", {}, n)],
                 UNCHANGED until
          PROVE  Inv'
        <3>1. AreJobs(job)
            OBVIOUS
        <3>2. OnlyJob(w) /\ job'[w].do = "resize" /\ job'[w].list = {} /\ job'[w].step = "call"
            <4> HIDE DEF Inv, TypeInv
            <4>1. OnlyJob(w)
                BY <2>2, <3>1, NewTask
            <4>2. job'[w] = Task("resize", job[w].on, "call", {}, n)
                BY <2>2, <3>1 DEF AreJobs
            <4>3. QED BY <4>1, <4>2 DEF Task
        <3>3. job'[w].list = {} /\ JobInv(job'[w]) /\ \A v \in Vms : ~Marks(w, v)'
            BY <3>2 DEF JobInv, Marks
        <3>4. UNCHANGED <<instance, vm, catalog, cleaned, crossed>>
            BY <1>1 DEF CheckSize, outside
        <3>5. QED BY <2>2, <3>2, <3>3, <3>4, TaskStep DEF Proceeds
    <2>3. QED BY <1>1, <2>1, <2>2 DEF CheckSize
<1>2. CASE DeleteGroup(w)
    <2>1. OnlyJob(w) /\ job'[w].list = {} /\ JobInv(job'[w]) /\ \A v \in Vms : ~Marks(w, v)'
        <3>1. JobInv(job[w]) /\ job[w].do = "deleteManager" /\ Becomes(w, "store")
            BY <1>2 DEF DeleteGroup, Is
        <3>2. QED BY <3>1, Becoming DEF JobInv, Marks
    <2>2. UNCHANGED <<instance, catalog, cleaned, until>>
        BY <1>2 DEF DeleteGroup, entities
    <2>3. TakesDown
        BY <1>2 DEF DeleteGroup, VmStates, TakesDown
    <2>4. Proceeds(w)
        BY <2>1, <2>2 DEF Proceeds
    <2>5. Withdraws
        BY <2>2 DEF Withdraws
    <2>6. QED BY <2>1, <2>2, <2>3, <2>4, <2>5, QuietStep
<1>3. CASE ResizeGroup(w)
    <2>1. /\ OnlyJob(w) /\ job'[w].list = {} /\ JobInv(job'[w]) /\ \A v \in Vms : ~Marks(w, v)'
          /\ until' \in [Vms -> SUBSET Workers] /\ \A v \in Vms : until'[v] = until[v] \ {w}
        <3>1. Ends(w)
            BY <1>3 DEF ResizeGroup
        <3>2. QED BY <3>1, Ending, IdleIsJob DEF JobInv, Marks
    <2>2. UNCHANGED <<instance, catalog, cleaned>>
        BY <1>3 DEF ResizeGroup
    <2>3. TakesDown
        <3>1. CASE ~gce[job[w].on].group
            BY <1>3, <3>1 DEF ResizeGroup, TakesDown
        <3>2. CASE gce[job[w].on].group
            <4>1. PICK less \in SUBSET {v \in VmsOf(job[w].on) : vm[v] = "up"} :
                    /\ vm' = [v \in Vms |-> IF v \in less THEN "going" ELSE vm[v]]
                    /\ crossed' = crossed \cup less
                BY <1>3, <3>2 DEF ResizeGroup
            <4>2. QED BY <4>1 DEF VmStates, TakesDown
        <3>3. QED BY <3>1, <3>2
    <2>4. Proceeds(w)
        BY <2>1 DEF Proceeds
    <2>5. Withdraws
        BY <2>2 DEF Withdraws
    <2>6. QED BY <2>1, <2>2, <2>3, <2>4, <2>5, QuietStep
<1>4. QED BY <1>1, <1>2, <1>3

-----------------------------------------------------------------------------
(* The tasks that put instances.                                           *)

\* The tasks of ws end.
EndAll(ws) ==
    /\ ws \subseteq Workers /\ AreJobs(job')
    /\ \A x \in Workers : job'[x] = IF x \in ws THEN Idle ELSE job[x]

LEMMA EndingAll ==
    ASSUME AreJobs(job), NEW w \in Workers, job' = [job EXCEPT ![w] = Idle]
    PROVE  EndAll({w})
<1>1. OnlyJob(w) /\ job'[w] = Idle
    BY IdleIsJob, UpdateJob
<1>2. QED BY <1>1 DEF EndAll, OnlyJob

\* An instance is put again: it may become pending once it has left the catalog,
\* and deleted once its virtual machine is gone.
LEMMA PutStep ==
    ASSUME Inv, NEW ws, EndAll(ws), NEW v \in Vms, instance[v].exists,
           NEW e \in Instances, Put(ws, v, e), e.exists,
           e.deleted = instance[v].deleted \/ HasGone(v),
           e.pending = instance[v].pending
               \/ (e.pending /\ (catalog[v] = "absent" \/ v \in crossed)),
           UNCHANGED <<vm, catalog, cleaned, crossed>>
    PROVE  Inv'
<1>1. /\ instance' \in [Vms -> Instances] /\ until' \in [Vms -> SUBSET Workers]
      /\ \A u \in Vms \ {v} : instance'[u] = instance[u] /\ until'[u] = until[u] \ ws
      /\ instance'[v].exists /\ instance'[v].deleted = e.deleted
      /\ instance'[v].pending = e.pending /\ instance'[v].old = FALSE
      /\ e.deleted => until'[v] = Running \ ws
    <2>1. TypeInv
        BY DEF Inv
    <2>2. IsPut(ws, v, e)
        BY <2>1, Putting
    <2>3. QED BY <2>2 DEF IsPut
<1>2. TypeInv'
    BY <1>1 DEF Inv, TypeInv, EndAll
<1>3. ASSUME NEW x \in Workers PROVE JobInv(job'[x])
    BY IdleIsJob DEF Inv, EndAll, JobInv
<1>4. \A u \in Vms, x \in Workers : Lists(x, u)' => Lists(x, u) /\ x \notin ws
    BY IdleIsJob DEF Lists, EndAll
<1>5. \A u \in Vms, x \in Workers : Marks(x, u)' => Marks(x, u)
    BY IdleIsJob DEF Marks, EndAll
<1>6. ASSUME NEW u \in Vms \ {v} PROVE VmInv(u)'
    <2>1. VmInv(u) /\ instance'[u] = instance[u] /\ until'[u] = until[u] \ ws
        BY <1>1 DEF Inv
    <2>2. WasThere(u)' /\ DeletedIsGone(u)' /\ CleanedIsAway(u)' /\ DownIsPending(u)' /\ Offered(u)'
        BY <1>4, <2>1 DEF VmInv, WasThere, DeletedIsGone, CleanedIsAway, DownIsPending, Offered
    <2>3. ListersAreKnown(u)' /\ OldIsUnlisted(u)'
        BY <1>4, <2>1 DEF VmInv, ListersAreKnown, OldIsUnlisted
    <2>4. PendingIsRemoved(u)'
        BY <1>5, <2>1 DEF VmInv, PendingIsRemoved
    <2>5. QED BY <2>2, <2>3, <2>4 DEF VmInv
<1>7. VmInv(v)'
    <2>1. VmInv(v) /\ v \notin cleaned /\ vm[v] \in VmStates
        BY DEF Inv, TypeInv, VmInv, CleanedIsAway
    <2>2. WasThere(v)' /\ CleanedIsAway(v)' /\ Offered(v)'
        BY <1>4, <2>1 DEF VmInv, WasThere, CleanedIsAway, Offered
    <2>3. DeletedIsGone(v)'
        BY <1>1, <2>1 DEF VmInv, WasThere, DeletedIsGone, HasGone, VmStates
    <2>4. ListersAreKnown(v)'
        <3>1. \A x \in Workers : Lists(x, v) => x \in Running
            BY DEF Inv, JobInv, Lists, Running
        <3>2. QED BY <1>1, <1>4, <3>1 DEF ListersAreKnown
    <2>5. OldIsUnlisted(v)' /\ DownIsPending(v)'
        BY <1>1, <2>1 DEF VmInv, OldIsUnlisted, DownIsPending
    <2>6. PendingIsRemoved(v)'
        BY <1>1, <1>5, <2>1 DEF VmInv, PendingIsRemoved
    <2>7. QED BY <2>2, <2>3, <2>4, <2>5, <2>6 DEF VmInv
<1>8. QED BY <1>2, <1>3, <1>6, <1>7 DEF Inv

-----------------------------------------------------------------------------
(* The actions.                                                            *)

LEMMA EnqueueStep ==
    ASSUME Inv, NEW w \in Workers, NEW do \in DOMAIN Due, NEW x \in Due[do], Enqueue(w, do, x)
    PROVE  Inv'
<1>1. AreJobs(job) /\ JobInv(job[w]) /\ until \in [Vms -> SUBSET Workers]
    BY DEF Inv, TypeInv
<1>2. UNCHANGED <<until, instance, vm, catalog, cleaned, crossed>>
    BY DEF Enqueue, entities, outside
<1>3. job' = [job EXCEPT ![w] = Task(do, x, "queued", {}, 0)]
    BY DEF Enqueue
<1>4. OnlyJob(w)
    BY <1>1, <1>3, NewTask
<1>5. job'[w] = Task(do, x, "queued", {}, 0)
    BY <1>1, <1>3 DEF AreJobs
<1>6. do \in {"catalog", "remove", "update", "cleanup"} => x \in Vms
    BY DEF Due
<1>7. job'[w].list = {} /\ JobInv(job'[w]) /\ \A v \in Vms : ~Marks(w, v)'
    BY <1>5, <1>6 DEF Task, JobInv, Marks
<1>8. QED BY <1>1, <1>2, <1>4, <1>7, TaskStep DEF Proceeds

\* A list has what is there now: nothing that was deleted or cleaned up.
LEMMA ListStep ==
    ASSUME Inv, NEW w \in Workers, ListInstances(w)
    PROVE  Inv'
<1>1. UNCHANGED <<instance, vm, catalog, cleaned, crossed>>
    BY DEF ListInstances, outside
<1>2. CASE Ends(w)
    BY <1>1, <1>2, EndingIsInv
<1>3. ASSUME NEW list \in SUBSET {v \in Vms : vm[v] \in {"up", "going"}},
             job' = [job EXCEPT ![w] = Task("fetch", job[w].on, "store", list, 0)],
             UNCHANGED until
      PROVE  Inv'
    <2>1. AreJobs(job)
        BY DEF Inv, TypeInv
    <2>2. OnlyJob(w)
        BY <1>3, <2>1, NewTask
    <2>3. job'[w] = Task("fetch", job[w].on, "store", list, 0)
        BY <1>3, <2>1 DEF AreJobs
    <2>4. job'[w].do = "fetch" /\ job'[w].step = "store" /\ job'[w].list = list
        BY <2>3 DEF Task
    <2>5. TypeInv'
        BY <1>1, <1>3, <2>2 DEF Inv, TypeInv, OnlyJob
    <2>6. ASSUME NEW x \in Workers PROVE JobInv(job'[x])
        BY <2>2, <2>4 DEF Inv, OnlyJob, JobInv
    <2>7. \A v \in Vms, x \in Workers : Lists(x, v)' => Lists(x, v) \/ vm[v] \in {"up", "going"}
        BY <2>2, <2>4 DEF Lists, OnlyJob
    <2>8. \A v \in Vms, x \in Workers : Marks(x, v)' => Marks(x, v)
        BY <2>2, <2>4 DEF Marks, OnlyJob
    <2>9. ASSUME NEW v \in Vms PROVE VmInv(v)'
        <3>1. VmInv(v)
            BY DEF Inv
        <3>2. WasThere(v)' /\ DeletedIsGone(v)' /\ CleanedIsAway(v)' /\ DownIsPending(v)' /\ Offered(v)'
            BY <1>1, <2>7, <3>1
               DEF VmInv, WasThere, DeletedIsGone, CleanedIsAway, DownIsPending, Offered
        <3>3. ListersAreKnown(v)' /\ OldIsUnlisted(v)'
            BY <1>1, <1>3, <2>7, <3>1 DEF VmInv, DeletedIsGone, ListersAreKnown, OldIsUnlisted
        <3>4. PendingIsRemoved(v)'
            BY <1>1, <2>8, <3>1 DEF VmInv, PendingIsRemoved
        <3>5. QED BY <3>2, <3>3, <3>4 DEF VmInv
    <2>10. QED BY <2>5, <2>6, <2>9 DEF Inv
<1>4. QED BY <1>2, <1>3 DEF ListInstances, VmsOf

\* What is stored was there when it was listed, and was not cleaned up since.
LEMMA StoreStep ==
    ASSUME Inv, NEW w \in Workers, StoreInstances(w)
    PROVE  Inv'
<1>1. /\ AreJobs(job) /\ until \in [Vms -> SUBSET Workers] /\ instance \in [Vms -> Instances]
      /\ JobInv(job[w])
    BY DEF Inv, TypeInv
<1>2. Ends(w) /\ UNCHANGED <<vm, catalog, cleaned, crossed>>
    BY DEF StoreInstances, outside
<1>3. OnlyJob(w) /\ job'[w] = Idle /\ until' \in [Vms -> SUBSET Workers]
      /\ \A v \in Vms : until'[v] = until[v] \ {w}
    BY <1>1, <1>2, Ending
<1>4. /\ NewInstance \in Instances /\ NewInstance.exists
      /\ ~NewInstance.deleted /\ ~NewInstance.pending /\ ~NewInstance.old
    BY DEF NewInstance, NoInstance, Instances
<1>5. instance' = [v \in Vms |-> IF Lists(w, v) /\ ~instance[v].exists THEN NewInstance ELSE instance[v]]
    BY DEF StoreInstances, Lists
<1>6. TypeInv'
    BY <1>1, <1>2, <1>3, <1>4, <1>5 DEF Inv, TypeInv, OnlyJob
<1>7. ASSUME NEW x \in Workers PROVE JobInv(job'[x])
    BY <1>3, IdleIsJob DEF Inv, OnlyJob, JobInv
<1>8. \A v \in Vms, x \in Workers : Lists(x, v)' => Lists(x, v) /\ x # w
    BY <1>3, IdleIsJob DEF Lists, OnlyJob
<1>9. \A v \in Vms, x \in Workers : Marks(x, v)' => Marks(x, v)
    BY <1>3, IdleIsJob DEF Marks, OnlyJob
<1>10. ASSUME NEW v \in Vms PROVE VmInv(v)'
    <2>1. VmInv(v) /\ vm' = vm /\ catalog' = catalog /\ cleaned' = cleaned /\ crossed' = crossed
        BY <1>2 DEF Inv
    <2>2. CASE Lists(w, v) /\ ~instance[v].exists
        <3>1. instance'[v] = NewInstance
            BY <1>5, <2>2
        <3>2. v \notin cleaned /\ vm[v] # "none"
            BY <2>1, <2>2 DEF VmInv, CleanedIsAway, WasThere
        <3>3. WasThere(v)' /\ DeletedIsGone(v)' /\ ListersAreKnown(v)' /\ OldIsUnlisted(v)'
            BY <1>4, <2>1, <3>1, <3>2 DEF WasThere, DeletedIsGone, ListersAreKnown, OldIsUnlisted
        <3>4. CleanedIsAway(v)' /\ Offered(v)'
            BY <2>1, <3>2 DEF VmInv, CleanedIsAway, Offered
        <3>5. DownIsPending(v)'
            BY <2>1, <2>2, <3>2 DEF VmInv, DownIsPending
        <3>6. PendingIsRemoved(v)'
            BY <1>4, <1>9, <2>1, <3>1 DEF VmInv, PendingIsRemoved
        <3>7. QED BY <3>3, <3>4, <3>5, <3>6 DEF VmInv
    <2>3. CASE ~(Lists(w, v) /\ ~instance[v].exists)
        <3>1. instance'[v] = instance[v]
            BY <1>5, <2>3
        <3>2. WasThere(v)' /\ DeletedIsGone(v)' /\ CleanedIsAway(v)' /\ DownIsPending(v)' /\ Offered(v)'
            BY <1>8, <2>1, <3>1
               DEF VmInv, WasThere, DeletedIsGone, CleanedIsAway, DownIsPending, Offered
        <3>3. ListersAreKnown(v)' /\ OldIsUnlisted(v)'
            BY <1>3, <1>8, <2>1, <3>1 DEF VmInv, ListersAreKnown, OldIsUnlisted
        <3>4. PendingIsRemoved(v)'
            BY <1>9, <2>1, <3>1 DEF VmInv, PendingIsRemoved
        <3>5. QED BY <3>2, <3>3, <3>4 DEF VmInv
    <2>4. QED BY <2>2, <2>3
<1>11. QED BY <1>6, <1>7, <1>10 DEF Inv

\* A machine that is added is pending, or about to be, only if it is crossed.
LEMMA AddStep ==
    ASSUME Inv, NEW w \in Workers, AddMachine(w)
    PROVE  Inv'
<1> DEFINE a == job[w].on
<1>1. /\ AreJobs(job) /\ JobInv(job[w]) /\ job[w].do = "catalog"
      /\ catalog \in [Vms -> {"absent", "free", "leased"}]
    BY DEF Inv, TypeInv, AddMachine, Is
<1>2. UNCHANGED <<instance, until, cleaned, vm>>
    BY DEF AddMachine, entities
<1>3. Becomes(w, "store")
    BY DEF AddMachine
<1>4. OnlyJob(w) /\ job'[w].do = "catalog" /\ job'[w].on = a /\ job'[w].list = job[w].list
      /\ job'[w].step = "store"
    BY <1>1, <1>3, Becoming
<1>5. a \in Vms /\ job[w].list = {}
    BY <1>1 DEF JobInv
<1>6. catalog' = [catalog EXCEPT ![a] = IF @ = "absent" THEN "free" ELSE @]
    BY DEF AddMachine
<1>7. crossed' = IF IsMarked(a) THEN crossed \cup {a} ELSE crossed
    BY DEF AddMachine
<1>8. TypeInv'
    BY <1>1, <1>2, <1>4, <1>6 DEF Inv, TypeInv, OnlyJob
<1>9. ASSUME NEW x \in Workers PROVE JobInv(job'[x])
    BY <1>4, <1>5 DEF Inv, OnlyJob, JobInv
<1>10. \A v \in Vms, x \in Workers : Lists(x, v)' => Lists(x, v)
    BY <1>4, <1>5 DEF Lists, OnlyJob
<1>11. \A v \in Vms, x \in Workers : Marks(x, v)' => Marks(x, v)
    BY <1>4 DEF Marks, OnlyJob
<1>12. ASSUME NEW v \in Vms PROVE VmInv(v)'
    <2>1. VmInv(v)
        BY DEF Inv
    <2>2. WasThere(v)' /\ DeletedIsGone(v)' /\ CleanedIsAway(v)'
        BY <1>2, <1>10, <2>1 DEF VmInv, WasThere, DeletedIsGone, CleanedIsAway
    <2>3. DownIsPending(v)'
        BY <1>2, <1>7, <2>1 DEF VmInv, DownIsPending
    <2>4. ListersAreKnown(v)' /\ OldIsUnlisted(v)'
        BY <1>2, <1>10, <2>1 DEF VmInv, ListersAreKnown, OldIsUnlisted
    <2>5. PendingIsRemoved(v)' /\ Offered(v)'
        <3>1. CASE v = a /\ IsMarked(a)
            BY <1>7, <3>1 DEF PendingIsRemoved, Offered
        <3>2. CASE v = a /\ ~IsMarked(a)
            <4>1. instance[v].exists /\ ~instance[v].pending
                BY <3>2 DEF IsMarked
            <4>2. \A x \in Workers : ~Marks(x, v)
                BY <3>2 DEF IsMarked, Marks, Inv, JobInv
            <4>3. PendingIsRemoved(v)'
                BY <1>2, <1>11, <4>1, <4>2 DEF PendingIsRemoved
            <4>4. vm[v] \in {"up", "lost"} \/ v \in crossed
                BY <2>1, <4>1 DEF VmInv, WasThere, DownIsPending, CleanedIsAway, Inv, TypeInv, VmStates
            <4>5. Offered(v)'
                BY <1>2, <1>7, <4>4 DEF Offered
            <4>6. QED BY <4>3, <4>5
        <3>3. CASE v # a
            <4>1. catalog'[v] = catalog[v] /\ crossed \subseteq crossed'
                BY <1>1, <1>6, <1>7, <3>3
            <4>2. QED BY <1>2, <1>11, <2>1, <4>1 DEF VmInv, PendingIsRemoved, Offered
        <3>4. QED BY <3>1, <3>2, <3>3
    <2>6. QED BY <2>2, <2>3, <2>4, <2>5 DEF VmInv
<1>13. QED BY <1>8, <1>9, <1>12 DEF Inv

\* What a task is about to mark is not in the catalog.
LEMMA MarkingIsInv ==
    ASSUME Inv, NEW w \in Workers, job[w].do \in {"remove", "update"}, Becomes(w, "mark"), Withdraws,
           catalog'[job[w].on] = "absent" \/ job[w].on \in crossed,
           UNCHANGED <<instance, until, vm, cleaned, crossed>>
    PROVE  Inv'
<1>1. AreJobs(job) /\ until \in [Vms -> SUBSET Workers] /\ JobInv(job[w])
    BY DEF Inv, TypeInv
<1>2. OnlyJob(w) /\ job'[w].do = job[w].do /\ job'[w].on = job[w].on
      /\ job'[w].list = job[w].list /\ job'[w].step = "mark"
    BY <1>1, Becoming
<1>3. job'[w].list = {} /\ JobInv(job'[w])
    BY <1>1, <1>2 DEF JobInv
<1>4. Proceeds(w)
    BY <1>1, <1>2, <1>3 DEF Proceeds
<1>5. TakesDown
    BY DEF TakesDown, Inv, TypeInv
<1>6. \A v \in Vms : Marks(w, v)' => catalog'[v] = "absent" \/ v \in crossed'
    BY <1>2 DEF Marks
<1>7. QED BY <1>4, <1>5, <1>6, QuietStep

LEMMA RetrieveStep ==
    ASSUME Inv, NEW w \in Workers, RetrieveMachine(w)
    PROVE  Inv'
<1>1. job[w].do = "update" /\ UNCHANGED <<instance, vm, catalog, cleaned, crossed>>
    BY DEF RetrieveMachine, Is, outside
<1>2. CASE Ends(w)
    BY <1>1, <1>2, EndingIsInv
<1>3. CASE Becomes(w, "store") /\ UNCHANGED until
    BY <1>1, <1>3, BecomingIsInv
<1>4. CASE catalog[job[w].on] = "absent" /\ Becomes(w, "mark") /\ UNCHANGED until
    <2>1. Withdraws
        BY <1>1 DEF Withdraws, Inv, TypeInv
    <2>2. QED BY <1>1, <1>4, <2>1, MarkingIsInv
<1>5. QED BY <1>2, <1>3, <1>4 DEF RetrieveMachine

LEMMA RemoveStep ==
    ASSUME Inv, NEW w \in Workers, RemoveMachine(w)
    PROVE  Inv'
<1> DEFINE v == job[w].on
<1>1. /\ job[w].do = "remove" /\ v \in Vms
      /\ catalog \in [Vms -> {"absent", "free", "leased"}]
    BY DEF RemoveMachine, Is, Inv, TypeInv, JobInv
<1>2. CASE Ends(w) /\ UNCHANGED catalog
    BY <1>2, EndingIsInv DEF RemoveMachine
<1>3. CASE /\ IsRemovable(v) /\ Becomes(w, "mark") /\ UNCHANGED until
           /\ catalog' = [catalog EXCEPT ![v] = IF @ = "free" THEN "absent" ELSE @]
    <2>1. Withdraws /\ catalog'[v] = "absent"
        BY <1>1, <1>3 DEF Withdraws, IsRemovable
    <2>2. UNCHANGED <<instance, until, vm, cleaned, crossed>>
        BY <1>3 DEF RemoveMachine
    <2>3. QED BY <1>1, <1>3, <2>1, <2>2, MarkingIsInv
<1>4. QED BY <1>2, <1>3 DEF RemoveMachine

LEMMA CheckStep ==
    ASSUME Inv, NEW w \in Workers, CheckInstance(w)
    PROVE  Inv'
BY GoingOnIsInv DEF CheckInstance, Is, outside

\* The transactions of the tasks on an instance.
LEMMA CatalogedStep ==
    ASSUME Inv, NEW w \in Workers, SetCataloged(w)
    PROVE  Inv'
<1> DEFINE v == job[w].on
           e == [instance[v] EXCEPT !.cataloged = TRUE]
<1>1. v \in Vms /\ AreJobs(job) /\ instance[v] \in Instances
    BY DEF SetCataloged, Is, Inv, TypeInv, JobInv
<1>2. UNCHANGED <<vm, catalog, cleaned, crossed>>
    BY DEF SetCataloged, outside
<1>3. CASE Ends(w) /\ UNCHANGED instance
    BY <1>2, <1>3, EndingIsInv
<1>4. CASE instance[v].exists /\ Put({w}, v, e) /\ job' = [job EXCEPT ![w] = Idle]
    <2>1. EndAll({w})
        BY <1>1, <1>4, EndingAll
    <2>2. e \in Instances /\ e.exists = instance[v].exists /\ e.deleted = instance[v].deleted
          /\ e.pending = instance[v].pending
        BY <1>1 DEF Instances
    <2> HIDE DEF e
    <2>3. QED BY <1>1, <1>2, <1>4, <2>1, <2>2, PutStep
<1>5. QED BY <1>3, <1>4 DEF SetCataloged

LEMMA LeaseStep ==
    ASSUME Inv, NEW w \in Workers, StoreLease(w)
    PROVE  Inv'
<1> DEFINE v == job[w].on
           e == [instance[v] EXCEPT !.leased = TRUE]
<1>1. v \in Vms /\ AreJobs(job) /\ instance[v] \in Instances
    BY DEF StoreLease, Is, Inv, TypeInv, JobInv
<1>2. UNCHANGED <<vm, catalog, cleaned, crossed>>
    BY DEF StoreLease, outside
<1>3. CASE Ends(w) /\ UNCHANGED instance
    BY <1>2, <1>3, EndingIsInv
<1>4. CASE instance[v].exists /\ Put({w}, v, e) /\ job' = [job EXCEPT ![w] = Idle]
    <2>1. EndAll({w})
        BY <1>1, <1>4, EndingAll
    <2>2. e \in Instances /\ e.exists = instance[v].exists /\ e.deleted = instance[v].deleted
          /\ e.pending = instance[v].pending
        BY <1>1 DEF Instances
    <2> HIDE DEF e
    <2>3. QED BY <1>1, <1>2, <1>4, <2>1, <2>2, PutStep
<1>5. QED BY <1>3, <1>4 DEF StoreLease

LEMMA MarkStep ==
    ASSUME Inv, NEW w \in Workers, MarkForDeletion(w)
    PROVE  Inv'
<1> DEFINE v == job[w].on
           e == [instance[v] EXCEPT !.leased = FALSE, !.pending = TRUE]
<1>1. v \in Vms /\ AreJobs(job) /\ instance[v] \in Instances
    BY DEF MarkForDeletion, Inv, TypeInv, JobInv
<1>2. UNCHANGED <<vm, catalog, cleaned, crossed>>
    BY DEF MarkForDeletion, outside
<1>3. CASE Ends(w) /\ UNCHANGED instance
    BY <1>2, <1>3, EndingIsInv
<1>4. CASE instance[v].exists /\ Put({w}, v, e) /\ job' = [job EXCEPT ![w] = Idle]
    <2>1. EndAll({w})
        BY <1>1, <1>4, EndingAll
    <2>2. e \in Instances /\ e.exists = instance[v].exists /\ e.deleted = instance[v].deleted
          /\ e.pending
        BY <1>1 DEF Instances
    <2>3. catalog[v] = "absent" \/ v \in crossed
        BY <1>1 DEF MarkForDeletion, Marks, Inv, VmInv, PendingIsRemoved
    <2> HIDE DEF e
    <2>4. QED BY <1>1, <1>2, <1>4, <2>1, <2>2, <2>3, PutStep
<1>5. QED BY <1>3, <1>4 DEF MarkForDeletion

LEMMA DrainedStep ==
    ASSUME Inv, NEW w \in Workers, CleanupDrained(w)
    PROVE  Inv'
<1> DEFINE v == job[w].on
           e == [instance[v] EXCEPT !.deleted = TRUE]
<1>1. v \in Vms /\ AreJobs(job) /\ instance[v] \in Instances
    BY DEF CleanupDrained, Is, Inv, TypeInv, JobInv
<1>2. UNCHANGED <<vm, catalog, cleaned, crossed>>
    BY DEF CleanupDrained, outside
<1>3. CASE Ends(w) /\ UNCHANGED instance
    BY <1>2, <1>3, EndingIsInv
<1>4. CASE instance[v].exists /\ HasGone(v) /\ Put({w}, v, e) /\ job' = [job EXCEPT ![w] = Idle]
    <2>1. EndAll({w})
        BY <1>1, <1>4, EndingAll
    <2>2. e \in Instances /\ e.exists = instance[v].exists /\ e.pending = instance[v].pending
        BY <1>1 DEF Instances
    <2> HIDE DEF e
    <2>3. QED BY <1>1, <1>2, <1>4, <2>1, <2>2, PutStep
<1>5. QED BY <1>3, <1>4 DEF CleanupDrained

LEMMA DeletedStep ==
    ASSUME Inv, NEW v \in Vms, CheckDeleted(v)
    PROVE  Inv'
<1> DEFINE e == [instance[v] EXCEPT !.deleted = TRUE]
<1>1. instance[v] \in Instances /\ instance[v].exists /\ HasGone(v) /\ Put({}, v, e)
    BY DEF CheckDeleted, Inv, TypeInv
<1>2. UNCHANGED <<vm, catalog, cleaned, crossed>>
    BY DEF CheckDeleted, outside
<1>3. EndAll({})
    BY DEF CheckDeleted, EndAll, Inv, TypeInv, AreJobs
<1>4. e \in Instances /\ e.exists = instance[v].exists /\ e.pending = instance[v].pending
    BY <1>1 DEF Instances
<1> HIDE DEF e
<1>5. QED BY <1>1, <1>2, <1>3, <1>4, PutStep

\* Time passes for a deleted instance that no running task has listed.
LEMMA AgesStep ==
    ASSUME Inv, NEW v \in Vms, Ages(v)
    PROVE  Inv'
<1> DEFINE k == [instance[v] EXCEPT !.old = TRUE]
<1>1. /\ instance \in [Vms -> Instances] /\ until[v] = {}
      /\ instance' = [instance EXCEPT ![v] = k]
    BY DEF Ages, IsOld, Inv, TypeInv
<1>2. UNCHANGED <<until, job, vm, catalog, cleaned, crossed>>
    BY DEF Ages, outside
<1>3. k \in Instances /\ k.exists = instance[v].exists /\ k.deleted = instance[v].deleted
      /\ k.pending = instance[v].pending
    BY <1>1 DEF Instances
<1> HIDE DEF k
<1>4. TypeInv'
    BY <1>1, <1>2, <1>3 DEF Inv, TypeInv, AreJobs
<1>5. \A x \in Workers, u \in Vms : Lists(x, u)' = Lists(x, u) /\ Marks(x, u)' = Marks(x, u)
    BY <1>2 DEF Lists, Marks
<1>6. ASSUME NEW u \in Vms PROVE VmInv(u)'
    <2>1. VmInv(u)
        BY DEF Inv
    <2>2. /\ instance'[u].exists = instance[u].exists /\ instance'[u].deleted = instance[u].deleted
          /\ instance'[u].pending = instance[u].pending
          /\ u # v => instance'[u] = instance[u]
        BY <1>1, <1>3
    <2>3. WasThere(u)' /\ DeletedIsGone(u)' /\ CleanedIsAway(u)' /\ DownIsPending(u)' /\ Offered(u)'
        BY <1>2, <1>5, <2>1, <2>2
           DEF VmInv, WasThere, DeletedIsGone, CleanedIsAway, DownIsPending, Offered
    <2>4. ListersAreKnown(u)' /\ OldIsUnlisted(u)'
        BY <1>1, <1>2, <1>5, <2>1, <2>2 DEF VmInv, ListersAreKnown, OldIsUnlisted
    <2>5. PendingIsRemoved(u)'
        BY <1>2, <1>5, <2>1, <2>2 DEF VmInv, PendingIsRemoved
    <2>6. QED BY <2>3, <2>4, <2>5 DEF VmInv
<1>7. QED BY <1>2, <1>4, <1>6 DEF Inv

\* The entity of an old instance goes: nobody lists the instance any more.
LEMMA CleanStep ==
    ASSUME Inv, NEW v \in Vms, CleanupDeleted(v)
    PROVE  Inv'
<1>1. /\ instance \in [Vms -> Instances]
      /\ instance[v].exists /\ instance[v].deleted /\ instance[v].old
      /\ instance' = [instance EXCEPT ![v] = NoInstance] /\ cleaned' = cleaned \cup {v}
    BY DEF CleanupDeleted, Inv, TypeInv
<1>2. UNCHANGED <<until, job, vm, catalog, crossed>>
    BY DEF CleanupDeleted, outside
<1>3. NoInstance \in Instances /\ ~NoInstance.exists /\ ~NoInstance.old
    BY DEF NoInstance, Instances
<1>4. TypeInv'
    BY <1>1, <1>2, <1>3 DEF Inv, TypeInv, AreJobs
<1>5. \A x \in Workers, u \in Vms : Lists(x, u)' = Lists(x, u) /\ Marks(x, u)' = Marks(x, u)
    BY <1>2 DEF Lists, Marks
<1>6. ASSUME NEW u \in Vms \ {v} PROVE VmInv(u)'
    <2>1. VmInv(u) /\ instance'[u] = instance[u] /\ (u \in cleaned' <=> u \in cleaned)
        BY <1>1 DEF Inv
    <2>2. WasThere(u)' /\ DeletedIsGone(u)' /\ CleanedIsAway(u)' /\ DownIsPending(u)' /\ Offered(u)'
        BY <1>2, <1>5, <2>1 DEF VmInv, WasThere, DeletedIsGone, CleanedIsAway, DownIsPending, Offered
    <2>3. ListersAreKnown(u)' /\ OldIsUnlisted(u)' /\ PendingIsRemoved(u)'
        BY <1>2, <1>5, <2>1 DEF VmInv, ListersAreKnown, OldIsUnlisted, PendingIsRemoved
    <2>4. QED BY <2>2, <2>3 DEF VmInv
<1>7. VmInv(v)'
    <2>1. VmInv(v) /\ instance'[v] = NoInstance /\ v \in cleaned'
        BY <1>1 DEF Inv
    <2>2. \A x \in Workers : ~Lists(x, v)
        BY <1>1, <2>1 DEF VmInv, ListersAreKnown, OldIsUnlisted
    <2>3. WasThere(v)' /\ DeletedIsGone(v)' /\ CleanedIsAway(v)' /\ DownIsPending(v)' /\ Offered(v)'
        BY <1>1, <1>2, <1>3, <1>5, <2>1, <2>2
           DEF VmInv, WasThere, DeletedIsGone, CleanedIsAway, DownIsPending, Offered
    <2>4. ListersAreKnown(v)' /\ OldIsUnlisted(v)' /\ PendingIsRemoved(v)'
        BY <1>2, <1>3, <1>5, <2>1 DEF VmInv, ListersAreKnown, OldIsUnlisted, PendingIsRemoved
    <2>5. QED BY <2>3, <2>4 DEF VmInv
<1>8. QED BY <1>2, <1>4, <1>6, <1>7 DEF Inv

-----------------------------------------------------------------------------
(* What GCE and the Machine Provider do.                                   *)

\* A virtual machine goes its way; it is taken down only when it is pending.
VmMay(v, old, new) ==
    \/ new = old
    \/ old = "none" /\ new = "up"
    \/ old = "up" /\ new = "lost"
    \/ old = "going" /\ new = "gone"
    \/ old = "up" /\ new = "going" /\ instance[v].exists /\ instance[v].pending

\* The Machine Provider lends and reclaims what is in the catalog.
CatalogMay(old, new) == old = "absent" => new = "absent"

LEMMA OutsideStep ==
    ASSUME Inv, UNCHANGED <<instance, until, job, cleaned, crossed>>,
           vm' \in [Vms -> VmStates], catalog' \in [Vms -> {"absent", "free", "leased"}],
           \A v \in Vms : VmMay(v, vm[v], vm'[v]) /\ CatalogMay(catalog[v], catalog'[v])
    PROVE  Inv'
<1>1. TypeInv'
    BY DEF Inv, TypeInv, AreJobs
<1>2. \A x \in Workers, u \in Vms : Lists(x, u)' = Lists(x, u) /\ Marks(x, u)' = Marks(x, u)
    BY DEF Lists, Marks
<1>3. ASSUME NEW v \in Vms PROVE VmInv(v)'
    <2>1. VmInv(v) /\ vm[v] \in VmStates
        BY DEF Inv, TypeInv
    <2>2. VmMay(v, vm[v], vm'[v]) /\ CatalogMay(catalog[v], catalog'[v])
        OBVIOUS
    <2>3. WasThere(v)' /\ DeletedIsGone(v)'
        BY <1>2, <2>1, <2>2 DEF VmInv, WasThere, DeletedIsGone, VmMay
    <2>4. ListersAreKnown(v)' /\ OldIsUnlisted(v)' /\ CleanedIsAway(v)'
        BY <1>2, <2>1 DEF VmInv, ListersAreKnown, OldIsUnlisted, CleanedIsAway
    <2>5. DownIsPending(v)' /\ PendingIsRemoved(v)'
        BY <1>2, <2>1, <2>2 DEF VmInv, DownIsPending, PendingIsRemoved, VmMay, CatalogMay
    <2>6. Offered(v)'
        BY <2>1, <2>2 DEF VmInv, Offered, VmMay, CatalogMay, PendingIsRemoved, VmStates
    <2>7. QED BY <2>3, <2>4, <2>5, <2>6 DEF VmInv
<1>4. QED BY <1>1, <1>3 DEF Inv

LEMMA VmStep ==
    ASSUME Inv, NEW v \in Vms, DeletePending(v) \/ VmComes(v) \/ VmGoes(v) \/ VmVanishes(v)
    PROVE  Inv'
<1>1. UNCHANGED <<instance, until, job, cleaned, crossed, catalog>>
    BY DEF DeletePending, VmComes, VmGoes, VmVanishes, entities
<1>2. vm \in [Vms -> VmStates] /\ catalog \in [Vms -> {"absent", "free", "leased"}]
    BY DEF Inv, TypeInv
<1>3. \E s \in VmStates : vm' = [vm EXCEPT ![v] = s] /\ VmMay(v, vm[v], s)
    BY DEF DeletePending, VmComes, VmGoes, VmVanishes, VmStates, VmMay
<1>4. vm' \in [Vms -> VmStates] /\ \A u \in Vms : VmMay(u, vm[u], vm'[u])
    BY <1>2, <1>3 DEF VmMay
<1>5. \A u \in Vms : CatalogMay(catalog[u], catalog'[u])
    BY <1>1 DEF CatalogMay
<1>6. QED BY <1>1, <1>2, <1>4, <1>5, OutsideStep

LEMMA LendingStep ==
    ASSUME Inv, NEW v \in Vms, LeaseMachine(v) \/ ReclaimMachine(v)
    PROVE  Inv'
<1>1. UNCHANGED <<instance, until, job, cleaned, crossed, vm>>
    BY DEF LeaseMachine, ReclaimMachine, entities
<1>2. vm \in [Vms -> VmStates] /\ catalog \in [Vms -> {"absent", "free", "leased"}]
    BY DEF Inv, TypeInv
<1>3. \E s \in {"absent", "leased"} : catalog[v] # "absent" /\ catalog' = [catalog EXCEPT ![v] = s]
    BY DEF LeaseMachine, ReclaimMachine
<1>4. /\ catalog' \in [Vms -> {"absent", "free", "leased"}]
      /\ \A u \in Vms : CatalogMay(catalog[u], catalog'[u])
    BY <1>2, <1>3 DEF CatalogMay
<1>5. \A u \in Vms : VmMay(u, vm[u], vm'[u])
    BY <1>1 DEF VmMay
<1>6. QED BY <1>1, <1>2, <1>4, <1>5, OutsideStep

\* Steps on the template, its revisions and managers only.
LEMMA OtherStep ==
    ASSUME Inv, UNCHANGED <<instance, until, job, vm, catalog, cleaned, crossed>>
    PROVE  Inv'
<1>1. vm \in [Vms -> VmStates] /\ catalog \in [Vms -> {"absent", "free", "leased"}]
    BY DEF Inv, TypeInv
<1>2. \A v \in Vms : VmMay(v, vm[v], vm'[v]) /\ CatalogMay(catalog[v], catalog'[v])
    BY DEF VmMay, CatalogMay
<1>3. QED BY <1>1, <1>2, OutsideStep

-----------------------------------------------------------------------------
LEMMA NextKeepsInv == Inv /\ [Next]_vars => Inv'
<1> SUFFICES ASSUME Inv, [Next]_vars PROVE Inv' OBVIOUS
<1>1. ASSUME NEW r \in Revisions \cup {NoRevision}, NEW managed \in BOOLEAN, ParseConfig(r, managed)
      PROVE  Inv'
    <2>1. UNCHANGED <<instance, until, job, vm, catalog, cleaned, crossed>>
        BY <1>1 DEF ParseConfig, outside
    <2>2. QED BY <2>1, OtherStep
<1>2. ASSUME NEW w \in Workers, NEW do \in DOMAIN Due, NEW x \in Due[do], Enqueue(w, do, x)
      PROVE  Inv'
    BY <1>2, EnqueueStep
<1>3. ASSUME NEW w \in Workers, Step(w)
      PROVE  Inv'
    BY <1>3, TemplateStep, ManagerStep, ResizeStep, ListStep, StoreStep, CheckStep, AddStep,
       CatalogedStep, RetrieveStep, LeaseStep, RemoveStep, MarkStep, DrainedStep DEF Step
<1>4. ASSUME NEW w \in Workers, TaskDies(w)
      PROVE  Inv'
    <2>1. Ends(w) /\ UNCHANGED <<instance, vm, catalog, cleaned, crossed>>
        BY <1>4 DEF TaskDies, outside
    <2>2. QED BY <2>1, EndingIsInv
<1>5. ASSUME NEW v \in Vms, Cleanup(v) \/ Ages(v) \/ VmComes(v) \/ VmGoes(v) \/ VmVanishes(v)
                            \/ LeaseMachine(v) \/ ReclaimMachine(v)
      PROVE  Inv'
    BY <1>5, DeletedStep, CleanStep, AgesStep, VmStep, LendingStep DEF Cleanup
<1>6. ASSUME NEW r \in Revisions, CleanupManager(r) \/ CleanupRevision(r)
      PROVE  Inv'
    <2>1. UNCHANGED <<instance, until, job, vm, catalog, cleaned, crossed>>
        BY <1>6 DEF CleanupManager, CleanupRevision, outside
    <2>2. QED BY <2>1, OtherStep
<1>7. CASE UNCHANGED vars
    <2>1. UNCHANGED <<instance, until, job, vm, catalog, cleaned, crossed>>
        BY <1>7 DEF vars
    <2>2. QED BY <2>1, OtherStep
<1>8. QED BY <1>1, <1>2, <1>3, <1>4, <1>5, <1>6, <1>7 DEF Next

\* In every reachable state: what the tasks that overlap know of an instance, its
\* entity, its virtual machine and its catalog entry agree as Inv says, whatever
\* the order in which cron jobs, tasks, GCE and the Machine Provider take turns.
THEOREM InvHolds == Spec => []Inv
<1>1. QED BY InitIsInv, NextKeepsInv, PTL DEF Spec

\* A machine of the catalog is a virtual machine that no deletion of the backend
\* has reached, unless overlapping tasks crossed on it: add_machine() after
\* remove() or update(), or a resize or a deletion of its group.
THEOREM OfferedIsThereHolds == Spec => []OfferedIsThere
<1>1. Inv => OfferedIsThere
    BY DEF Inv, VmInv, Offered, OfferedIsThere
<1>2. QED BY <1>1, InvHolds, PTL

\* What was cleaned up is an instance.
CleanedIsInstance == cleaned \subseteq Vms

LEMMA NextKeepsInstances == CleanedIsInstance /\ [Next]_vars => CleanedIsInstance'
<1> SUFFICES ASSUME CleanedIsInstance, [Next]_vars PROVE CleanedIsInstance' OBVIOUS
<1> USE DEF CleanedIsInstance
<1>1. ASSUME NEW w \in Workers, Step(w) PROVE cleaned' = cleaned
    BY <1>1 DEF Step, entities, CheckTemplate, CallTemplate, StoreTemplateUrl, CheckManager,
        CreateGroup, DeleteGroup, StoreManagerUrl, CheckSize, ResizeGroup, ListInstances,
        StoreInstances, CheckInstance, AddMachine, SetCataloged, RetrieveMachine, StoreLease,
        RemoveMachine, MarkForDeletion, CleanupDrained
<1>2. ASSUME NEW v \in Vms, Cleanup(v) PROVE cleaned' \subseteq Vms
    BY <1>2 DEF Cleanup, entities, DeletePending, CheckDeleted, CleanupDeleted
<1>3. ASSUME NEW v \in Vms, Ages(v) \/ VmComes(v) \/ VmGoes(v) \/ VmVanishes(v)
                            \/ LeaseMachine(v) \/ ReclaimMachine(v)
      PROVE  cleaned' = cleaned
    BY <1>3 DEF Ages, VmComes, VmGoes, VmVanishes, LeaseMachine, ReclaimMachine, entities
<1>4. QED BY <1>1, <1>2, <1>3 DEF Next, vars, entities, ParseConfig, Enqueue, TaskDies,
        CleanupManager, CleanupRevision

\* The entity of an instance that was cleaned up is never created again: the
\* twenty minutes before the cleanup outlast every task that listed it.
THEOREM CleanedStaysCleanHolds == Spec => []CleanedStaysClean
<1>1. Init => CleanedIsInstance
    BY DEF Init, CleanedIsInstance
<1>2. Spec => []CleanedIsInstance
    BY <1>1, NextKeepsInstances, PTL DEF Spec
<1>3. Inv /\ CleanedIsInstance => CleanedStaysClean
    BY DEF Inv, VmInv, CleanedIsAway, CleanedStaysClean, CleanedIsInstance
<1>4. QED BY <1>2, <1>3, InvHolds, PTL
=============================================================================
