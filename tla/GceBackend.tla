---------------------------- MODULE GceBackend ----------------------------
(***************************************************************************)
(* The GCE backend of the Machine Provider: one instance template of its   *)
(* configuration, with its revisions and their instance group managers in  *)
(* one zone.  Cron jobs look for what there is to do and add tasks, which  *)
(* read the entities again, call GCE or the Machine Provider, and store    *)
(* what came of it in a transaction.  Tasks overlap, and nothing is locked *)
(* between a task's reading, its call and its transaction.                 *)
(*                                                                         *)
(* GCE and the Machine Provider are external: what they do to a virtual    *)
(* machine or a catalog entry is modelled from how this backend uses them. *)
(***************************************************************************)
EXTENDS Integers, FiniteSetsExt

CONSTANTS
    Revisions,      \* checksums of the template configurations there may be
    NoRevision,
    Workers,        \* tasks that may overlap
    MinSize, MaxSize,   \* minimum_size and maximum_size of the managers
    ResizeLimit,    \* RESIZE_LIMIT
    Overlapping,    \* bound: the kinds of tasks that may overlap with others
    MaxVms,         \* bound: virtual machines per manager, over all time
    MaxChanges,     \* bound: changes of the configuration
    MaxFaults       \* bound: tasks that die, machines that vanish

ASSUME GceAssumption ==
    /\ NoRevision \notin Revisions
    /\ MinSize \in Nat /\ MaxSize \in Nat /\ ResizeLimit \in Nat /\ MaxVms \in Nat
    /\ MaxChanges \in Nat /\ MaxFaults \in Nat

VARIABLES
    template,   \* InstanceTemplate
    revision,   \* InstanceTemplateRevision
    manager,    \* InstanceGroupManager
    instance,   \* Instance
    gce,        \* the instance template and the managed instance group in GCE
    vm,         \* the virtual machines
    catalog,    \* CatalogMachineEntry of the Machine Provider
    job,        \* tasks of the queues
    until,      \* the tasks that were running when an instance was last put
    changes, faults,
    cleaned,    \* history: the instances whose entity was deleted
    crossed     \* history: the instances of tasks that got in each other's way

vars == <<template, revision, manager, instance, gce, vm, catalog, job, until,
          changes, faults, cleaned, crossed>>

\* The name of an instance says of which revision it is.
Vms == Revisions \X (1 .. MaxVms)
VmsOf(r) == {v \in Vms : v[1] = r}

NoInstance == [exists |-> FALSE, cataloged |-> FALSE, leased |-> FALSE,
               pending |-> FALSE, deleted |-> FALSE, old |-> FALSE]
NewInstance == [NoInstance EXCEPT !.exists = TRUE]
NoRevisionEntity == [exists |-> FALSE, url |-> FALSE, managed |-> "none"]
NoManager == [exists |-> FALSE, url |-> FALSE, instances |-> {}]
Task(do, on, step, list, size) ==
    [do |-> do, on |-> on, step |-> step, list |-> list, size |-> size]
Idle == Task("none", NoRevision, "idle", {}, 0)

Init ==
    /\ template = [active |-> NoRevision, drained |-> {}]
    /\ revision = [r \in Revisions |-> NoRevisionEntity]
    /\ manager = [r \in Revisions |-> NoManager]
    /\ instance = [v \in Vms |-> NoInstance]
    /\ gce = [r \in Revisions |-> [template |-> FALSE, group |-> FALSE, size |-> 0]]
    /\ vm = [v \in Vms |-> "none"]
    /\ catalog = [v \in Vms |-> "absent"]
    /\ job = [w \in Workers |-> Idle]
    /\ until = [v \in Vms |-> {}]
    /\ changes = 0 /\ faults = 0
    /\ cleaned = {} /\ crossed = {}

entities == <<template, revision, manager, instance, until, cleaned>>
outside == <<gce, vm, catalog>>
bounds == <<changes, faults>>
-----------------------------------------------------------------------------
Running == {w \in Workers : job[w].step \notin {"idle", "queued"}}

\* An instance is put by a task that ends, or by a step of its own (ws = {}):
\* last_updated is now.
Put(ws, v, entity) ==
    /\ instance' = [instance EXCEPT ![v] = [entity EXCEPT !.old = FALSE]]
    /\ until' = [u \in Vms |-> IF u # v THEN until[u] \ ws
                               ELSE IF entity.deleted THEN Running \ ws ELSE {}]

Becomes(w, step) == job' = [job EXCEPT ![w].step = step]
Ends(w) ==
    /\ job' = [job EXCEPT ![w] = Idle]
    /\ until' = [u \in Vms |-> until[u] \ {w}]
GoesOn(w, possible, step) ==
    IF possible THEN Becomes(w, step) /\ UNCHANGED until ELSE Ends(w)

IsActive(r) == template.active = r /\ revision[r].exists
IsManaged(r) == IsActive(r) /\ revision[r].managed = "active" /\ manager[r].exists
\* Mutant of IsDrained: the managers of a drained revision stay active.
IsDrainedItself(r) == revision[r].exists /\ revision[r].managed = "drained"

\* get_drained_instance_group_managers()
IsDrained(r) ==
    /\ revision[r].exists
    /\ \/ revision[r].managed = "drained"
       \/ revision[r].managed = "active" /\ r \in template.drained

\* ensure_entities_exist(), for a configuration with this revision and a manager
\* for the zone or none; ensure_instance_template_revision_drained().
ParseConfig(r, managed) ==
    /\ changes < MaxChanges /\ changes' = changes + 1
    /\ template' = [active |-> r,
                    drained |-> (template.drained \cup ({template.active} \ {NoRevision})) \ {r}]
    /\ IF r = NoRevision
       THEN UNCHANGED <<revision, manager>>
       ELSE LET was == revision[r].managed
                now == IF managed THEN "active" ELSE IF was = "none" THEN "none" ELSE "drained" IN
            /\ revision' = [revision EXCEPT ![r].managed = now, ![r].exists = @ \/ was # now]
            /\ manager' = [manager EXCEPT ![r].exists = @ \/ managed]
    /\ UNCHANGED <<instance, until, cleaned, outside, job, faults, crossed>>

-----------------------------------------------------------------------------
(* What the cron jobs find to do, and add a task for.                      *)

Due == [
    createTemplate |-> {r \in Revisions : IsActive(r) /\ ~revision[r].url},
    deleteTemplate |-> {r \in template.drained :
                            revision[r].exists /\ revision[r].url /\ revision[r].managed = "none"},
    createManager |-> {r \in Revisions : IsManaged(r) /\ revision[r].url /\ ~manager[r].url},
    deleteManager |-> {r \in Revisions : IsDrained(r) /\ manager[r].url /\ manager[r].instances = {}},
    fetch |-> {r \in Revisions : manager[r].exists /\ manager[r].url},
    resize |-> {r \in Revisions : IsActive(r) /\ revision[r].managed = "active"},
    catalog |-> {v \in Vms : /\ IsManaged(v[1]) /\ v \in manager[v[1]].instances
                             /\ instance[v].exists /\ ~instance[v].cataloged /\ ~instance[v].pending},
    remove |-> {v \in Vms : /\ IsDrained(v[1]) /\ v \in manager[v[1]].instances
                            /\ instance[v].exists /\ ~instance[v].pending},
    cleanup |-> {v \in Vms : /\ IsDrained(v[1]) /\ v \in manager[v[1]].instances
                             /\ instance[v].exists /\ ~instance[v].cataloged},
    update |-> {v \in Vms : instance[v].exists /\ instance[v].cataloged /\ ~instance[v].pending}]

Enqueue(w, do, x) ==
    /\ job[w].step = "idle" /\ x \in Due[do]
    /\ \A o \in Workers : job[o].step # "idle" => {do, job[o].do} \subseteq Overlapping
    /\ job' = [job EXCEPT ![w] = Task(do, x, "queued", {}, 0)]
    /\ UNCHANGED <<entities, outside, bounds, crossed>>

Is(w, do, step) == job[w].do = do /\ job[w].step = step

\* A task dies: its time is over, or GCE or the Machine Provider answer with an
\* error.  The queues do not retry.
TaskDies(w) ==
    /\ job[w].step # "idle"
    /\ faults < MaxFaults /\ faults' = faults + 1
    /\ Ends(w)
    /\ UNCHANGED <<template, revision, manager, instance, cleaned, outside, changes, crossed>>

-----------------------------------------------------------------------------
(* Instance templates and instance group managers: create(), delete().     *)

CheckTemplate(w) ==
    /\ LET r == job[w].on IN
       \/ /\ Is(w, "createTemplate", "queued")
          /\ GoesOn(w, revision[r].exists /\ ~revision[r].url, "call")
       \/ /\ Is(w, "deleteTemplate", "queued")
          /\ GoesOn(w, revision[r].exists /\ revision[r].managed = "none" /\ revision[r].url, "call")
    /\ UNCHANGED <<template, revision, manager, instance, cleaned, outside, bounds, crossed>>

\* 409 and 404 are success.
CallTemplate(w) ==
    /\ \E made \in BOOLEAN :
        /\ Is(w, IF made THEN "createTemplate" ELSE "deleteTemplate", "call")
        /\ gce' = [gce EXCEPT ![job[w].on].template = made]
    /\ Becomes(w, "store")
    /\ UNCHANGED <<entities, vm, catalog, bounds, crossed>>

StoreTemplateUrl(w) ==
    /\ \E made \in BOOLEAN :
        /\ Is(w, IF made THEN "createTemplate" ELSE "deleteTemplate", "store")
        /\ revision' = [revision EXCEPT ![job[w].on].url = IF revision[job[w].on].exists THEN made ELSE @]
    /\ Ends(w)
    /\ UNCHANGED <<template, manager, instance, cleaned, outside, bounds, crossed>>

CheckManager(w) ==
    /\ LET r == job[w].on IN
       \/ /\ Is(w, "createManager", "queued")
          /\ GoesOn(w, /\ manager[r].exists /\ ~manager[r].url
                       /\ revision[r].exists /\ revision[r].url, "call")
       \/ /\ Is(w, "deleteManager", "queued")
          /\ GoesOn(w, manager[r].exists /\ manager[r].instances = {} /\ manager[r].url, "call")
    /\ UNCHANGED <<template, revision, manager, instance, cleaned, outside, bounds, crossed>>

CreateGroup(w) ==
    /\ Is(w, "createManager", "call")
    /\ LET r == job[w].on IN
       gce' = [gce EXCEPT ![r].size = IF gce[r].group THEN @ ELSE 0, ![r].group = TRUE]
    /\ Becomes(w, "store")
    /\ UNCHANGED <<entities, vm, catalog, bounds, crossed>>

\* The group goes, and whatever it has by now.
DeleteGroup(w) ==
    /\ Is(w, "deleteManager", "call")
    /\ LET r == job[w].on
           up == {v \in VmsOf(r) : vm[v] = "up"} IN
        /\ gce' = [gce EXCEPT ![r].group = FALSE, ![r].size = 0]
        /\ vm' = [v \in Vms |-> IF v \in up THEN "going" ELSE vm[v]]
        /\ crossed' = crossed \cup up
    /\ Becomes(w, "store")
    /\ UNCHANGED <<entities, catalog, bounds>>

StoreManagerUrl(w) ==
    /\ \E made \in BOOLEAN :
        /\ Is(w, IF made THEN "createManager" ELSE "deleteManager", "store")
        /\ manager' = [manager EXCEPT ![job[w].on].url = IF manager[job[w].on].exists THEN made ELSE @]
    /\ Ends(w)
    /\ UNCHANGED <<template, revision, instance, cleaned, outside, bounds, crossed>>

\* How many virtual machines there should be: resize().
InOtherRevisions(r) ==
    MapThenSumSet(LAMBDA q : Cardinality(manager[q].instances), Revisions \ {r})
Leased(r) == Cardinality({v \in VmsOf(r) : instance[v].exists /\ instance[v].leased})
UpIn(r) == Cardinality({v \in VmsOf(r) : vm[v] = "up"})
NewSize(r) ==
    Min({Max({MinSize, (11 * Leased(r) + 9) \div 10}),
         MaxSize - InOtherRevisions(r),
         UpIn(r) + ResizeLimit})

CheckSize(w) ==
    /\ Is(w, "resize", "queued")
    /\ LET r == job[w].on IN
       IF /\ manager[r].exists /\ manager[r].url /\ revision[r].exists /\ gce[r].group
          /\ NewSize(r) > Min({UpIn(r), gce[r].size})
       THEN /\ job' = [job EXCEPT ![w] = Task("resize", r, "call", {}, NewSize(r))]
            /\ UNCHANGED until
       ELSE Ends(w)
    /\ UNCHANGED <<template, revision, manager, instance, cleaned, outside, bounds, crossed>>

\* If the group has more by now, GCE takes away some of its own choice.
ResizeGroup(w) ==
    /\ Is(w, "resize", "call")
    /\ LET r == job[w].on
           up == {v \in VmsOf(r) : vm[v] = "up"} IN
       IF ~gce[r].group THEN UNCHANGED <<gce, vm, crossed>>
       ELSE /\ gce' = [gce EXCEPT ![r].size = job[w].size]
            /\ \E less \in SUBSET up :
                /\ Cardinality(less) = Max({0, Cardinality(up) - job[w].size})
                /\ vm' = [v \in Vms |-> IF v \in less THEN "going" ELSE vm[v]]
                /\ crossed' = crossed \cup less
    /\ Ends(w)
    /\ UNCHANGED <<template, revision, manager, instance, cleaned, catalog, bounds>>

-----------------------------------------------------------------------------
(* Instances: fetch, catalog, update, remove.                              *)

\* fetch() gives no instance when the entities are not there; a group that is
\* not there is an error.
ListInstances(w) ==
    /\ Is(w, "fetch", "queued")
    /\ LET r == job[w].on
           known == manager[r].exists /\ manager[r].url /\ revision[r].exists IN
       IF known /\ ~gce[r].group THEN Ends(w)
       ELSE /\ LET list == IF known THEN {v \in VmsOf(r) : vm[v] \in {"up", "going"}} ELSE {} IN
               job' = [job EXCEPT ![w] = Task("fetch", r, "store", list, 0)]
            /\ UNCHANGED until
    /\ UNCHANGED <<template, revision, manager, instance, cleaned, outside, bounds, crossed>>

\* ensure_entity_exists() for each, and set_instances().
StoreInstances(w) ==
    /\ Is(w, "fetch", "store")
    /\ instance' = [v \in Vms |-> IF v \in job[w].list /\ ~instance[v].exists
                                  THEN NewInstance ELSE instance[v]]
    /\ manager' = [manager EXCEPT ![job[w].on].instances =
                      IF manager[job[w].on].exists THEN job[w].list ELSE @]
    /\ Ends(w)
    /\ UNCHANGED <<template, revision, cleaned, outside, bounds, crossed>>

CheckInstance(w) ==
    /\ Is(w, "catalog", "queued")
    /\ LET v == job[w].on IN
       GoesOn(w, /\ instance[v].exists /\ ~instance[v].cataloged /\ ~instance[v].pending
                 /\ manager[v[1]].exists /\ revision[v[1]].exists, "call")
    /\ UNCHANGED <<template, revision, manager, instance, cleaned, outside, bounds, crossed>>

IsMarked(v) ==
    \/ instance[v].pending \/ ~instance[v].exists
    \/ \E x \in Workers : job[x].on = v /\ job[x].do \in {"remove", "update"} /\ job[x].step = "mark"

\* add_machine(): HOSTNAME_REUSE is success.
AddMachine(w) ==
    /\ Is(w, "catalog", "call")
    /\ LET v == job[w].on IN
        /\ catalog' = [catalog EXCEPT ![v] = IF @ = "absent" THEN "free" ELSE @]
        /\ crossed' = IF IsMarked(v) THEN crossed \cup {v} ELSE crossed
    /\ Becomes(w, "store")
    /\ UNCHANGED <<entities, gce, vm, bounds>>

SetCataloged(w) ==
    /\ Is(w, "catalog", "store")
    /\ LET v == job[w].on IN
       IF instance[v].exists /\ ~instance[v].cataloged
       THEN /\ Put({w}, v, [instance[v] EXCEPT !.cataloged = TRUE])
            /\ job' = [job EXCEPT ![w] = Idle]
       ELSE Ends(w) /\ UNCHANGED instance
    /\ UNCHANGED <<template, revision, manager, cleaned, outside, bounds, crossed>>

\* retrieve_machine()
RetrieveMachine(w) ==
    /\ Is(w, "update", "queued")
    /\ LET v == job[w].on IN
       IF instance[v].exists /\ instance[v].cataloged /\ ~instance[v].pending
       THEN \/ catalog[v] = "absent" /\ Becomes(w, "mark") /\ UNCHANGED until
            \/ catalog[v] = "leased" /\ ~instance[v].leased /\ Becomes(w, "store") /\ UNCHANGED until
            \/ /\ catalog[v] = "free" \/ (catalog[v] = "leased" /\ instance[v].leased)
               /\ Ends(w)
       ELSE Ends(w)
    /\ UNCHANGED <<template, revision, manager, instance, cleaned, outside, bounds, crossed>>

\* add_lease_expiration_ts()
StoreLease(w) ==
    /\ Is(w, "update", "store")
    /\ LET v == job[w].on IN
       IF instance[v].exists /\ ~instance[v].leased
       THEN /\ Put({w}, v, [instance[v] EXCEPT !.leased = TRUE])
            /\ job' = [job EXCEPT ![w] = Idle]
       ELSE Ends(w) /\ UNCHANGED instance
    /\ UNCHANGED <<template, revision, manager, cleaned, outside, bounds, crossed>>

\* Mutant of IsRemovable: a machine is removed under its lessee.
AnyIsRemovable(v) == TRUE

\* delete_machine() refuses a machine that is leased.
IsRemovable(v) == catalog[v] # "leased"

RemoveMachine(w) ==
    /\ Is(w, "remove", "queued")
    /\ LET v == job[w].on IN
       IF instance[v].exists /\ ~instance[v].pending /\ IsRemovable(v)
       THEN /\ catalog' = [catalog EXCEPT ![v] = IF @ = "free" THEN "absent" ELSE @]
            /\ Becomes(w, "mark") /\ UNCHANGED until
       ELSE Ends(w) /\ UNCHANGED catalog
    /\ UNCHANGED <<template, revision, manager, instance, cleaned, gce, vm, bounds, crossed>>

\* mark_for_deletion(), by remove() or update_cataloged_instance().
MarkForDeletion(w) ==
    /\ job[w].step = "mark"
    /\ LET v == job[w].on IN
       IF instance[v].exists /\ ~instance[v].pending
       THEN /\ Put({w}, v, [instance[v] EXCEPT !.leased = FALSE, !.pending = TRUE])
            /\ job' = [job EXCEPT ![w] = Idle]
       ELSE Ends(w) /\ UNCHANGED instance
    /\ UNCHANGED <<template, revision, manager, cleaned, outside, bounds, crossed>>

HasGone(v) == vm[v] \notin {"up", "going"}

\* cleanup_drained_instance()
CleanupDrained(w) ==
    /\ Is(w, "cleanup", "queued")
    /\ LET v == job[w].on IN
       IF /\ instance[v].exists /\ ~instance[v].deleted
          /\ manager[v[1]].exists /\ revision[v[1]].exists
          /\ revision[v[1]].managed = "drained" \/ v[1] \in template.drained
          /\ HasGone(v)
       THEN /\ Put({w}, v, [instance[v] EXCEPT !.deleted = TRUE])
            /\ job' = [job EXCEPT ![w] = Idle]
       ELSE Ends(w) /\ UNCHANGED instance
    /\ UNCHANGED <<template, revision, manager, cleaned, outside, bounds, crossed>>

-----------------------------------------------------------------------------
(* Deletions.  What these cron jobs find, their tasks check again.         *)

DeletePending(v) ==
    /\ instance[v].exists /\ instance[v].pending /\ ~instance[v].deleted
    /\ manager[v[1]].exists /\ revision[v[1]].exists /\ gce[v[1]].group
    /\ vm[v] = "up"
    /\ vm' = [vm EXCEPT ![v] = "going"]
    /\ gce' = [gce EXCEPT ![v[1]].size = Max({0, @ - 1})]
    /\ UNCHANGED <<entities, catalog, job, bounds, crossed>>

CheckDeleted(v) ==
    /\ instance[v].exists /\ instance[v].pending /\ ~instance[v].deleted
    /\ HasGone(v)
    /\ Put({}, v, [instance[v] EXCEPT !.deleted = TRUE])
    /\ UNCHANGED <<template, revision, manager, cleaned, outside, job, bounds, crossed>>

\* Mutant of IsOld: the entity is cleaned up at once.
IsOldAtOnce(v) == TRUE

\* Twenty minutes go by: the tasks that were running, ten at most, are over.
IsOld(v) == until[v] = {}

Ages(v) ==
    /\ instance[v].exists /\ instance[v].deleted /\ ~instance[v].old
    /\ IsOld(v)
    /\ instance' = [instance EXCEPT ![v].old = TRUE]
    /\ UNCHANGED <<template, revision, manager, until, cleaned, outside, job, bounds, crossed>>

CleanupDeleted(v) ==
    /\ instance[v].exists /\ instance[v].deleted /\ instance[v].old
    /\ instance' = [instance EXCEPT ![v] = NoInstance]
    /\ cleaned' = cleaned \cup {v}
    /\ UNCHANGED <<template, revision, manager, until, outside, job, bounds, crossed>>

\* delete_instance_group_manager()
CleanupManager(r) ==
    /\ IsDrained(r)
    /\ manager[r].exists /\ ~manager[r].url /\ manager[r].instances = {}
    /\ revision' = [revision EXCEPT ![r].managed = "none"]
    /\ manager' = [manager EXCEPT ![r] = NoManager]
    /\ UNCHANGED <<template, instance, until, cleaned, outside, job, bounds, crossed>>

\* delete_instance_template_revision()
CleanupRevision(r) ==
    /\ r \in template.drained
    /\ revision[r].exists /\ revision[r].managed = "none" /\ ~revision[r].url
    /\ template' = [template EXCEPT !.drained = @ \ {r}]
    /\ revision' = [revision EXCEPT ![r] = NoRevisionEntity]
    /\ UNCHANGED <<manager, instance, until, cleaned, outside, job, bounds, crossed>>

-----------------------------------------------------------------------------
(* GCE and the Machine Provider.                                           *)

VmComes(v) ==
    /\ gce[v[1]].group /\ UpIn(v[1]) < gce[v[1]].size
    /\ vm[v] = "none" /\ \A u \in VmsOf(v[1]) : u[2] < v[2] => vm[u] # "none"
    /\ vm' = [vm EXCEPT ![v] = "up"]
    /\ UNCHANGED <<entities, gce, catalog, job, bounds, crossed>>

VmGoes(v) ==
    /\ vm[v] = "going"
    /\ vm' = [vm EXCEPT ![v] = "gone"]
    /\ UNCHANGED <<entities, gce, catalog, job, bounds, crossed>>

\* Somebody else deletes it.
VmVanishes(v) ==
    /\ vm[v] = "up"
    /\ faults < MaxFaults /\ faults' = faults + 1
    /\ vm' = [vm EXCEPT ![v] = "lost"]
    /\ UNCHANGED <<entities, gce, catalog, job, changes, crossed>>

LeaseMachine(v) ==
    /\ catalog[v] = "free"
    /\ catalog' = [catalog EXCEPT ![v] = "leased"]
    /\ UNCHANGED <<entities, gce, vm, job, bounds, crossed>>

\* The policy on_reclamation is DELETE.
ReclaimMachine(v) ==
    /\ catalog[v] = "leased"
    /\ catalog' = [catalog EXCEPT ![v] = "absent"]
    /\ UNCHANGED <<entities, gce, vm, job, bounds, crossed>>

-----------------------------------------------------------------------------
Step(w) ==
    \/ CheckTemplate(w) \/ CallTemplate(w) \/ StoreTemplateUrl(w)
    \/ CheckManager(w) \/ CreateGroup(w) \/ DeleteGroup(w) \/ StoreManagerUrl(w)
    \/ CheckSize(w) \/ ResizeGroup(w)
    \/ ListInstances(w) \/ StoreInstances(w)
    \/ CheckInstance(w) \/ AddMachine(w) \/ SetCataloged(w)
    \/ RetrieveMachine(w) \/ StoreLease(w) \/ RemoveMachine(w) \/ MarkForDeletion(w) \/ CleanupDrained(w)

Cleanup(v) ==
    \/ DeletePending(v) \/ CheckDeleted(v) \/ CleanupDeleted(v)

Next ==
    \/ \E r \in Revisions \cup {NoRevision}, managed \in BOOLEAN : ParseConfig(r, managed)
    \/ \E w \in Workers :
          \/ \E do \in DOMAIN Due : \E x \in Due[do] : Enqueue(w, do, x)
          \/ Step(w) \/ TaskDies(w)
    \/ \E v \in Vms :
          \/ Cleanup(v) \/ Ages(v)
          \/ VmComes(v) \/ VmGoes(v) \/ VmVanishes(v) \/ LeaseMachine(v) \/ ReclaimMachine(v)
    \/ \E r \in Revisions : CleanupManager(r) \/ CleanupRevision(r)

Spec == Init /\ [][Next]_vars

\* Each cron job runs every minute, and its tasks are run in their turn; a
\* machine that GCE deletes goes, a lease ends, and time passes.
FairSpec ==
    /\ Spec
    /\ \A w \in Workers : WF_vars(Step(w))
    /\ \A r \in Revisions :
          /\ WF_vars(CleanupManager(r)) /\ WF_vars(CleanupRevision(r))
          /\ \A do \in {"deleteTemplate", "deleteManager", "fetch"} :
                SF_vars(\E w \in Workers : Enqueue(w, do, r))
    /\ \A v \in Vms :
          /\ WF_vars(Cleanup(v)) /\ WF_vars(Ages(v)) /\ WF_vars(VmGoes(v)) /\ WF_vars(ReclaimMachine(v))
          /\ \A do \in {"remove", "update"} : SF_vars(\E w \in Workers : Enqueue(w, do, v))

-----------------------------------------------------------------------------
(* Properties.                                                             *)

\* What the Machine Provider may lend is there: a virtual machine is not deleted
\* while the catalog has it.  Nothing is said of one that somebody else deleted,
\* nor of one that tasks crossed on: cataloged after it was found to be removed,
\* or in a group that was resized or deleted by a task that did not know of it.
OfferedIsThere ==
    \A v \in Vms : catalog[v] # "absent" => vm[v] \in {"up", "lost"} \/ v \in crossed

\* The entity of an instance does not come back once it was cleaned up: the tasks
\* that had listed the instance before it was gone are over by then.
CleanedStaysClean == \A v \in cleaned : ~instance[v].exists

\* A manager may be left with instances of a group that is gone: they are not
\* listed any more, so that it is not cleaned up either.
KeepsGhosts(r) == manager[r].instances # {} /\ ~gce[r].group

\* A revision that is not configured any more goes away in the end: its virtual
\* machines, whoever leased them, and, but for ghosts, its entities.
OldGoes == \A r \in Revisions :
    <>[](template.active # r) =>
       <>[](/\ \A v \in VmsOf(r) : HasGone(v)
            /\ \/ manager[r] = NoManager /\ revision[r] = NoRevisionEntity
               \/ KeepsGhosts(r))
=============================================================================
