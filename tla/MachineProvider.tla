-------------------------- MODULE MachineProvider --------------------------
(***************************************************************************)
(* The Machine Provider: backends put machines in a catalog, lessees ask   *)
(* for machines, cron jobs give machines to requests and take them back.   *)
(*                                                                         *)
(* A transaction is one step.  A handler that looks an entity up outside   *)
(* of the transaction that changes it, or uses none, is two steps, between *)
(* which anything may happen; several such handlers may be between them at *)
(* the same time.  Machines are named by their hostname, which also gives  *)
(* the key of their entry.                                                 *)
(***************************************************************************)
EXTENDS Naturals, FiniteSets

CONSTANTS
    Requests,    \* hashes of lessee and request_id: the keys of LeaseRequest
    Machines,    \* hostnames: the keys of CatalogMachineEntry
    Fits,        \* the pairs <<r, m>> for which can_fulfill() is true
    NoRequest, NoMachine,
    MaxStores,   \* bound: how many times each request is stored
    MaxAdds,     \* bound: how many times each hostname is added to the catalog
    MaxHandlers  \* bound: how many handlers are between their steps

ASSUME ProviderAssumption ==
    /\ Fits \subseteq Requests \X Machines
    /\ NoRequest \notin Requests /\ NoMachine \notin Machines
    /\ MaxStores \in [Requests -> Nat] /\ MaxAdds \in [Machines -> Nat]
    /\ MaxHandlers \in Nat

VARIABLES
    request,      \* LeaseRequest
    catalog,      \* CatalogMachineEntry
    storing,      \* _lease(): requests not found that are about to be stored
    instructing,  \* instruct(): leases and machines that were checked
    updating,     \* poll() and ack(): instruction states about to be written
    reclaimTq,    \* the reclaim-machine task queue
    stores, adds  \* history: how many times each was stored, or added

vars == <<request, catalog, storing, instructing, updating, reclaimTq, stores, adds>>
handlers == <<storing, instructing, updating>>

InstructionStates == {"PENDING", "RECEIVED", "EXECUTED"}

\* machine stands for machine_id and response.hostname, which are set and
\* cleared together.
LeaseRequest ==
    [state : {"ABSENT", "UNTRIAGED", "FULFILLED"},
     machine : Machines \cup {NoMachine},
     released : BOOLEAN]

\* A date is only ever compared with the present.  instructor is history: the
\* lease whose holder gave the instruction.
CatalogMachineEntry ==
    [state : {"ABSENT", "AVAILABLE", "LEASED"},
     lease : Requests \cup {NoRequest},
     expiry : {"none", "future", "past"},
     instruction : InstructionStates \cup {"none"},
     instructor : Requests \cup {NoRequest}]

NoLeaseRequest == [state |-> "ABSENT", machine |-> NoMachine, released |-> FALSE]
NewLeaseRequest == [NoLeaseRequest EXCEPT !.state = "UNTRIAGED"]

NoEntry == [state |-> "ABSENT", lease |-> NoRequest, expiry |-> "none",
            instruction |-> "none", instructor |-> NoRequest]
NewEntry == [NoEntry EXCEPT !.state = "AVAILABLE"]

Init ==
    /\ request = [r \in Requests |-> NoLeaseRequest]
    /\ catalog = [m \in Machines |-> NoEntry]
    /\ storing = {} /\ instructing = {} /\ updating = {} /\ reclaimTq = {}
    /\ stores = [r \in Requests |-> 0]
    /\ adds = [m \in Machines |-> 0]

MayEnter ==
    Cardinality(storing) + Cardinality(instructing) + Cardinality(updating) < MaxHandlers

\* A handler that is done leaves, or was one of several.
Leaves(in, x) == \/ in' = in \ {x}
                 \/ in' = in

-----------------------------------------------------------------------------
(* Lessees: lease() and batched_lease(), release() and batched_release() *)

\* _lease() finds no duplicate.
LeaseStart(r) ==
    /\ request[r].state = "ABSENT"
    /\ MayEnter
    /\ storing' = storing \cup {r}
    /\ UNCHANGED <<request, catalog, instructing, updating, reclaimTq, stores, adds>>

\* _lease() stores the request, outside of any transaction.
LeasePut(r) ==
    /\ r \in storing
    /\ stores[r] < MaxStores[r]
    /\ request' = [request EXCEPT ![r] = NewLeaseRequest]
    /\ stores' = [stores EXCEPT ![r] = @ + 1]
    /\ Leaves(storing, r)
    /\ UNCHANGED <<catalog, instructing, updating, reclaimTq, adds>>

\* The handler reaches its deadline before the put.
LeaseFails(r) ==
    /\ r \in storing
    /\ storing' = storing \ {r}
    /\ UNCHANGED <<request, catalog, instructing, updating, reclaimTq, stores, adds>>

Release(r) ==
    /\ request[r].state = "FULFILLED"
    /\ request[r].machine # NoMachine
    /\ request' = [request EXCEPT ![r].released = TRUE]
    /\ UNCHANGED <<catalog, handlers, reclaimTq, stores, adds>>

\* instruct() reads the lease, then the machine.
InstructStart(r, m) ==
    /\ request[r].state = "FULFILLED" /\ request[r].machine = m
    /\ catalog[m].state # "ABSENT" /\ catalog[m].lease = r
    /\ catalog[m].expiry # "past"
    /\ MayEnter
    /\ instructing' = instructing \cup {<<r, m>>}
    /\ UNCHANGED <<request, catalog, storing, updating, reclaimTq, stores, adds>>

\* _instruct(): the machine is not checked again.  If the entry is gone it
\* raises.
InstructTxn(r, m) ==
    /\ <<r, m>> \in instructing
    /\ catalog' = IF catalog[m].state = "ABSENT" THEN catalog
                  ELSE [catalog EXCEPT ![m].instruction = "PENDING",
                                       ![m].instructor = r]
    /\ instructing' = instructing \ {<<r, m>>}
    /\ UNCHANGED <<request, storing, updating, reclaimTq, stores, adds>>

-----------------------------------------------------------------------------
(* Backends: add_machine(), add_machines(), delete_machine() *)

AddMachine(m) ==
    /\ catalog[m].state = "ABSENT"
    /\ adds[m] < MaxAdds[m]
    /\ catalog' = [catalog EXCEPT ![m] = NewEntry]
    /\ adds' = [adds EXCEPT ![m] = @ + 1]
    /\ UNCHANGED <<request, handlers, reclaimTq, stores>>

\* Mutant: the state of the lease is not looked at.
MayDeleteLeased(m) == catalog[m].state # "ABSENT"

\* _delete_machine() refuses an entry that has a lease.
MayDelete(m) == catalog[m].state # "ABSENT" /\ catalog[m].lease = NoRequest

DeleteMachine(m) ==
    /\ MayDelete(m)
    /\ catalog' = [catalog EXCEPT ![m] = NoEntry]
    /\ UNCHANGED <<request, handlers, reclaimTq, stores, adds>>

-----------------------------------------------------------------------------
(* Machines: poll() and ack() *)

\* poll() by the machine itself, outside of a transaction.  It reads the entry,
\* then the request; one step for both leaves out a poll during which
\* release_lease() ends the lease, whose answer is late either way.
PollStart(m) ==
    LET r == catalog[m].lease
    IN  /\ r # NoRequest
        /\ catalog[m].instruction = "PENDING"
        /\ catalog[m].expiry # "past"
        /\ ~request[r].released
        /\ MayEnter
        /\ updating' = updating \cup {<<m, "RECEIVED">>}
        /\ UNCHANGED <<request, catalog, storing, instructing, reclaimTq, stores, adds>>

AckStart(m) ==
    /\ catalog[m].lease # NoRequest
    /\ catalog[m].instruction \in InstructionStates \ {"EXECUTED"}
    /\ MayEnter
    /\ updating' = updating \cup {<<m, "EXECUTED">>}
    /\ UNCHANGED <<request, catalog, storing, instructing, reclaimTq, stores, adds>>

AllowedTransitions ==
    {<<"PENDING", "RECEIVED">>, <<"PENDING", "EXECUTED">>, <<"RECEIVED", "EXECUTED">>}

\* _update_instruction_state().
UpdateInstructionTxn(m, new) ==
    /\ <<m, new>> \in updating
    /\ catalog' = IF <<catalog[m].instruction, new>> \in AllowedTransitions
                  THEN [catalog EXCEPT ![m].instruction = new]
                  ELSE catalog
    /\ updating' = updating \ {<<m, new>>}
    /\ UNCHANGED <<request, storing, instructing, reclaimTq, stores, adds>>

-----------------------------------------------------------------------------
(* Cron jobs and the task queue *)

\* Mutant: the request found by the query is not read again.
MayLeaseAgain(r, m) ==
    /\ <<r, m>> \in Fits
    /\ catalog[m].state = "AVAILABLE"
    /\ request[r].state # "ABSENT"

\* What lease_machine() checks in its transaction.
MayLease(r, m) ==
    /\ <<r, m>> \in Fits
    /\ catalog[m].state = "AVAILABLE"
    /\ request[r].state = "UNTRIAGED"

\* lease_machine().  A lease that was asked for up to a date may be over.
LeaseMachine(r, m) ==
    /\ MayLease(r, m)
    /\ request' = [request EXCEPT ![r].state = "FULFILLED", ![r].machine = m]
    /\ \E e \in {"future", "past"} :
          catalog' = [catalog EXCEPT ![m].state = "LEASED", ![m].lease = r,
                                     ![m].expiry = e]
    /\ UNCHANGED <<handlers, reclaimTq, stores, adds>>

\* Mutant: the date is only changed in the request.
ReleasedEntryKept(entry) == entry

\* Mutant: a machine that was released is available at once.
ReleasedEntryAvailable(entry) == [entry EXCEPT !.state = "AVAILABLE"]

\* release_lease() lets the machine expire now.
ReleasedEntry(entry) == [entry EXCEPT !.expiry = "past"]

ReleaseLease(r) ==
    LET m == request[r].machine
    IN  /\ request[r].released
        /\ request' = [request EXCEPT ![r].released = FALSE]
        /\ catalog' = IF m # NoMachine /\ catalog[m].state # "ABSENT"
                      THEN [catalog EXCEPT ![m] = ReleasedEntry(@)]
                      ELSE catalog
        /\ UNCHANGED <<handlers, reclaimTq, stores, adds>>

\* Mutant: any machine that is leased is reclaimed.
IsLeased(m) == catalog[m].expiry # "none"

\* What reclaim_machine() checks in its transaction.
IsOverdue(m) == catalog[m].expiry = "past"

\* reclaim_machine() only adds a task, at every pass until the machine is gone.
ReclaimMachine(m) ==
    /\ IsOverdue(m)
    /\ reclaimTq' = reclaimTq \cup
          {[machine |-> m, lease |-> catalog[m].lease,
            hostname |-> request[catalog[m].lease].machine]}
    /\ UNCHANGED <<request, catalog, handlers, stores, adds>>

WithoutMachine(lease) == [lease EXCEPT !.machine = NoMachine]

\* reclaim() takes the machine from whoever has it.
Reclaim(task) ==
    LET m == task.machine
        r == catalog[m].lease
    IN  /\ r # NoRequest
        /\ request' = [request EXCEPT ![r] = WithoutMachine(@)]
        /\ catalog' = [catalog EXCEPT ![m] = NoEntry]
        /\ UNCHANGED <<handlers, stores, adds>>

\* MachineReclaimer.  The queue may hold the task several times.
ReclaimTask(task) ==
    /\ task \in reclaimTq
    /\ Reclaim(task)
    /\ Leaves(reclaimTq, task)

\* The entry is gone, reclaim() raises because it has no lease, or a
\* notification could not be sent.  The queue does not retry.
ReclaimTaskIsLost(task) ==
    /\ task \in reclaimTq
    /\ reclaimTq' = reclaimTq \ {task}
    /\ UNCHANGED <<request, catalog, handlers, stores, adds>>

LeaseEnds(m) ==
    /\ catalog[m].expiry = "future"
    /\ catalog' = [catalog EXCEPT ![m].expiry = "past"]
    /\ UNCHANGED <<request, handlers, reclaimTq, stores, adds>>

-----------------------------------------------------------------------------
Lessee ==
    \E r \in Requests :
        \/ LeaseStart(r) \/ LeasePut(r) \/ LeaseFails(r) \/ Release(r)
        \/ \E m \in Machines : InstructStart(r, m) \/ InstructTxn(r, m)

Backend == \E m \in Machines : AddMachine(m) \/ DeleteMachine(m)

Machine ==
    \E m \in Machines :
        \/ PollStart(m) \/ AckStart(m)
        \/ \E new \in InstructionStates : UpdateInstructionTxn(m, new)

Cron ==
    \/ \E r \in Requests : ReleaseLease(r) \/ \E m \in Machines : LeaseMachine(r, m)
    \/ \E m \in Machines : ReclaimMachine(m)

TaskQueue == \E task \in reclaimTq : ReclaimTask(task) \/ ReclaimTaskIsLost(task)

Time == \E m \in Machines : LeaseEnds(m)

Next == Lessee \/ Backend \/ Machine \/ Cron \/ TaskQueue \/ Time

Spec == Init /\ [][Next]_vars

\* Cron jobs run every minute, whatever happens.  A task may be lost, but not
\* each time it is added again.
Fairness ==
    /\ \A r \in Requests : WF_vars(ReleaseLease(r))
    /\ \A m \in Machines :
          /\ WF_vars(ReclaimMachine(m))
          /\ SF_vars(\E task \in reclaimTq : task.machine = m /\ ReclaimTask(task))

FairSpec == Spec /\ Fairness

-----------------------------------------------------------------------------
(* Safety *)

ReclaimTasks ==
    [machine : Machines, lease : Requests, hostname : Machines \cup {NoMachine}]

TypeOK ==
    /\ request \in [Requests -> LeaseRequest]
    /\ catalog \in [Machines -> CatalogMachineEntry]
    /\ storing \subseteq Requests
    /\ instructing \subseteq Requests \X Machines
    /\ updating \subseteq Machines \X InstructionStates
    /\ reclaimTq \subseteq ReclaimTasks
    /\ stores \in [Requests -> Nat]
    /\ adds \in [Machines -> Nat]
    /\ \A m \in Machines :
          /\ (catalog[m].state = "LEASED") <=> (catalog[m].lease # NoRequest)
          /\ (catalog[m].state = "LEASED") <=> (catalog[m].expiry # "none")

\* A request that was stored once and the machine it was given agree about each
\* other at all times: no machine is held for a request that does not know, and
\* a lessee is never told of a machine that others may have.
LeaseAgreement ==
    \A r \in Requests, m \in Machines :
        stores[r] <= 1 => (catalog[m].lease = r <=> request[r].machine = m)

\* What a backend is told was reclaimed is the machine whose entry is deleted,
\* and the lease of that entry is over.
RightMachineIsReclaimed ==
    \A task \in reclaimTq :
        /\ stores[task.lease] <= 1 => task.hostname = task.machine
        /\ adds[task.machine] <= 1 =>
              \/ catalog[task.machine].state = "ABSENT"
              \/ /\ catalog[task.machine].lease = task.lease
                 /\ catalog[task.machine].expiry = "past"

\* The instruction of a machine comes from the holder of its lease, although
\* _instruct() does not check the lease again.
InstructionIsItsOwn ==
    \A m \in Machines :
        adds[m] <= 1 /\ catalog[m].instruction # "none" =>
            catalog[m].instructor = catalog[m].lease

\* No lease is cut short: a machine leaves the catalog when its lease is over,
\* or when it has none.
LeaseRunsItsTime ==
    [][\A m \in Machines :
          adds[m] <= 1 /\ catalog[m].expiry = "future" => catalog'[m].state = "LEASED"]_vars

-----------------------------------------------------------------------------
(* Liveness *)

\* A lease that is given back ends, long before its date if need be, whatever
\* tasks are lost.
ReleasedIsReclaimed ==
    \A r \in Requests, m \in Machines :
        request[r].released /\ request[r].machine = m
          ~> (catalog[m].lease # r \/ stores[r] > 1)
=============================================================================
