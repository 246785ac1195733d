----------------------- MODULE MachineProviderProofs -----------------------
(***************************************************************************)
(* Proofs about MachineProvider, for any requests and machines.            *)
(*                                                                         *)
(* The inductive invariant strengthens the safety properties by what makes *)
(* them stable: a request only names a machine that has its lease          *)
(* (NamesItsMachine, even for requests that were stored again), entries    *)
(* and tasks are only there for machines that were added (AddedBefore),    *)
(* and a pair instruct() has checked is one lease (CheckedIsLeased).       *)
(***************************************************************************)
EXTENDS MachineProvider, TLAPS

NamesItsMachine ==
    \A r \in Requests :
        /\ stores[r] = 0 => request[r].state = "ABSENT"
        /\ request[r].state # "FULFILLED" => request[r].machine = NoMachine
        /\ \A m \in Machines : request[r].machine = m => catalog[m].lease = r

KnowsItsLease ==
    \A r \in Requests, m \in Machines :
        stores[r] <= 1 /\ catalog[m].lease = r => request[r].machine = m

AddedBefore ==
    \A m \in Machines :
        adds[m] = 0 => /\ catalog[m].state = "ABSENT"
                       /\ \A task \in reclaimTq : task.machine # m
                       /\ \A r \in Requests : <<r, m>> \notin instructing

\* The lease of an entry that is the only one its machine has had so far.
FirstLease(m, r) == catalog[m].state = "ABSENT" \/ catalog[m].lease = r

CheckedIsLeased ==
    \A r \in Requests, m \in Machines :
        <<r, m>> \in instructing /\ adds[m] <= 1 => FirstLease(m, r)

TaskIsRight ==
    \A task \in reclaimTq :
        /\ stores[task.lease] <= 1 => task.hostname = task.machine
        /\ adds[task.machine] <= 1 =>
              /\ FirstLease(task.machine, task.lease)
              /\ catalog[task.machine].state # "ABSENT" =>
                    catalog[task.machine].expiry = "past"

Instructed ==
    \A m \in Machines :
        adds[m] <= 1 /\ catalog[m].instruction # "none" =>
            /\ catalog[m].lease \in Requests
            /\ catalog[m].instructor = catalog[m].lease

Inv ==
    /\ TypeOK
    /\ NamesItsMachine
    /\ KnowsItsLease
    /\ AddedBefore
    /\ CheckedIsLeased
    /\ TaskIsRight
    /\ Instructed

-----------------------------------------------------------------------------

-----------------------------------------------------------------------------
LEMMA InitInv == Init => Inv
<1> SUFFICES ASSUME Init PROVE Inv
  OBVIOUS
<1>1. TypeOK
  BY ProviderAssumption DEF Init, TypeOK, LeaseRequest, CatalogMachineEntry, NoLeaseRequest, NoEntry
<1>2. NamesItsMachine /\ KnowsItsLease
  BY ProviderAssumption DEF Init, NamesItsMachine, KnowsItsLease, NoLeaseRequest, NoEntry
<1>3. AddedBefore /\ CheckedIsLeased /\ TaskIsRight /\ Instructed
  BY DEF Init, AddedBefore, CheckedIsLeased, TaskIsRight, Instructed, NoEntry
<1> QED BY <1>1, <1>2, <1>3 DEF Inv

LEMMA StutterInv == Inv /\ UNCHANGED vars => Inv'
  BY DEF Inv, TypeOK, NamesItsMachine, KnowsItsLease, AddedBefore, CheckedIsLeased, TaskIsRight,
         Instructed, FirstLease, vars

\* lease(): a request is about to be stored.
LEMMA LeaseStartInv ==
  ASSUME Inv, NEW r \in Requests, LeaseStart(r)
  PROVE  Inv'
<1>1. TypeOK'
  BY DEF Inv, TypeOK, LeaseStart
<1>2. NamesItsMachine' /\ KnowsItsLease' /\ AddedBefore' /\ CheckedIsLeased' /\ TaskIsRight'
       /\ Instructed'
  BY DEF Inv, NamesItsMachine, KnowsItsLease, AddedBefore, CheckedIsLeased, FirstLease,
     TaskIsRight, Instructed, LeaseStart
<1> QED BY <1>1, <1>2 DEF Inv

\* _lease(): only a request that is stored again may already name a machine.
LEMMA LeasePutInv ==
  ASSUME Inv, NEW r \in Requests, LeasePut(r)
  PROVE  Inv'
<1>1. TypeOK'
  <2>1. NewLeaseRequest \in LeaseRequest
    BY DEF NewLeaseRequest, NoLeaseRequest, LeaseRequest
  <2>2. request' \in [Requests -> LeaseRequest]
    BY <2>1 DEF Inv, TypeOK, LeasePut
  <2> QED
    BY <2>2 DEF Inv, TypeOK, LeasePut, Leaves
<1>2. NamesItsMachine'
  BY ProviderAssumption DEF Inv, TypeOK, NamesItsMachine, NoLeaseRequest, NewLeaseRequest,
     LeasePut
<1>3. KnowsItsLease'
  BY DEF Inv, TypeOK, NamesItsMachine, KnowsItsLease, CatalogMachineEntry, NoLeaseRequest,
     NewLeaseRequest, LeasePut
<1>4. TaskIsRight'
  BY DEF Inv, TypeOK, TaskIsRight, FirstLease, LeasePut
<1>5. AddedBefore' /\ CheckedIsLeased' /\ Instructed'
  BY DEF Inv, AddedBefore, CheckedIsLeased, FirstLease, Instructed, LeasePut
<1> QED BY <1>1, <1>2, <1>3, <1>4, <1>5 DEF Inv

\* A request is not stored after all.
LEMMA LeaseFailsInv ==
  ASSUME Inv, NEW r \in Requests, LeaseFails(r)
  PROVE  Inv'
<1>1. TypeOK'
  BY DEF Inv, TypeOK, LeaseFails
<1>2. NamesItsMachine' /\ KnowsItsLease' /\ AddedBefore' /\ CheckedIsLeased' /\ TaskIsRight'
       /\ Instructed'
  BY DEF Inv, NamesItsMachine, KnowsItsLease, AddedBefore, CheckedIsLeased, FirstLease,
     TaskIsRight, Instructed, LeaseFails
<1> QED BY <1>1, <1>2 DEF Inv

\* release(): the lessee gives the machine back.
LEMMA ReleaseInv ==
  ASSUME Inv, NEW r \in Requests, Release(r)
  PROVE  Inv'
<1>1. TypeOK'
  <2>0. request[r] \in LeaseRequest
    BY DEF Inv, TypeOK
  <2>1. [request[r] EXCEPT !.released = TRUE] \in LeaseRequest
    BY <2>0 DEF LeaseRequest
  <2>2. request' \in [Requests -> LeaseRequest]
    BY <2>1 DEF Inv, TypeOK, Release
  <2> QED
    BY <2>2 DEF Inv, TypeOK, Release, handlers
<1>2. NamesItsMachine' /\ KnowsItsLease' /\ AddedBefore' /\ CheckedIsLeased' /\ TaskIsRight'
       /\ Instructed'
  BY DEF Inv, NamesItsMachine, KnowsItsLease, AddedBefore, handlers, CheckedIsLeased,
     FirstLease, TaskIsRight, Instructed, Release
<1> QED BY <1>1, <1>2 DEF Inv

\* instruct() checks that the lease is that of the machine.
LEMMA InstructStartInv ==
  ASSUME Inv, NEW r \in Requests, NEW m \in Machines, InstructStart(r, m)
  PROVE  Inv'
<1>1. TypeOK'
  BY DEF Inv, TypeOK, InstructStart
<1>2. NamesItsMachine' /\ KnowsItsLease' /\ AddedBefore' /\ CheckedIsLeased' /\ TaskIsRight'
       /\ Instructed'
  BY DEF Inv, NamesItsMachine, KnowsItsLease, AddedBefore, CheckedIsLeased, FirstLease,
     TaskIsRight, Instructed, InstructStart
<1> QED BY <1>1, <1>2 DEF Inv

\* _instruct(): the pair was checked, and the entry is still the first of its machine.
LEMMA InstructTxnInv ==
  ASSUME Inv, NEW r \in Requests, NEW m \in Machines, InstructTxn(r, m)
  PROVE  Inv'
<1>1. TypeOK'
  <2>0. catalog[m] \in CatalogMachineEntry
    BY DEF Inv, TypeOK
  <2>1. [catalog[m] EXCEPT !.instruction = "PENDING", !.instructor = r] \in CatalogMachineEntry
    BY <2>0 DEF CatalogMachineEntry, InstructionStates
  <2>2. catalog' \in [Machines -> CatalogMachineEntry]
    BY <2>1 DEF Inv, TypeOK, InstructTxn
  <2>3. \A n \in Machines : /\ catalog'[n].state = catalog[n].state
                            /\ catalog'[n].lease = catalog[n].lease
                            /\ catalog'[n].expiry = catalog[n].expiry
    BY DEF Inv, TypeOK, InstructTxn, CatalogMachineEntry
  <2> QED
    BY <2>2, <2>3 DEF Inv, TypeOK, InstructTxn
<1>2. NamesItsMachine'
  BY DEF Inv, TypeOK, NamesItsMachine, InstructTxn
<1>3. KnowsItsLease'
  BY DEF Inv, TypeOK, KnowsItsLease, InstructTxn
<1>4. AddedBefore'
  BY DEF Inv, TypeOK, AddedBefore, InstructTxn
<1>5. CheckedIsLeased'
  BY DEF Inv, TypeOK, CheckedIsLeased, FirstLease, InstructTxn
<1>6. TaskIsRight'
  BY DEF Inv, TypeOK, TaskIsRight, FirstLease, ReclaimTasks, InstructTxn
<1>7. Instructed'
  BY DEF Inv, TypeOK, CheckedIsLeased, Instructed, FirstLease, InstructTxn
<1> QED BY <1>1, <1>2, <1>3, <1>4, <1>5, <1>6, <1>7 DEF Inv

\* add_machine(): the first time, nothing is left of an earlier entry.
LEMMA AddMachineInv ==
  ASSUME Inv, NEW m \in Machines, AddMachine(m)
  PROVE  Inv'
<1>1. TypeOK'
  BY DEF Inv, TypeOK, handlers, CatalogMachineEntry, NoEntry, NewEntry, AddMachine
<1>2. NamesItsMachine'
  BY DEF Inv, TypeOK, NamesItsMachine, NoEntry, NewEntry, AddMachine
<1>3. KnowsItsLease'
  BY DEF Inv, TypeOK, KnowsItsLease, NoEntry, NewEntry, AddMachine
<1>4. AddedBefore'
  BY DEF Inv, TypeOK, AddedBefore, handlers, AddMachine
<1>5. CheckedIsLeased'
  BY DEF Inv, TypeOK, AddedBefore, CheckedIsLeased, FirstLease, handlers, AddMachine
<1>6. TaskIsRight'
  BY DEF Inv, TypeOK, AddedBefore, TaskIsRight, FirstLease, ReclaimTasks, AddMachine
<1>7. Instructed'
  BY DEF Inv, TypeOK, Instructed, NoEntry, NewEntry, AddMachine
<1> QED BY <1>1, <1>2, <1>3, <1>4, <1>5, <1>6, <1>7 DEF Inv

\* delete_machine(): the entry has no lease, so nothing names the machine.
LEMMA DeleteMachineInv ==
  ASSUME Inv, NEW m \in Machines, DeleteMachine(m)
  PROVE  Inv'
<1>1. TypeOK'
  BY DEF Inv, TypeOK, handlers, CatalogMachineEntry, NoEntry, DeleteMachine
<1>2. NamesItsMachine'
  BY DEF Inv, NamesItsMachine, NoEntry, MayDelete, DeleteMachine
<1>3. KnowsItsLease'
  BY DEF Inv, KnowsItsLease, NoEntry, MayDelete, DeleteMachine
<1>4. AddedBefore'
  BY DEF Inv, AddedBefore, handlers, MayDelete, DeleteMachine
<1>5. CheckedIsLeased'
  BY DEF Inv, CheckedIsLeased, FirstLease, handlers, NoEntry, DeleteMachine
<1>6. TaskIsRight'
  BY DEF Inv, TaskIsRight, FirstLease, NoEntry, DeleteMachine
<1>7. Instructed'
  BY DEF Inv, Instructed, NoEntry, DeleteMachine
<1> QED BY <1>1, <1>2, <1>3, <1>4, <1>5, <1>6, <1>7 DEF Inv

\* poll() reads the instruction.
LEMMA PollStartInv ==
  ASSUME Inv, NEW m \in Machines, PollStart(m)
  PROVE  Inv'
<1>1. TypeOK'
  BY DEF Inv, TypeOK, InstructionStates, PollStart
<1>2. NamesItsMachine' /\ KnowsItsLease' /\ AddedBefore' /\ CheckedIsLeased' /\ TaskIsRight'
       /\ Instructed'
  BY DEF Inv, NamesItsMachine, KnowsItsLease, AddedBefore, CheckedIsLeased, FirstLease,
     TaskIsRight, Instructed, PollStart
<1> QED BY <1>1, <1>2 DEF Inv

\* ack() reads the instruction.
LEMMA AckStartInv ==
  ASSUME Inv, NEW m \in Machines, AckStart(m)
  PROVE  Inv'
<1>1. TypeOK'
  BY DEF Inv, TypeOK, InstructionStates, AckStart
<1>2. NamesItsMachine' /\ KnowsItsLease' /\ AddedBefore' /\ CheckedIsLeased' /\ TaskIsRight'
       /\ Instructed'
  BY DEF Inv, NamesItsMachine, KnowsItsLease, AddedBefore, CheckedIsLeased, FirstLease,
     TaskIsRight, Instructed, AckStart
<1> QED BY <1>1, <1>2 DEF Inv

\* _update_instruction_state(): a state follows another, the instruction stays.
LEMMA UpdateInstructionTxnInv ==
  ASSUME Inv, NEW m \in Machines, NEW new \in InstructionStates, UpdateInstructionTxn(m, new)
  PROVE  Inv'
<1>1. TypeOK'
  <2>0. catalog[m] \in CatalogMachineEntry
    BY DEF Inv, TypeOK
  <2>1. [catalog[m] EXCEPT !.instruction = new] \in CatalogMachineEntry
    BY <2>0 DEF CatalogMachineEntry
  <2>2. catalog' \in [Machines -> CatalogMachineEntry]
    BY <2>1 DEF Inv, TypeOK, UpdateInstructionTxn
  <2>3. \A n \in Machines : /\ catalog'[n].state = catalog[n].state
                            /\ catalog'[n].lease = catalog[n].lease
                            /\ catalog'[n].expiry = catalog[n].expiry
    BY DEF Inv, TypeOK, UpdateInstructionTxn, CatalogMachineEntry
  <2> QED
    BY <2>2, <2>3 DEF Inv, TypeOK, UpdateInstructionTxn
<1>2. Instructed'
  BY DEF Inv, Instructed, AllowedTransitions, UpdateInstructionTxn
<1>3. NamesItsMachine' /\ KnowsItsLease' /\ AddedBefore' /\ CheckedIsLeased' /\ TaskIsRight'
  BY DEF Inv, NamesItsMachine, KnowsItsLease, AddedBefore, CheckedIsLeased, FirstLease,
     TaskIsRight, UpdateInstructionTxn
<1> QED BY <1>1, <1>2, <1>3 DEF Inv

\* release_lease(): the machine is overdue from now on.
LEMMA ReleaseLeaseInv ==
  ASSUME Inv, NEW r \in Requests, ReleaseLease(r)
  PROVE  Inv'
<1>1. TypeOK'
  <2> DEFINE m == request[r].machine
  <2>0. request[r] \in LeaseRequest
    BY DEF Inv, TypeOK
  <2>1. [request[r] EXCEPT !.released = FALSE] \in LeaseRequest
    BY <2>0 DEF LeaseRequest
  <2>2. request' \in [Requests -> LeaseRequest]
    BY <2>1 DEF Inv, TypeOK, ReleaseLease
  <2>3. m \in Machines \cup {NoMachine}
    BY DEF Inv, TypeOK, LeaseRequest
  <2>4. m # NoMachine => ReleasedEntry(catalog[m]) \in CatalogMachineEntry
    BY <2>3 DEF Inv, TypeOK, CatalogMachineEntry, ReleasedEntry
  <2>5. catalog' \in [Machines -> CatalogMachineEntry]
    BY <2>3, <2>4 DEF Inv, TypeOK, ReleaseLease
  <2>6. m # NoMachine => catalog[m].lease = r /\ r # NoRequest
    BY <2>3, ProviderAssumption DEF Inv, NamesItsMachine
  <2>7. \A n \in Machines : /\ (catalog'[n].state = "LEASED") <=> (catalog'[n].lease # NoRequest)
                            /\ (catalog'[n].state = "LEASED") <=> (catalog'[n].expiry # "none")
    BY <2>3, <2>6 DEF Inv, TypeOK, ReleaseLease, ReleasedEntry, CatalogMachineEntry
  <2> QED
    BY <2>2, <2>5, <2>7 DEF Inv, TypeOK, ReleaseLease, handlers
<1>2. NamesItsMachine'
  BY DEF Inv, NamesItsMachine, ReleasedEntry, ReleaseLease
<1>3. KnowsItsLease'
  BY DEF Inv, KnowsItsLease, ReleasedEntry, ReleaseLease
<1>4. AddedBefore'
  BY DEF Inv, AddedBefore, handlers, ReleaseLease
<1>5. CheckedIsLeased'
  BY DEF Inv, CheckedIsLeased, FirstLease, handlers, ReleasedEntry, ReleaseLease
<1>6. TaskIsRight'
  BY DEF Inv, TaskIsRight, FirstLease, ReleasedEntry, ReleaseLease
<1>7. Instructed'
  BY DEF Inv, Instructed, ReleasedEntry, ReleaseLease
<1> QED BY <1>1, <1>2, <1>3, <1>4, <1>5, <1>6, <1>7 DEF Inv

\* lease_machine(): the request names no machine and the machine has no lease.
LEMMA LeaseMachineInv ==
  ASSUME Inv, NEW r \in Requests, NEW m \in Machines, LeaseMachine(r, m)
  PROVE  Inv'
<1>1. TypeOK'
  BY DEF Inv, TypeOK, CatalogMachineEntry, MayLease, LeaseMachine
<1>2. NamesItsMachine'
  BY DEF Inv, TypeOK, NamesItsMachine, CatalogMachineEntry, MayLease, LeaseMachine
<1>3. KnowsItsLease'
  BY DEF Inv, TypeOK, KnowsItsLease, CatalogMachineEntry, LeaseMachine
<1>4. AddedBefore'
  BY DEF Inv, TypeOK, AddedBefore, CatalogMachineEntry, MayLease, LeaseMachine
<1>5. CheckedIsLeased'
  BY DEF Inv, TypeOK, CheckedIsLeased, CatalogMachineEntry, MayLease, LeaseMachine
<1>6. TaskIsRight'
  BY DEF Inv, TypeOK, TaskIsRight, CatalogMachineEntry, MayLease, LeaseMachine
<1>7. Instructed'
  BY DEF Inv, TypeOK, Instructed, CatalogMachineEntry, LeaseMachine
<1> QED BY <1>1, <1>2, <1>3, <1>4, <1>5, <1>6, <1>7 DEF Inv

\* reclaim_machine(): the task holds what the entry and the request hold.
LEMMA ReclaimMachineInv ==
  ASSUME Inv, NEW m \in Machines, ReclaimMachine(m)
  PROVE  Inv'
<1>1. TypeOK'
  BY DEF Inv, TypeOK, handlers, LeaseRequest, CatalogMachineEntry, ReclaimTasks, IsOverdue,
     ReclaimMachine
<1>2. AddedBefore'
  BY DEF Inv, TypeOK, AddedBefore, handlers, IsOverdue, ReclaimMachine
<1>3. TaskIsRight'
  BY DEF Inv, TypeOK, KnowsItsLease, TaskIsRight, FirstLease, CatalogMachineEntry,
     IsOverdue, ReclaimMachine
<1>4. NamesItsMachine' /\ KnowsItsLease' /\ CheckedIsLeased' /\ Instructed'
  BY DEF Inv, NamesItsMachine, KnowsItsLease, CheckedIsLeased, FirstLease, handlers,
     Instructed, ReclaimMachine
<1> QED BY <1>1, <1>2, <1>3, <1>4 DEF Inv

\* reclaim(): the entry goes and its request forgets the machine.
LEMMA ReclaimTaskInv ==
  ASSUME Inv, NEW task \in reclaimTq, ReclaimTask(task)
  PROVE  Inv'
<1>1. TypeOK'
  <2> DEFINE m == task.machine
             r == catalog[m].lease
  <2>1. m \in Machines /\ r \in Requests
    BY DEF Inv, TypeOK, ReclaimTasks, CatalogMachineEntry, ReclaimTask, Reclaim
  <2>2. request[r] \in LeaseRequest
    BY <2>1 DEF Inv, TypeOK
  <2>3. WithoutMachine(request[r]) \in LeaseRequest
    BY <2>2 DEF WithoutMachine, LeaseRequest
  <2>4. NoEntry \in CatalogMachineEntry
    BY DEF NoEntry, CatalogMachineEntry
  <2>5. request' \in [Requests -> LeaseRequest] /\ catalog' \in [Machines -> CatalogMachineEntry]
    BY <2>1, <2>3, <2>4 DEF Inv, TypeOK, ReclaimTask, Reclaim
  <2>6. \A n \in Machines : /\ (catalog'[n].state = "LEASED") <=> (catalog'[n].lease # NoRequest)
                            /\ (catalog'[n].state = "LEASED") <=> (catalog'[n].expiry # "none")
    BY <2>1 DEF Inv, TypeOK, ReclaimTask, Reclaim, NoEntry
  <2> QED
    BY <2>5, <2>6 DEF Inv, TypeOK, ReclaimTask, Reclaim, Leaves, handlers
<1>2. NamesItsMachine'
  BY ProviderAssumption DEF Inv, TypeOK, NamesItsMachine, Reclaim, WithoutMachine,
     ReclaimTask
<1>3. KnowsItsLease'
  BY ProviderAssumption DEF Inv, TypeOK, KnowsItsLease, ReclaimTasks, NoEntry, Reclaim,
     ReclaimTask
<1>4. AddedBefore'
  BY DEF Inv, AddedBefore, handlers, Reclaim, Leaves, ReclaimTask
<1>5. CheckedIsLeased'
  BY DEF Inv, CheckedIsLeased, FirstLease, handlers, NoEntry, Reclaim, ReclaimTask
<1>6. TaskIsRight'
  BY DEF Inv, TaskIsRight, FirstLease, NoEntry, Reclaim, Leaves, ReclaimTask
<1>7. Instructed'
  BY DEF Inv, Instructed, NoEntry, Reclaim, ReclaimTask
<1> QED BY <1>1, <1>2, <1>3, <1>4, <1>5, <1>6, <1>7 DEF Inv

\* A task is lost.
LEMMA ReclaimTaskIsLostInv ==
  ASSUME Inv, NEW task \in reclaimTq, ReclaimTaskIsLost(task)
  PROVE  Inv'
<1>1. TypeOK'
  BY DEF Inv, TypeOK, handlers, ReclaimTaskIsLost
<1>2. NamesItsMachine' /\ KnowsItsLease' /\ AddedBefore' /\ CheckedIsLeased' /\ TaskIsRight'
       /\ Instructed'
  BY DEF Inv, NamesItsMachine, KnowsItsLease, AddedBefore, handlers, CheckedIsLeased,
     FirstLease, TaskIsRight, Instructed, ReclaimTaskIsLost
<1> QED BY <1>1, <1>2 DEF Inv

\* The date of a lease passes.
LEMMA LeaseEndsInv ==
  ASSUME Inv, NEW m \in Machines, LeaseEnds(m)
  PROVE  Inv'
<1>1. TypeOK'
  BY ProviderAssumption DEF Inv, TypeOK, AddedBefore, Instructed, handlers,
     CatalogMachineEntry, LeaseEnds
<1>2. NamesItsMachine' /\ KnowsItsLease' /\ AddedBefore' /\ CheckedIsLeased' /\ TaskIsRight'
       /\ Instructed'
  BY DEF Inv, NamesItsMachine, KnowsItsLease, AddedBefore, handlers, CheckedIsLeased,
     FirstLease, TaskIsRight, Instructed, LeaseEnds
<1> QED BY <1>1, <1>2 DEF Inv

-----------------------------------------------------------------------------
LEMMA NextInv ==
  ASSUME Inv, [Next]_vars
  PROVE  Inv'
<1>1. CASE Lessee
  BY <1>1, LeaseStartInv, LeasePutInv, LeaseFailsInv, ReleaseInv, InstructStartInv, InstructTxnInv
     DEF Lessee
<1>2. CASE Backend
  BY <1>2, AddMachineInv, DeleteMachineInv DEF Backend
<1>3. CASE Machine
  BY <1>3, PollStartInv, AckStartInv, UpdateInstructionTxnInv DEF Machine
<1>4. CASE Cron
  BY <1>4, ReleaseLeaseInv, LeaseMachineInv, ReclaimMachineInv DEF Cron
<1>5. CASE TaskQueue
  BY <1>5, ReclaimTaskInv, ReclaimTaskIsLostInv DEF TaskQueue
<1>6. CASE Time
  BY <1>6, LeaseEndsInv DEF Time
<1>7. CASE UNCHANGED vars
  BY <1>7, StutterInv
<1> QED BY <1>1, <1>2, <1>3, <1>4, <1>5, <1>6, <1>7 DEF Next

\* The inductive invariant holds of every reachable state.
THEOREM InvHolds == Spec => []Inv
<1>1. Init => Inv
  BY InitInv
<1>2. Inv /\ [Next]_vars => Inv'
  BY NextInv
<1> QED BY <1>1, <1>2, PTL DEF Spec

\* Requests, entries and tasks have their types; an entry is LEASED exactly
\* when it has a lease and exactly when it has a date.
THEOREM TypeCorrect == Spec => []TypeOK
<1>1. Inv => TypeOK
  BY DEF Inv
<1> QED BY <1>1, InvHolds, PTL

\* A request that was stored once names a machine exactly when the entry of
\* the machine names the request.
THEOREM LeaseAgreementHolds == Spec => []LeaseAgreement
<1>1. Inv => LeaseAgreement
  BY DEF Inv, NamesItsMachine, KnowsItsLease, LeaseAgreement
<1> QED BY <1>1, InvHolds, PTL

\* A reclaim-machine task that waits names the machine it will take, and the
\* lease it was added for is still the one and over.
THEOREM RightMachineIsReclaimedHolds == Spec => []RightMachineIsReclaimed
<1>1. Inv => RightMachineIsReclaimed
  BY DEF Inv, TaskIsRight, FirstLease, RightMachineIsReclaimed
<1> QED BY <1>1, InvHolds, PTL

\* The instruction of a machine was given by the holder of its lease.
THEOREM InstructionIsItsOwnHolds == Spec => []InstructionIsItsOwn
<1>1. Inv => InstructionIsItsOwn
  BY DEF Inv, Instructed, InstructionIsItsOwn
<1> QED BY <1>1, InvHolds, PTL

-----------------------------------------------------------------------------
\* A machine that is leased until a date to come is leased after any step.
RunsOn ==
    \A m \in Machines :
        adds[m] <= 1 /\ catalog[m].expiry = "future" => catalog'[m].state = "LEASED"

\* The steps that take an entry away: delete_machine() finds it has a lease,
\* and reclaim() has a task for a lease that is over.
LEMMA StepRunsOn ==
  ASSUME Inv, [Next]_vars
  PROVE  RunsOn
<1> SUFFICES ASSUME NEW m \in Machines, adds[m] <= 1, catalog[m].expiry = "future"
             PROVE  catalog'[m].state = "LEASED"
  BY DEF RunsOn
<1>1. /\ catalog[m].state = "LEASED" /\ catalog[m].lease # NoRequest
      /\ catalog \in [Machines -> CatalogMachineEntry]
  BY DEF Inv, TypeOK
<1>2. ASSUME NEW r \in Requests, LeaseStart(r) \/ LeasePut(r) \/ LeaseFails(r) \/ Release(r)
      PROVE  catalog'[m].state = "LEASED"
  BY <1>1, <1>2 DEF LeaseStart, LeasePut, LeaseFails, Release
<1>3. ASSUME NEW r \in Requests, NEW n \in Machines, InstructStart(r, n) \/ InstructTxn(r, n)
      PROVE  catalog'[m].state = "LEASED"
  BY <1>1, <1>3 DEF InstructStart, InstructTxn, CatalogMachineEntry
<1>4. ASSUME NEW n \in Machines, AddMachine(n) \/ DeleteMachine(n)
      PROVE  catalog'[m].state = "LEASED"
  BY <1>1, <1>4 DEF AddMachine, DeleteMachine, MayDelete
<1>5. ASSUME NEW n \in Machines, PollStart(n) \/ AckStart(n)
      PROVE  catalog'[m].state = "LEASED"
  BY <1>1, <1>5 DEF PollStart, AckStart
<1>6. ASSUME NEW n \in Machines, NEW new \in InstructionStates, UpdateInstructionTxn(n, new)
      PROVE  catalog'[m].state = "LEASED"
  BY <1>1, <1>6 DEF UpdateInstructionTxn, CatalogMachineEntry
<1>7. ASSUME NEW r \in Requests, ReleaseLease(r)
      PROVE  catalog'[m].state = "LEASED"
  BY <1>1, <1>7 DEF ReleaseLease, ReleasedEntry, CatalogMachineEntry
<1>8. ASSUME NEW r \in Requests, NEW n \in Machines, LeaseMachine(r, n)
      PROVE  catalog'[m].state = "LEASED"
  BY <1>1, <1>8 DEF LeaseMachine, CatalogMachineEntry
<1>9. ASSUME NEW n \in Machines, ReclaimMachine(n)
      PROVE  catalog'[m].state = "LEASED"
  BY <1>1, <1>9 DEF ReclaimMachine
<1>10. ASSUME NEW task \in reclaimTq, ReclaimTask(task)
       PROVE  catalog'[m].state = "LEASED"
  <2>1. task.machine # m
    BY <1>1 DEF Inv, TaskIsRight, FirstLease
  <2> QED
    BY <1>1, <1>10, <2>1 DEF ReclaimTask, Reclaim
<1>11. ASSUME NEW task \in reclaimTq, ReclaimTaskIsLost(task)
       PROVE  catalog'[m].state = "LEASED"
  BY <1>1, <1>11 DEF ReclaimTaskIsLost
<1>12. CASE Time
  BY <1>1, <1>12 DEF Time, LeaseEnds, CatalogMachineEntry
<1>13. CASE UNCHANGED vars
  BY <1>1, <1>13 DEF vars
<1> QED
  BY <1>2, <1>3, <1>4, <1>5, <1>6, <1>7, <1>8, <1>9, <1>10, <1>11, <1>12, <1>13
     DEF Next, Lessee, Backend, Machine, Cron, TaskQueue

\* No lease is cut short: a machine whose lease has a date to come stays leased.
THEOREM LeaseRunsItsTimeHolds == Spec => LeaseRunsItsTime
<1>1. Inv /\ [Next]_vars => [RunsOn]_vars
  BY StepRunsOn
<1> QED BY <1>1, InvHolds, PTL DEF Spec, LeaseRunsItsTime, RunsOn
=============================================================================
