-------------------------- MODULE LeaseManagement --------------------------
(***************************************************************************)
(* The MachineLease of Swarming that holds one machine of the Machine      *)
(* Provider: a cron job adds tasks that manage it, each reads the lease    *)
(* once, talks to the Machine Provider, and changes the lease in           *)
(* transactions; nothing keeps two of these tasks from overlapping.        *)
(*                                                                         *)
(* The Machine Provider is what module MachineProvider promises: a request *)
(* that is sent again is answered as before.  A machine that was given for *)
(* a request is named after the request: hostnames are not used again.     *)
(***************************************************************************)
EXTENDS Naturals, Sequences, FiniteSets

CONSTANTS
    Workers,        \* tasks of machine-provider-manage that may overlap
    Shapes,         \* dimensions and duration: what a machine type asks for
    EarlyRelease,   \* whether early_release_secs is not 0
    MaxRequests,    \* bound: request_count
    Capacity,       \* how many machines the Machine Provider has
    MaxTerms,       \* bound: termination tasks
    MaxEvents       \* bound: changes of the configuration, tasks that overlap,
                    \* failed calls, dead tasks, dead machines

ASSUME LeaseAssumption ==
    /\ Shapes # {}
    /\ EarlyRelease \in BOOLEAN
    /\ MaxRequests \in Nat /\ Capacity \in Nat /\ MaxTerms \in Nat /\ MaxEvents \in Nat

VARIABLES
    lease,      \* MachineLease
    type,       \* MachineType: its shape, and whether the lease is wanted
    job,        \* the tasks that run
    mp,         \* LeaseRequest of the Machine Provider
    time,       \* where now is in each lease
    bot,        \* the bot of each machine
    info,       \* BotInfo
    terms,      \* termination tasks
    events,     \* changes and events so far
    crossed     \* history: a request was cleared while another task managed it

vars == <<lease, type, job, mp, time, bot, info, terms, events, crossed>>
machines == <<mp, time, bot>>

Requests == 1 .. MaxRequests

\* There is a bot_connected event.  The last event of a bot that is gone is
\* bot_shutdown; a machine that was lost could not post it.
Connected == {"running", "terminating", "gone", "lost"}
Destroyed(step) ==
    IF step = "gone" THEN "gone" ELSE IF step \in Connected THEN "lost" ELSE "destroyed"

\* lease_expiration_ts is that of the request, if it is set.
MachineLease ==
    [here : BOOLEAN, req : 0 .. MaxRequests, count : 0 .. MaxRequests,
     host : 0 .. MaxRequests, expires : BOOLEAN, bot : 0 .. MaxRequests,
     instructed : BOOLEAN, connected : BOOLEAN, term : 0 .. MaxTerms,
     drained : BOOLEAN, shape : Shapes]

NewLease(count, shape) ==
    [here |-> TRUE, req |-> 0, count |-> count, host |-> 0, expires |-> FALSE,
     bot |-> 0, instructed |-> FALSE, connected |-> FALSE, term |-> 0,
     drained |-> FALSE, shape |-> shape]
NoLease(count, shape) == [NewLease(count, shape) EXCEPT !.here = FALSE]

\* seen: the lease as the task read it; then: where it goes on after a release.
Idle == [step |-> "idle", then |-> "idle",
         seen |-> NoLease(0, CHOOSE shape \in Shapes : TRUE)]

Init ==
    /\ type = [shape |-> CHOOSE shape \in Shapes : TRUE, wanted |-> TRUE]
    /\ lease = NoLease(0, type.shape)
    /\ job = [w \in Workers |-> Idle]
    /\ mp = [r \in Requests |-> [state |-> "none", shape |-> type.shape]]
    /\ time = [r \in Requests |-> "running"]
    /\ bot = [r \in Requests |-> "off"]
    /\ info = [r \in Requests |-> "none"]
    /\ terms = <<>>
    /\ events = 0 /\ crossed = FALSE

Event == events < MaxEvents /\ events' = events + 1

-----------------------------------------------------------------------------
(* Cron jobs: machine_provider_config and machine_provider_manage.         *)

\* fetch_machine_types(), get_target_size(): the configuration, the schedule.
ConfigChanges ==
    /\ Event
    /\ type' \in [shape : Shapes, wanted : BOOLEAN] \ {type}
    /\ UNCHANGED <<lease, job, machines, info, terms, crossed>>

\* create_machine_lease().  The request ids of a new lease are new.
CreateLease ==
    /\ type.wanted /\ ~lease.here
    /\ lease' = NewLease(lease.count, type.shape)
    /\ UNCHANGED <<type, job, machines, info, terms, events, crossed>>

\* Mutant: the shape is changed at any time.
ShapeMayChangeAnyTime == lease.here

\* Only for the next request.
ShapeMayChange == lease.here /\ lease.expires

UpdateLease ==
    /\ type.wanted
    /\ ShapeMayChange
    /\ lease.shape # type.shape
    /\ lease' = [lease EXCEPT !.shape = type.shape]
    /\ UNCHANGED <<type, job, machines, info, terms, events, crossed>>

DrainLease ==
    /\ ~type.wanted /\ lease.here /\ ~lease.drained
    /\ lease' = [lease EXCEPT !.drained = TRUE]
    /\ UNCHANGED <<type, job, machines, info, terms, events, crossed>>

ReleasableAt == IF EarlyRelease THEN {"early", "over"} ELSE {"over"}

\* Mutant: drained leases are only looked at when they are about to expire.
IsDueUndrained(l) ==
    \/ ~l.connected
    \/ l.expires /\ time[l.req] \in ReleasableAt

\* Once the bot is connected, there is nothing to do before the lease is about
\* to end.
IsDue(l) ==
    \/ ~l.connected
    \/ l.drained
    \/ l.expires /\ time[l.req] \in ReleasableAt

-----------------------------------------------------------------------------
(* manage_lease().                                                         *)

\* manage_leased_machine(), once there is a BotInfo.
Connecting(l) ==
    IF ~l.instructed THEN "instruct" ELSE IF ~l.connected THEN "check" ELSE "active"

First(l) ==
    CASE l.expires -> IF l.bot = 0 THEN "botinfo" ELSE Connecting(l)
      [] ~l.expires /\ l.req # 0 -> "send"
      [] ~l.expires /\ l.req = 0 -> IF l.drained THEN "delete" ELSE "new"

\* What a task does last; of its copy it only uses the keys.
LastSteps == {"new", "delete", "log", "instructed", "terminating", "forget"}
Keys(l) == [Idle.seen EXCEPT !.req = l.req, !.host = l.host, !.term = l.term]

Goes(w, step) ==
    job' = [job EXCEPT ![w] =
        CASE step = "idle" -> Idle
          [] step \in LastSteps \/ (step \in {"cleanup", "clear"} /\ @.then = "idle") ->
                [@ EXCEPT !.step = step, !.seen = Keys(@)]
          [] step = "active" -> [@ EXCEPT !.step = step, !.then = "idle"]
          [] OTHER -> [@ EXCEPT !.step = step]]

\* schedule_lease_management() raises if the bot is connected and there is no
\* expiration; its task runs at once, or never (task_age_limit).  The tasks of two
\* minutes overlap when one of them is slow, which is an event.
ManageLease(w) ==
    /\ job[w].step = "idle"
    /\ lease.here /\ IsDue(lease)
    /\ IF \A v \in Workers : job[v].step = "idle" THEN UNCHANGED events ELSE Event
    /\ job' = [job EXCEPT ![w] =
                  [step |-> First(lease), then |-> "idle",
                   seen |-> IF First(lease) \in LastSteps THEN Keys(lease)
                            ELSE [lease EXCEPT !.count = 0]]]
    /\ UNCHANGED <<lease, type, machines, info, terms, crossed>>

NextRequest == lease.count + 1

\* update_client_request_id()
UpdateClientRequestId(w) ==
    /\ job[w].step = "new"
    /\ lease' = IF lease.here /\ ~lease.drained /\ lease.req = 0 /\ lease.count < MaxRequests
                THEN [lease EXCEPT !.req = NextRequest, !.count = @ + 1]
                ELSE lease
    /\ Goes(w, "idle")
    /\ UNCHANGED <<type, machines, info, terms, events, crossed>>

DeleteMachineLease(w) ==
    /\ job[w].step = "delete"
    /\ lease' = IF lease.here /\ lease.drained /\ lease.req = 0
                THEN NoLease(lease.count, lease.shape) ELSE lease
    /\ Goes(w, "idle")
    /\ UNCHANGED <<type, machines, info, terms, events, crossed>>

\* What handle_lease_request_response() and _error() do about the answer.
AfterSend(r, shape) ==
    CASE mp[r].state = "none" -> "idle"
      [] mp[r].state # "none" /\ mp[r].shape # shape -> "clear"
      [] mp[r].state = "untriaged" /\ mp[r].shape = shape -> "idle"
      [] mp[r].state \in {"leased", "released"} /\ mp[r].shape = shape -> "log"
      [] mp[r].state = "reclaimed" /\ mp[r].shape = shape -> "clear"

\* manage_pending_lease_request().  The answer may be lost.
SendLeaseRequest(w) ==
    LET r == job[w].seen.req
        shape == job[w].seen.shape
    IN  /\ job[w].step = "send"
        /\ mp' = IF mp[r].state = "none"
                 THEN [mp EXCEPT ![r] = [state |-> "untriaged", shape |-> shape]] ELSE mp
        /\ \/ Goes(w, AfterSend(r, shape)) /\ UNCHANGED events
           \/ Event /\ Goes(w, "idle")
        /\ UNCHANGED <<lease, type, time, bot, info, terms, crossed>>

\* log_lease_fulfillment()
LogLeaseFulfillment(w) ==
    LET r == job[w].seen.req
    IN  /\ job[w].step = "log"
        /\ lease' = IF lease.here /\ lease.req = r
                    THEN [lease EXCEPT !.host = r, !.expires = TRUE] ELSE lease
        /\ Goes(w, "idle")
        /\ UNCHANGED <<type, machines, info, terms, events, crossed>>

\* ensure_bot_info_exists(), which may fail to store the BotInfo, and
\* associate_bot_id(), which, like associate_instruction_ts() and
\* associate_connection_ts(), looks at the key of the lease only.
EnsureBotInfo(w) ==
    LET seen == job[w].seen
    IN  /\ job[w].step = "botinfo"
        /\ \/ /\ info' = [info EXCEPT ![seen.host] = IF @ = "none" THEN "alive" ELSE @]
              /\ lease' = IF lease.here THEN [lease EXCEPT !.bot = seen.host] ELSE lease
              /\ UNCHANGED events
           \/ Event /\ UNCHANGED <<info, lease>>
        /\ Goes(w, Connecting(seen))
        /\ UNCHANGED <<type, machines, terms, crossed>>

\* send_connection_instruction().  ALREADY_RECLAIMED, or the machine is told.
SendConnectionInstruction(w) ==
    LET r == job[w].seen.req
        over == mp[r].state = "reclaimed" \/ time[r] = "over"
    IN  /\ job[w].step = "instruct"
        /\ bot' = IF over \/ bot[r] # "off" THEN bot ELSE [bot EXCEPT ![r] = "told"]
        /\ \/ Goes(w, IF over THEN "clear" ELSE "instructed") /\ UNCHANGED events
           \/ Event /\ Goes(w, "idle")
        /\ UNCHANGED <<lease, type, mp, time, info, terms, crossed>>

AssociateInstructionTs(w) ==
    /\ job[w].step = "instructed"
    /\ lease' = IF lease.here THEN [lease EXCEPT !.instructed = TRUE] ELSE lease
    /\ Goes(w, "idle")
    /\ UNCHANGED <<type, machines, info, terms, events, crossed>>

\* check_for_connection() looks at the events of bot_id; it raises if that is
\* not set.  The bot of another request did not connect again.
CheckForConnection(w) ==
    LET seen == job[w].seen
    IN  /\ job[w].step = "check"
        /\ Goes(w, CASE seen.bot = 0 -> "idle"
                     [] seen.bot # 0 /\ seen.bot = seen.req /\ bot[seen.req] \in Connected -> "connect"
                     [] OTHER -> "absent")
        /\ UNCHANGED <<lease, type, machines, info, terms, events, crossed>>

AssociateConnectionTs(w) ==
    /\ job[w].step = "connect"
    /\ lease' = IF lease.here THEN [lease EXCEPT !.connected = TRUE] ELSE lease
    /\ Goes(w, "active")
    /\ UNCHANGED <<type, machines, info, terms, events, crossed>>

\* handle_early_release(), of a lease that is not over.
ReadyForRelease(l) ==
    /\ time[l.req] # "over" /\ l.term = 0
    /\ EarlyRelease \/ l.drained
    /\ l.drained \/ time[l.req] \in ReleasableAt

\* schedule_request() of a termination task.
Schedules(r) ==
    /\ Len(terms) < MaxTerms
    /\ terms' = Append(terms, [host |-> r, state |-> "pending"])

Pending(r) == \E i \in DOMAIN terms : terms[i] = [host |-> r, state |-> "pending"]

\* Nobody looks at this task: one more of a kind that is there changes nothing.
SchedulesForAbsent(r) == Schedules(r) \/ (Len(terms) = MaxTerms /\ Pending(r) /\ UNCHANGED terms)

\* The bot has not connected yet.
IsPresent(w) ==
    /\ job[w].step = "absent"
    /\ info[job[w].seen.host] = "alive"
    /\ Goes(w, "active")
    /\ UNCHANGED <<lease, type, machines, info, terms, events, crossed>>

\* BotInfo is missing or dead.
TerminateAbsent(w) ==
    /\ job[w].step = "absent"
    /\ info[job[w].seen.host] # "alive"
    /\ SchedulesForAbsent(job[w].seen.host)
    /\ job' = [job EXCEPT ![w].step = "release", ![w].then = "active"]
    /\ UNCHANGED <<lease, type, machines, info, events, crossed>>

TerminationFails(w) ==
    /\ \/ job[w].step = "absent" /\ info[job[w].seen.host] # "alive"
       \/ job[w].step = "active" /\ ReadyForRelease(job[w].seen)
    /\ Event
    /\ Goes(w, "idle")
    /\ UNCHANGED <<lease, type, machines, info, terms, crossed>>

\* release(), of a lease that may be over.
Release(w) ==
    LET r == job[w].seen.req
    IN  /\ job[w].step = "release"
        /\ \/ /\ mp' = IF mp[r].state = "leased" THEN [mp EXCEPT ![r].state = "released"] ELSE mp
              /\ Goes(w, IF job[w].then = "active" /\ info[r] = "none" THEN "clear" ELSE "cleanup")
              /\ UNCHANGED events
           \/ Event /\ Goes(w, job[w].then) /\ UNCHANGED mp
        /\ UNCHANGED <<lease, type, time, bot, info, terms, crossed>>

\* cleanup_bot()
CleanupBot(w) ==
    /\ job[w].step = "cleanup"
    /\ info' = [info EXCEPT ![job[w].seen.host] = "none"]
    /\ Goes(w, "clear")
    /\ UNCHANGED <<lease, type, machines, terms, events, crossed>>

\* Mutant: whatever the lease is for now is cleared.
IsTheLease(w) == lease.here /\ lease.req # 0

IsTheRequest(w) == lease.here /\ lease.req # 0 /\ lease.req = job[w].seen.req

\* Mutant: the bot is kept.
ClearedButBot == [NewLease(lease.count, lease.shape) EXCEPT !.drained = lease.drained,
                                                           !.bot = lease.bot]

Cleared == [NewLease(lease.count, lease.shape) EXCEPT !.drained = lease.drained]

\* clear_lease_request()
ClearLeaseRequest(w) ==
    /\ job[w].step = "clear"
    /\ lease' = IF IsTheRequest(w) THEN Cleared ELSE lease
    /\ crossed' = (crossed \/ \E v \in Workers \ {w} :
                                 job[v].step # "idle" /\ job[v].seen.req = job[w].seen.req)
    /\ Goes(w, job[w].then)
    /\ UNCHANGED <<type, machines, info, terms, events>>

\* Mutant: a termination task that is completed is enough.
HasEnded(r) == TRUE

\* last_shutdown_ts(): the last event of the bot is that it has shut down, after
\* the termination task was completed.
HasShutDown(r) == bot[r] = "gone"

\* handle_termination_task()
Terminated(l) ==
    CASE terms[l.term].state = "failed" -> "forget"
      [] terms[l.term].state = "completed" /\ l.bot = l.req /\ HasShutDown(l.req) -> "release"
      [] OTHER -> "idle"

\* The rest of manage_leased_machine().
ManageActive(w) ==
    LET seen == job[w].seen
        step == CASE time[seen.req] = "over" -> "cleanup"
                  [] time[seen.req] # "over" /\ seen.term # 0 -> Terminated(seen)
                  [] OTHER -> "idle"
    IN  /\ job[w].step = "active"
        /\ ~ReadyForRelease(seen)
        /\ Goes(w, step)
        /\ UNCHANGED <<lease, type, machines, info, terms, events, crossed>>

ScheduleTermination(w) ==
    LET seen == job[w].seen
    IN  /\ job[w].step = "active"
        /\ ReadyForRelease(seen)
        /\ Schedules(seen.host)
        /\ job' = [job EXCEPT ![w] = [step |-> "terminating", then |-> "idle",
                                      seen |-> [Keys(seen) EXCEPT !.term = Len(terms) + 1]]]
        /\ UNCHANGED <<lease, type, machines, info, events, crossed>>

IsTheHost(w) == lease.host = job[w].seen.host

\* associate_termination_task()
AssociateTerminationTask(w) ==
    /\ job[w].step = "terminating"
    /\ lease' = IF lease.here /\ IsTheHost(w) /\ lease.term = 0
                THEN [lease EXCEPT !.term = job[w].seen.term] ELSE lease
    /\ Goes(w, "idle")
    /\ UNCHANGED <<type, machines, info, terms, events, crossed>>

\* clear_termination_task() raises if the lease has another one.
ClearTerminationTask(w) ==
    /\ job[w].step = "forget"
    /\ lease' = IF lease.here /\ lease.term = job[w].seen.term
                THEN [lease EXCEPT !.term = 0] ELSE lease
    /\ Goes(w, "idle")
    /\ UNCHANGED <<type, machines, info, terms, events, crossed>>

\* The queue does not retry.
TaskDies(w) ==
    /\ job[w].step # "idle"
    /\ Event
    /\ Goes(w, "idle")
    /\ UNCHANGED <<lease, type, machines, info, terms, crossed>>

-----------------------------------------------------------------------------
(* The Machine Provider and the bots of its machines.                      *)

\* A machine that was reclaimed is not given again.
Fulfill(r) ==
    /\ mp[r].state = "untriaged"
    /\ Cardinality({q \in Requests : mp[q].state \notin {"none", "untriaged"}}) < Capacity
    /\ mp' = [mp EXCEPT ![r].state = "leased"]
    /\ UNCHANGED <<lease, type, job, time, bot, info, terms, events, crossed>>

\* The lease, or the copy that a task has of it, is for r.
InUse(r) == lease.req = r \/ \E w \in Workers : job[w].seen.req = r

\* Time that nothing looks at any more stands still.
LeaseAges(r) ==
    /\ InUse(r)
    /\ mp[r].state \notin {"none", "untriaged"}
    /\ time[r] # "over"
    /\ time' = [time EXCEPT ![r] = IF EarlyRelease /\ @ = "running" THEN "early" ELSE "over"]
    /\ UNCHANGED <<lease, type, job, mp, bot, info, terms, events, crossed>>

Reclaim(r) ==
    /\ \/ mp[r].state = "released"
       \/ mp[r].state = "leased" /\ time[r] = "over"
    /\ mp' = [mp EXCEPT ![r].state = "reclaimed"]
    /\ bot' = [bot EXCEPT ![r] = Destroyed(@)]
    /\ UNCHANGED <<lease, type, job, time, info, terms, events, crossed>>

Moves(r, from, to) ==
    /\ bot[r] = from
    /\ bot' = [bot EXCEPT ![r] = to]
    /\ UNCHANGED <<lease, type, job, mp, time, crossed>>

\* The bot asks for the first time: bot_connected.
BotConnects(r) ==
    /\ Moves(r, "told", "running")
    /\ info' = [info EXCEPT ![r] = "alive"]
    /\ UNCHANGED <<terms, events>>

\* The task is completed first, then the bot exits and posts bot_shutdown.
RunsTermination(r) ==
    /\ \E i \in DOMAIN terms :
          /\ terms[i] = [host |-> r, state |-> "pending"]
          /\ terms' = [terms EXCEPT ![i].state = "completed"]
    /\ Moves(r, "running", "terminating")
    /\ UNCHANGED <<info, events>>

Exits(r) == Moves(r, "terminating", "gone") /\ UNCHANGED <<info, terms, events>>

\* The machine dies.
Dies(r) ==
    /\ bot[r] \in {"told", "running", "terminating"}
    /\ Event
    /\ bot' = [bot EXCEPT ![r] = Destroyed(@)]
    /\ UNCHANGED <<lease, type, job, mp, time, info, terms, crossed>>

\* A termination task is canceled, or expires after a day.
TerminationExpires ==
    /\ Event
    /\ \E i \in DOMAIN terms :
          /\ terms[i].state = "pending"
          /\ terms' = [terms EXCEPT ![i].state = "failed"]
    /\ UNCHANGED <<lease, type, job, machines, info, crossed>>

\* bot_death_timeout_secs without news of the bot.
IsDead(r) ==
    /\ InUse(r)
    /\ info[r] = "alive"
    /\ bot[r] # "running"
    /\ info' = [info EXCEPT ![r] = "dead"]
    /\ UNCHANGED <<lease, type, job, machines, terms, events, crossed>>

-----------------------------------------------------------------------------
Cron == ConfigChanges \/ CreateLease \/ UpdateLease \/ DrainLease
Manage(w) ==
    \/ ManageLease(w) \/ UpdateClientRequestId(w) \/ DeleteMachineLease(w)
    \/ SendLeaseRequest(w) \/ LogLeaseFulfillment(w)
    \/ EnsureBotInfo(w)
    \/ SendConnectionInstruction(w) \/ AssociateInstructionTs(w)
    \/ CheckForConnection(w) \/ AssociateConnectionTs(w) \/ IsPresent(w)
    \/ TerminateAbsent(w) \/ TerminationFails(w) \/ Release(w)
    \/ CleanupBot(w) \/ ClearLeaseRequest(w)
    \/ ManageActive(w) \/ ScheduleTermination(w)
    \/ AssociateTerminationTask(w) \/ ClearTerminationTask(w)
Bot(r) == BotConnects(r) \/ RunsTermination(r) \/ Exits(r) \/ Dies(r) \/ IsDead(r)

Next ==
    \/ Cron
    \/ \E w \in Workers : Manage(w) \/ TaskDies(w)
    \/ \E r \in Requests : Fulfill(r) \/ LeaseAges(r) \/ Reclaim(r) \/ Bot(r)
    \/ TerminationExpires

Spec == Init /\ [][Next]_vars

\* The cron job runs every minute, the tasks that it adds run, time goes on.
Fairness ==
    /\ \A w \in Workers : WF_vars(Manage(w))
    /\ \A r \in Requests : WF_vars(LeaseAges(r))
FairSpec == Spec /\ Fairness

-----------------------------------------------------------------------------
(* Properties.                                                             *)

Steps == {"idle", "send", "botinfo", "instruct", "check", "connect", "absent", "release",
          "cleanup", "clear", "active"} \cup LastSteps

\* Every variable has the type of the code's entity or field.  The request of the
\* lease is the last one that was numbered.
TypeOK ==
    /\ lease \in MachineLease
    /\ lease.req \in {0, lease.count}
    /\ type \in [shape : Shapes, wanted : BOOLEAN]
    /\ job \in [Workers -> [step : Steps, then : {"idle", "active"}, seen : MachineLease]]
    /\ mp \in [Requests -> [state : {"none", "untriaged", "leased", "released", "reclaimed"},
                            shape : Shapes]]
    /\ time \in [Requests -> {"running", "early", "over"}]
    /\ bot \in [Requests -> {"off", "told"} \cup Connected \cup {"destroyed"}]
    /\ info \in [Requests -> {"none", "alive", "dead"}]
    /\ terms \in Seq([host : Requests, state : {"pending", "completed", "failed"}])
    /\ Len(terms) <= MaxTerms
    /\ events \in 0 .. MaxEvents /\ crossed \in BOOLEAN

\* A machine that the Machine Provider holds for a request is never forgotten:
\* a lease moves on only when the machine is released or the lease over
\* (clear_lease_request, delete_machine_lease).
MachineIsRemembered ==
    \A r \in Requests :
        mp[r].state \in {"untriaged", "leased"} /\ time[r] # "over" => lease.here /\ lease.req = r

\* A request that is sent again is the one that was sent before, although the
\* type of the machine changes and tasks send what they read long ago: the
\* Machine Provider never refuses it as a reused id (update_machine_lease).
RequestIsStable ==
    \A w \in Workers :
        LET r == job[w].seen.req
        IN  job[w].step = "send" /\ mp[r].state # "none" => job[w].seen.shape = mp[r].shape

\* What is stored about a bot is about the bot of the machine, and goes with it.
\* Whatever tasks overlap, there is a machine, that of the last request, as long
\* as there is an expiration (the assertions of manage_lease), and the termination
\* task is its own (associate_termination_task); the rest is, unless a request
\* was cleared while another task managed it, for associate_bot_id and its like
\* look at the key of the lease only.
BotIsOfMachine ==
    /\ lease.host = IF lease.expires THEN lease.req ELSE 0
    /\ lease.term # 0 => lease.expires /\ terms[lease.term].host = lease.host
    /\ ~crossed => /\ lease.bot \in {0, lease.host}
                   /\ lease.instructed \/ lease.connected => lease.expires

\* A machine is released before its time only when its bot has shut down after
\* its termination task, unless the bot was thought to be absent
\* (handle_termination_task).
ReleasedWhenShutDown ==
    \A w \in Workers :
        job[w].step = "release" /\ job[w].then = "idle" =>
            bot[job[w].seen.req] \in {"gone", "lost"}

\* A lease that is drained is deleted, or waits for a machine: the Machine
\* Provider has no way to cancel a request (schedule_lease_management).
DrainedGoes ==
    lease.here /\ lease.drained ~>
        ~lease.here \/ (lease.req # 0 /\ mp[lease.req].state = "untriaged")
=============================================================================
