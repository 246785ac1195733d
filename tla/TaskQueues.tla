----------------------------- MODULE TaskQueues -----------------------------
(***************************************************************************)
(* Which queues a bot of Swarming looks at for work.  A queue is a set of  *)
(* dimensions that tasks ask for.  TaskDimensions says that tasks ask for  *)
(* it, BotTaskDimensions that a bot can run them, BotDimensions for which  *)
(* dimensions of the bot this was worked out, and memcache holds the list  *)
(* of the bot.  None of them is changed together with another one.         *)
(*                                                                         *)
(* Times are what is left until them, so that time can pass forever.  The  *)
(* dimensions of a bot are the kinds of tasks that it can run.  Two kinds  *)
(* have two hashes: TaskDimensionsSet tells colliding ones apart.          *)
(***************************************************************************)
EXTENDS Integers, FiniteSets, FiniteSetsExt

CONSTANTS
    Bots,
    Kinds,          \* sets of dimensions that tasks ask for
    MaxJobs,        \* bound: rebuild-task-cache tasks that run at a time
    Lives,          \* how long a task may wait: expiration_ts - now
    Advance,        \* _ADVANCE
    Jitters,        \* how much earlier assert_task() is content
    MaxQueue,       \* bound: rebuild-task-cache tasks that wait
    MaxEvents       \* bound: bots that change or go, steps that fail

ASSUME QueuesAssumption ==
    /\ Lives \subseteq Nat \ {0} /\ Jitters \subseteq Nat \ {0}
    /\ Lives # {} /\ Jitters # {} /\ IsFiniteSet(Lives) /\ IsFiniteSet(Jitters)
    /\ Advance \in Nat /\ MaxQueue \in Nat /\ MaxJobs \in Nat /\ MaxEvents \in Nat

VARIABLES
    dims,       \* the dimensions that each bot has
    botDims,    \* BotDimensions, as stored
    index,      \* BotDimensions, as queries find it: they are consistent eventually
    botTasks,   \* BotTaskDimensions: valid_until_ts
    taskDims,   \* TaskDimensions: valid_until_ts
    memcache,   \* the list of each bot
    poll,       \* the poll of each bot
    seen,       \* what the last poll of each bot looked at
    polled,     \* bots that have polled since time has passed
    queue,      \* rebuild-task-cache tasks that wait
    jobs,       \* those that run
    waiting,    \* when the last task of each kind expires
    events,
    torn        \* history: bots whose cache was rebuilt while something else changed it

vars == <<dims, botDims, index, botTasks, taskDims, memcache, poll, seen,
          polled, queue, jobs, waiting, events, torn>>
bot == <<dims, poll, seen, polled>>
tasks == <<queue, jobs, waiting>>

-----------------------------------------------------------------------------
(* Times.  Only tidy_stale() sees what is Over.                            *)

MaxLife == Max(Lives)
MaxJitter == Max(Jitters)
Gone == -(MaxJitter + 2)
Over == -(MaxJitter + 1)
MaxValidity == MaxLife + Advance

Passes(t) == IF t \in {Gone, Over} THEN t ELSE t - 1

\* A minute after the end (cutoff) it does not matter when that was.
PassesForBot(t) == IF t \in {-1, Over} THEN Over ELSE Passes(t)

NoPoll == [step |-> "idle", found |-> [k \in Kinds |-> Gone]]

Init ==
    /\ dims \in [Bots -> SUBSET Kinds]
    /\ botDims = [b \in Bots |-> {}]
    /\ index = [b \in Bots |-> {}]
    /\ botTasks = [b \in Bots |-> [k \in Kinds |-> Gone]]
    /\ taskDims = [k \in Kinds |-> Gone]
    /\ memcache = [b \in Bots |-> {}]
    /\ poll = [b \in Bots |-> NoPoll]
    /\ seen = [b \in Bots |-> {}]
    /\ polled = {}
    /\ queue = {}
    /\ jobs = {}
    /\ waiting = [k \in Kinds |-> 0]
    /\ events = 0
    /\ torn = {}

Event == events < MaxEvents /\ events' = events + 1

Rebuilding(b) == poll[b].step \in {"put", "seal", "cache"}

-----------------------------------------------------------------------------
(* The poll of a bot: assert_bot(), get_queues().                          *)

Found(b) == {k \in Kinds : poll[b].found[k] # Gone}
Finds(list) == [k \in Kinds |-> IF k \in list THEN 0 ELSE Gone]

\* Mutant: the dimensions are not compared.
IsKnown(b) == botDims[b] # {}

IsUpToDate(b) == dims[b] \in botDims[b]

\* assert_bot(), up to the queries of _rebuild_bot_cache().
AssertBot(b) ==
    /\ poll[b].step = "idle" /\ b \notin polled
    /\ IF IsUpToDate(b)
       THEN /\ poll' = [poll EXCEPT ![b].step = "get"]
            /\ UNCHANGED <<botTasks, torn>>
       ELSE /\ botTasks' = [botTasks EXCEPT ![b] =
                               [k \in Kinds |-> IF k \in dims[b] THEN @[k] ELSE Gone]]
            /\ poll' = [poll EXCEPT ![b] =
                           [step |-> "put",
                            found |-> [k \in Kinds |-> IF k \in dims[b] /\ taskDims[k] >= 0
                                                       THEN taskDims[k] ELSE Gone]]]
            /\ torn' = IF jobs = {} THEN torn ELSE torn \cup {b}
    /\ UNCHANGED <<dims, botDims, index, taskDims, memcache, seen, polled, tasks, events>>

\* _rebuild_bot_cache() stores the BotTaskDimensions,
PutBotTasks(b) ==
    /\ poll[b].step = "put"
    /\ botTasks' = [botTasks EXCEPT ![b] =
                       [k \in Kinds |-> IF k \in Found(b) THEN poll[b].found[k] ELSE @[k]]]
    /\ poll' = [poll EXCEPT ![b] = [step |-> "seal", found |-> Finds(Found(b))]]
    /\ UNCHANGED <<dims, botDims, index, taskDims, memcache, seen, polled, tasks, events, torn>>

\* then the BotDimensions,
Seal(b) ==
    /\ poll[b].step = "seal"
    /\ botDims' = [botDims EXCEPT ![b] = {dims[b]}]
    /\ poll' = [poll EXCEPT ![b].step = "cache"]
    /\ UNCHANGED <<dims, index, botTasks, taskDims, memcache, seen, polled, tasks, events, torn>>

\* then the list.
CacheMatches(b) ==
    /\ poll[b].step = "cache"
    /\ memcache' = [memcache EXCEPT ![b] = {Found(b)}]
    /\ poll' = [poll EXCEPT ![b] = [NoPoll EXCEPT !.step = "get"]]
    /\ UNCHANGED <<dims, botDims, index, botTasks, taskDims, seen, polled, tasks, events, torn>>

Looks(b, list) ==
    /\ seen' = [seen EXCEPT ![b] = list]
    /\ polled' = polled \cup {b}
    /\ poll' = [poll EXCEPT ![b] = NoPoll]

\* get_queues() finds the list in memcache,
GetQueues(b) ==
    /\ poll[b].step = "get"
    /\ \E list \in memcache[b] : Looks(b, list)
    /\ UNCHANGED <<dims, botDims, index, botTasks, taskDims, memcache, tasks, events, torn>>

\* or works it out,
QueryQueues(b) ==
    /\ poll[b].step = "get" /\ memcache[b] = {}
    /\ poll' = [poll EXCEPT ![b] = [step |-> "set",
                                   found |-> Finds({k \in Kinds : botTasks[b][k] >= 0})]]
    /\ UNCHANGED <<dims, botDims, index, botTasks, taskDims, memcache, seen, polled, tasks, events, torn>>

\* and stores it.
CacheQueues(b) ==
    /\ poll[b].step = "set"
    /\ memcache' = [memcache EXCEPT ![b] = {Found(b)}]
    /\ Looks(b, Found(b))
    /\ UNCHANGED <<dims, botDims, index, botTasks, taskDims, tasks, events, torn>>

\* The request of the bot fails.
PollDies(b) ==
    /\ poll[b].step # "idle"
    /\ Event
    /\ poll' = [poll EXCEPT ![b] = NoPoll]
    /\ torn' = IF Rebuilding(b) THEN torn \cup {b} ELSE torn
    /\ UNCHANGED <<dims, botDims, index, botTasks, taskDims, memcache, seen, polled, tasks>>

-----------------------------------------------------------------------------
(* assert_task(), rebuild_task_cache().                                    *)

\* Mutant: whatever is known of the kind is good enough.
IsListed(k, life, jitter) == taskDims[k] # Gone

\* The cache hit of assert_task().
IsHit(k, life, jitter) == taskDims[k] # Gone /\ taskDims[k] >= life - jitter

Waits(k, life) == waiting' = [waiting EXCEPT ![k] = Max({@, life})]

\* Bots whose cache is being rebuilt, or that queries do not find yet.
Crossing == {b \in Bots : Rebuilding(b) \/ index[b] # botDims[b]}

\* assert_task() that has nothing to do, and the request is stored.
AssertTaskHit(k) ==
    /\ \E life \in Lives, jitter \in Jitters : IsHit(k, life, jitter) /\ Waits(k, life)
    /\ UNCHANGED <<bot, botDims, index, botTasks, taskDims, memcache, queue, jobs, events, torn>>

\* assert_task() that adds a rebuild-task-cache task, and the request is stored.
AssertTaskMiss(k) ==
    /\ Cardinality(queue) < MaxQueue
    /\ \E life \in Lives, jitter \in Jitters :
          /\ ~IsHit(k, life, jitter)
          /\ queue' = queue \cup {[kind |-> k, valid |-> life + Advance]}
          /\ Waits(k, life)
    /\ UNCHANGED <<bot, botDims, index, botTasks, taskDims, memcache, jobs, events, torn>>

\* rebuild_task_cache() starts with _yield_BotTaskDimensions_keys().
RebuildTaskCache(task) ==
    LET k == task.kind
        twice == \E j \in jobs : j.kind = k
        job == [kind |-> k, valid |-> task.valid,
                todo |-> {b \in Bots : \E d \in index[b] : k \in d}, put |-> {}, clear |-> {}]
    IN  /\ task \in queue /\ job \notin jobs
        /\ Cardinality(jobs) < MaxJobs
        /\ IF twice THEN Event ELSE UNCHANGED events
        /\ queue' = queue \ {task}
        /\ jobs' = jobs \cup {job}
        /\ torn' = IF twice THEN Bots ELSE torn \cup Crossing
        /\ UNCHANGED <<bot, botDims, index, botTasks, taskDims, memcache, waiting>>

Goes(j, next) == jobs' = (jobs \ {j}) \cup {next}

\* _refresh_BotTaskDimensions() reads the entity,
RefreshGet(j, b) ==
    LET valid == botTasks[b][j.kind]
    IN  /\ b \in j.todo
        /\ Goes(j, [j EXCEPT !.todo = @ \ {b},
                            !.put = IF valid < j.valid THEN @ \cup {b} ELSE @,
                            !.clear = IF valid < -1 THEN @ \cup {b} ELSE @])
        /\ UNCHANGED <<bot, botDims, index, botTasks, taskDims, memcache, queue, waiting, events, torn>>

\* stores it,
RefreshPut(j, b) ==
    /\ b \in j.put
    /\ botTasks' = [botTasks EXCEPT ![b][j.kind] = j.valid]
    /\ Goes(j, [j EXCEPT !.put = @ \ {b}])
    /\ UNCHANGED <<bot, botDims, index, taskDims, memcache, queue, waiting, events, torn>>

\* and clears the list of the bot.
RefreshClear(j, b) ==
    /\ b \in j.clear \ j.put
    /\ memcache' = [memcache EXCEPT ![b] = {}]
    /\ Goes(j, [j EXCEPT !.clear = @ \ {b}])
    /\ UNCHANGED <<bot, botDims, index, botTasks, taskDims, queue, waiting, events, torn>>

\* TaskDimensions.assert_request()
Asserted(old, valid) == Max({old, valid})

\* Mutant: the kind is stored while the bots are refreshed.
IsStarted(j) == TRUE

BotsAreRefreshed(j) == j.todo \cup j.put \cup j.clear = {}

\* The transaction of rebuild_task_cache().
StoreTaskDimensions(j) ==
    /\ BotsAreRefreshed(j)
    /\ taskDims' = [taskDims EXCEPT ![j.kind] = Asserted(@, j.valid)]
    /\ jobs' = jobs \ {j}
    /\ UNCHANGED <<bot, botDims, index, botTasks, memcache, queue, waiting, events, torn>>

\* The queue tries again.
TaskDies(j) ==
    /\ Event
    /\ queue' = queue \cup {[kind |-> j.kind, valid |-> j.valid]}
    /\ jobs' = jobs \ {j}
    /\ UNCHANGED <<bot, botDims, index, botTasks, taskDims, memcache, waiting, torn>>

-----------------------------------------------------------------------------
(* tidy_stale(), cleanup_after_bot(), and what changes by itself.          *)

TidyTask(k) ==
    /\ taskDims[k] \in Over .. -1
    /\ taskDims' = [taskDims EXCEPT ![k] = Gone]
    /\ UNCHANGED <<bot, botDims, index, botTasks, memcache, tasks, events, torn>>

TidyBotTask(b, k) ==
    /\ botTasks[b][k] \in Over .. -1
    /\ botTasks' = [botTasks EXCEPT ![b][k] = Gone]
    /\ memcache' = [memcache EXCEPT ![b] = {}]
    /\ UNCHANGED <<bot, botDims, index, taskDims, tasks, events, torn>>

\* cleanup_after_bot()
CleanupAfterBot(b) ==
    /\ botDims[b] # {}
    /\ Event
    /\ botDims' = [botDims EXCEPT ![b] = {}]
    /\ botTasks' = [botTasks EXCEPT ![b] = [k \in Kinds |-> Gone]]
    /\ torn' = IF Rebuilding(b) THEN torn \cup {b} ELSE torn
    /\ UNCHANGED <<bot, index, taskDims, memcache, tasks>>

BotChanges(b) ==
    /\ poll[b].step = "idle"
    /\ Event
    /\ \E d \in SUBSET Kinds \ {dims[b]} : dims' = [dims EXCEPT ![b] = d]
    /\ UNCHANGED <<botDims, index, botTasks, taskDims, memcache, poll, seen, polled, tasks, torn>>

IndexIsUpdated(b) ==
    /\ index[b] # botDims[b]
    /\ index' = [index EXCEPT ![b] = botDims[b]]
    /\ UNCHANGED <<bot, botDims, botTasks, taskDims, memcache, tasks, events, torn>>

ListIsEvicted(b) ==
    /\ memcache[b] # {}
    /\ memcache' = [memcache EXCEPT ![b] = {}]
    /\ UNCHANGED <<bot, botDims, index, botTasks, taskDims, tasks, events, torn>>

\* The unit of time: every bot polls once, and what started is done.
TimePasses ==
    /\ polled = Bots /\ jobs = {} /\ index = botDims
    /\ polled' = {}
    /\ botTasks' = [b \in Bots |-> [k \in Kinds |-> PassesForBot(botTasks[b][k])]]
    /\ taskDims' = [k \in Kinds |-> Passes(taskDims[k])]
    /\ queue' = {[task EXCEPT !.valid = Passes(@)] : task \in queue}
    /\ waiting' = [k \in Kinds |-> IF waiting[k] = 0 THEN 0 ELSE waiting[k] - 1]
    /\ UNCHANGED <<dims, botDims, index, memcache, poll, seen, jobs, events, torn>>

-----------------------------------------------------------------------------
Poll(b) ==
    \/ AssertBot(b) \/ PutBotTasks(b) \/ Seal(b) \/ CacheMatches(b)
    \/ GetQueues(b) \/ QueryQueues(b) \/ CacheQueues(b)
Rebuild ==
    \/ \E task \in queue : RebuildTaskCache(task)
    \/ \E j \in jobs :
          \/ StoreTaskDimensions(j)
          \/ \E b \in Bots : RefreshGet(j, b) \/ RefreshPut(j, b) \/ RefreshClear(j, b)
AssertTask(k) ==
    AssertTaskHit(k) \/ AssertTaskMiss(k)
TidyStale(b) == \E k \in Kinds : TidyTask(k) \/ TidyBotTask(b, k)

Next ==
    \/ \E b \in Bots : Poll(b) \/ PollDies(b) \/ TidyStale(b)
    \/ \E b \in Bots : CleanupAfterBot(b) \/ BotChanges(b) \/ IndexIsUpdated(b) \/ ListIsEvicted(b)
    \/ \E k \in Kinds : AssertTask(k)
    \/ Rebuild \/ \E j \in jobs : TaskDies(j)
    \/ TimePasses

Spec == Init /\ [][Next]_vars

\* Bots poll, queues are emptied, cron jobs run, time passes, queries become
\* consistent, and memcache does not keep a list forever.
Fairness ==
    /\ SF_vars(TimePasses)
    /\ \A b \in Bots : WF_vars(Poll(b)) /\ WF_vars(IndexIsUpdated(b)) /\ WF_vars(ListIsEvicted(b))
    /\ WF_vars(Rebuild)
FairSpec == Spec /\ Fairness

-----------------------------------------------------------------------------
(* Properties.                                                             *)

Times == {Gone} \cup Over .. MaxValidity
Task == [kind : Kinds, valid : Times]

\* Every variable has the type of the code's entity or field.
TypeOK ==
    /\ dims \in [Bots -> SUBSET Kinds]
    /\ {botDims, index, memcache} \subseteq [Bots -> {{}} \cup {{d} : d \in SUBSET Kinds}]
    /\ botTasks \in [Bots -> [Kinds -> Times]]
    /\ taskDims \in [Kinds -> Times]
    /\ poll \in [Bots -> [step : {"idle", "put", "seal", "cache", "get", "set"},
                          found : [Kinds -> Times]]]
    /\ seen \in [Bots -> SUBSET Kinds]
    /\ polled \subseteq Bots
    /\ queue \subseteq Task
    /\ jobs \subseteq [kind : Kinds, valid : Times,
                     todo : SUBSET Bots, put : SUBSET Bots, clear : SUBSET Bots]
    /\ waiting \in [Kinds -> 0 .. MaxLife]
    /\ events \in 0 .. MaxEvents
    /\ torn \subseteq Bots

IsBeingAsserted(k) ==
    \/ \E task \in queue : task.kind = k
    \/ \E j \in jobs : j.kind = k

\* A task is not forgotten: until it expires, less the jitter of assert_task(),
\* its kind is known, or about to be (assert_task, rebuild_task_cache).
KindIsKnown ==
    \A k \in Kinds :
        waiting[k] > MaxJitter /\ ~IsBeingAsserted(k) => taskDims[k] >= waiting[k] - MaxJitter

\* As long as a kind of task is known, so is every bot that can run it, unless
\* its own cache was rebuilt just while the kind was asserted.
BotIsKnown ==
    \A b \in Bots \ torn, k \in Kinds :
        botDims[b] = {dims[b]} /\ k \in dims[b] /\ taskDims[k] >= 0 =>
            botTasks[b][k] >= taskDims[k]

\* Whatever happened, in the end a bot looks for the tasks of a kind that it can
\* run and that somebody keeps asking for (get_queues).
KindIsSeen ==
    \A b \in Bots, k \in Kinds :
        <>[](k \in dims[b] /\ taskDims[k] >= 0) => []<>(k \in seen[b])
=============================================================================
