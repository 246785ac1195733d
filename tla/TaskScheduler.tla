---------------------------- MODULE TaskScheduler ----------------------------
(***************************************************************************)
(* The life of a Swarming task on the server: what the handlers of         *)
(* task_scheduler.py do to the entities of a task.                         *)
(*                                                                         *)
(* The entities of one task (TaskRequest, TaskToRun, TaskResultSummary and *)
(* one TaskRunResult per try) are one entity group, so transactions on     *)
(* them are serialised and each transaction is one step.  What a handler   *)
(* does before its transaction (reading an eventually consistent index,    *)
(* sampling the clock, writing the memcache blacklist) is a step of its    *)
(* own: the handler is then in flight, others run, and it may also vanish. *)
(* A transaction that raises CommitError "may or may not have occurred":   *)
(* it is one that took place with its reply lost, or a handler that        *)
(* vanished.                                                               *)
(*                                                                         *)
(* Time is what the code compares it for: whether a task is past its       *)
(* expiration_ts, whether a run was modified since it started, and whether *)
(* it was last modified BOT_PING_TOLERANCE ago.                            *)
(***************************************************************************)
EXTENDS Naturals, FiniteSets

CONSTANTS
    Tasks,            \* identities of tasks, fresh ones are drawn from here
    Bots,             \* bot ids
    Props,            \* TaskProperties, up to properties_hash
    IdempotentProps,  \* the properties that say the task is idempotent
    ExitCodes,        \* exit codes of user commands; 0 is success
    NoBot, NoTask, NoProps, NoExit    \* None, in each of these types

ASSUME ConstantsAssumption ==
    /\ NoBot \notin Bots
    /\ NoTask \notin Tasks
    /\ NoProps \notin Props
    /\ NoExit \notin ExitCodes
    /\ IdempotentProps \subseteq Props
    /\ 0 \in ExitCodes

VARIABLES
    request,    \* TaskRequest: the properties asked for, or NoProps
    queued,     \* TaskToRun.is_reapable
    summary,    \* TaskResultSummary
    run,        \* TaskRunResult of each try
    expired,    \* is the clock past TaskRequest.expiration_ts?
    negCache,   \* the memcache blacklist of set_lookup_cache()
    reaping,    \* poll handlers between blacklisting a task and _reap_task's txn
    expiring,   \* _expire_task handlers in flight
    burying,    \* _handle_dead_bot handlers, with the expiration they sampled
    canceling,  \* cancel_task handlers in flight
    pubsubTq,   \* tasks with an undelivered item in the pubsub task queue
    heard       \* the summary state at the last notification of the topic

entities == <<request, queued, summary, run>>
handlers == <<reaping, expiring, burying, canceling>>
pubsub   == <<pubsubTq, heard>>
vars     == <<entities, expired, negCache, handlers, pubsub>>

-----------------------------------------------------------------------------
(* Entities *)

MaxTry == 2
Tries == 1 .. MaxTry

Running  == {"RUNNING", "PENDING"}                               \* STATES_RUNNING
Finished == {"EXPIRED", "TIMED_OUT", "BOT_DIED", "CANCELED", "COMPLETED"}
States   == Running \cup Finished

\* A run the bot never learnt about has given = FALSE; owed says that the bot
\* has yet to get an HTTP 200 for an update that ended the task.
RunResult ==
    [state  : {"NONE", "RUNNING", "TIMED_OUT", "BOT_DIED", "COMPLETED"},
     bot    : Bots \cup {NoBot},
     exit   : ExitCodes \cup {NoExit},
     pinged : BOOLEAN,          \* modified_ts # started_ts
     silent : BOOLEAN,          \* modified_ts <= now - BOT_PING_TOLERANCE
     given  : BOOLEAN,
     owed   : BOOLEAN]

NoRun ==
    [state |-> "NONE", bot |-> NoBot, exit |-> NoExit, pinged |-> FALSE,
     silent |-> FALSE, given |-> FALSE, owed |-> FALSE]

ResultSummary ==
    [state       : States,
     try         : 0 .. MaxTry,
     bot         : Bots \cup {NoBot},
     exit        : ExitCodes \cup {NoExit},
     reusable    : BOOLEAN,     \* properties_hash is set
     dedupedFrom : Tasks \cup {NoTask}]

NewResultSummary ==
    [state |-> "PENDING", try |-> 0, bot |-> NoBot, exit |-> NoExit,
     reusable |-> FALSE, dedupedFrom |-> NoTask]

Idempotent(t) == request[t] \in IdempotentProps

\* _calculate_failure()
Failure(result) ==
    result.state = "TIMED_OUT" \/ result.exit \notin {0, NoExit}

\* TaskResultSummary.set_from_run_result()
FromRunResult(s, r, k, idempotent) ==
    [state       |-> r.state,
     try         |-> k,
     bot         |-> r.bot,
     exit        |-> r.exit,
     reusable    |-> \/ s.reusable
                     \/ /\ r.state = "COMPLETED" /\ ~Failure(r)
                        /\ idempotent /\ s.dedupedFrom = NoTask,
     dedupedFrom |-> s.dedupedFrom]

\* Mutant: the bot of the dead try is forgotten.
ResetToPendingForgetsBot(s) ==
    [s EXCEPT !.state = "PENDING", !.exit = NoExit, !.bot = NoBot]

\* TaskResultSummary.reset_to_pending(): the bot and the try are kept.
ResetToPending(s) == [s EXCEPT !.state = "PENDING", !.exit = NoExit]

\* Mutant: the transaction enqueues nothing.
WithNotificationLost(t) == pubsubTq

\* _maybe_pubsub_notify_via_tq(): the item is enqueued with the transaction,
\* whatever the state is.
WithNotification(t) == pubsubTq \cup {t}

\* What handle_dead_bot and kill make of a run; modified_ts becomes now.
Died(r) == [r EXCEPT !.state = "BOT_DIED", !.pinged = TRUE, !.silent = FALSE]

-----------------------------------------------------------------------------
(* Clients *)

Init ==
    /\ request = [t \in Tasks |-> NoProps]
    /\ queued = [t \in Tasks |-> FALSE]
    /\ summary = [t \in Tasks |-> NewResultSummary]
    /\ run = [t \in Tasks |-> [k \in Tries |-> NoRun]]
    /\ expired = [t \in Tasks |-> FALSE]
    /\ negCache = [t \in Tasks |-> FALSE]
    /\ reaping = {} /\ expiring = {} /\ burying = {} /\ canceling = {}
    /\ pubsubTq = {}
    /\ heard = [t \in Tasks |-> "PENDING"]

\* schedule_request() when no earlier result is reused: the query that looks
\* for one is eventually consistent, so it may miss what is there.
ScheduleRequest(t, p) ==
    /\ request[t] = NoProps
    /\ request' = [request EXCEPT ![t] = p]
    /\ queued' = [queued EXCEPT ![t] = TRUE]
    /\ UNCHANGED <<summary, run, expired, negCache, handlers, pubsub>>

\* Mutant: the state of the earlier task is not checked.
IsDupeWhateverState(s, p) ==
    /\ request[s] = p
    /\ summary[s].reusable
    /\ ~Failure(summary[s])

\* _find_dupe_task()
IsDupe(s, p) ==
    /\ request[s] = p
    /\ summary[s].reusable
    /\ summary[s].state = "COMPLETED"
    /\ ~Failure(summary[s])

\* _copy_summary() and what schedule_request() zaps after it.
Reused(s) ==
    [state    |-> summary[s].state, try         |-> 0,
     bot      |-> summary[s].bot,   exit        |-> summary[s].exit,
     reusable |-> FALSE,            dedupedFrom |-> s]

\* schedule_request() reusing the result of s: the task is born completed.
ScheduleDeduped(t, p, s) ==
    /\ request[t] = NoProps
    /\ p \in IdempotentProps
    /\ IsDupe(s, p)
    /\ request' = [request EXCEPT ![t] = p]
    /\ summary' = [summary EXCEPT ![t] = Reused(s)]
    /\ UNCHANGED <<queued, run, expired, negCache, handlers, pubsub>>

\* run_parent() of schedule_request(), its second transaction, when the user
\* command of run k of t schedules a child: modified_ts of the run is now.
AdoptChild(t, k) ==
    /\ run[t][k].given /\ run[t][k].pinged
    /\ run' = [run EXCEPT ![t][k].silent = FALSE]
    /\ UNCHANGED <<request, queued, summary, expired, negCache, handlers, pubsub>>

\* cancel_task(): blacklists the task, then runs its transaction.
CancelStart(t) ==
    /\ request[t] # NoProps
    /\ t \notin canceling
    /\ canceling' = canceling \cup {t}
    /\ negCache' = [negCache EXCEPT ![t] = TRUE]
    /\ UNCHANGED <<entities, expired, reaping, expiring, burying, pubsub>>

CancelTxn(t) ==
    /\ t \in canceling
    /\ canceling' = canceling \ {t}
    /\ IF summary[t].state = "PENDING"
       THEN /\ queued' = [queued EXCEPT ![t] = FALSE]
            /\ summary' = [summary EXCEPT ![t].state = "CANCELED"]
            /\ pubsubTq' = WithNotification(t)
       ELSE UNCHANGED <<queued, summary, pubsubTq>>
    /\ UNCHANGED <<request, run, expired, negCache, reaping, expiring, burying,
                   heard>>

-----------------------------------------------------------------------------
(* Bots *)

\* _validate_task(), after it read the entities by key.
ReapCandidate(t) == queued[t] /\ ~negCache[t] /\ ~expired[t]

\* bot_reap_task() has found a candidate, and _reap_task() blacklists it.
ReapStart(b, t) ==
    /\ ReapCandidate(t)
    /\ \A u \in Tasks : <<b, u>> \notin reaping
    /\ negCache' = [negCache EXCEPT ![t] = TRUE]
    /\ reaping' = reaping \cup {<<b, t>>}
    /\ UNCHANGED <<entities, expired, expiring, burying, canceling, pubsub>>

\* Mutant: the bot whose try failed may have the task again.
MayReapTwice(b, t) == queued[t]

\* What the transaction of _reap_task() insists on: the task is still there and
\* this bot is not the one whose try failed.
MayReap(b, t) == queued[t] /\ summary[t].bot # b

\* The transaction of _reap_task().  The reply may not reach the bot.
ReapTxn(b, t, delivered) ==
    LET k == summary[t].try + 1
        r == [NoRun EXCEPT !.state = "RUNNING", !.bot = b, !.given = delivered]
    IN  /\ <<b, t>> \in reaping
        /\ reaping' = reaping \ {<<b, t>>}
        /\ MayReap(b, t)
        /\ k \in Tries
        /\ queued' = [queued EXCEPT ![t] = FALSE]
        /\ run' = [run EXCEPT ![t][k] = r]
        /\ summary' = [summary EXCEPT ![t] = FromRunResult(@, r, k, Idempotent(t))]
        /\ pubsubTq' = WithNotification(t)
        /\ UNCHANGED <<request, expired, negCache, expiring, burying, canceling,
                       heard>>

\* The transaction of _reap_task() denies the task, or fails: the bot goes on
\* to the next candidate and the task stays blacklisted.
ReapDenied(b, t) ==
    /\ <<b, t>> \in reaping
    /\ reaping' = reaping \ {<<b, t>>}
    /\ UNCHANGED <<entities, expired, negCache, expiring, burying, canceling,
                   pubsub>>

\* Mutant: the state is not looked at, a dead run completes after all.
UpdatedWhateverState(r, exit, timeout) ==
    LET code == IF r.exit = NoExit THEN exit ELSE r.exit
    IN  [r EXCEPT !.exit = code, !.pinged = TRUE, !.silent = FALSE,
                  !.state = IF timeout THEN "TIMED_OUT"
                            ELSE IF code # NoExit THEN "COMPLETED" ELSE @]

\* TaskRunResult as bot_update_task() leaves it.
Updated(r, exit, timeout) ==
    LET code == IF r.exit = NoExit THEN exit ELSE r.exit
    IN  [r EXCEPT !.exit = code, !.pinged = TRUE, !.silent = FALSE,
                  !.state = IF @ # "RUNNING" THEN @
                            ELSE IF timeout THEN "TIMED_OUT"
                            ELSE IF code # NoExit THEN "COMPLETED"
                            ELSE @]

\* Two different exit codes are refused by bot_update_task(), and a final state
\* without an exit code by _pre_put_hook().
UpdateAccepted(r, exit, timeout) ==
    /\ exit # NoExit => r.exit \in {NoExit, exit}
    /\ Updated(r, exit, timeout).state = "TIMED_OUT"
         => Updated(r, exit, timeout).exit # NoExit

\* Mutant: a late update of a superseded try overwrites the summary.
SummaryAfterLateUpdate(s, r, k, idempotent) == FromRunResult(s, r, k, idempotent)

\* A try that was superseded only updates its cost in the summary.
SummaryAfterUpdate(s, r, k, idempotent) ==
    IF s.try > k THEN s ELSE FromRunResult(s, r, k, idempotent)

\* bot_update_task(): its transaction, then the notification outside of it.
\* acked is FALSE when the bot gets no HTTP 200: a CommitError, a notification
\* that failed, a handler or a reply that was lost.
BotUpdateTask(t, k, exit, timeout, acked) ==
    LET r == Updated(run[t][k], exit, timeout)
        s == SummaryAfterUpdate(summary[t], r, k, Idempotent(t))
        over == s.state \in Finished
    IN  /\ run[t][k].given
        /\ UpdateAccepted(run[t][k], exit, timeout)
        /\ run' = [run EXCEPT ![t][k] = [r EXCEPT !.owed = over /\ ~acked]]
        /\ summary' = [summary EXCEPT ![t] = s]
        /\ \/ over /\ heard' = [heard EXCEPT ![t] = s.state]
           \/ ~(over /\ acked) /\ UNCHANGED heard
        /\ UNCHANGED <<request, queued, expired, negCache, handlers, pubsubTq>>

\* bot_kill_task(), on the task_error a bot posts.
BotKillTask(t, k) ==
    /\ run[t][k].given
    /\ run[t][k].state # "BOT_DIED"
    /\ run' = [run EXCEPT ![t][k] = Died(@)]
    /\ summary' = [summary EXCEPT ![t] =
                     FromRunResult(@, Died(run[t][k]), k, FALSE)]
    /\ pubsubTq' = WithNotification(t)
    /\ UNCHANGED <<request, queued, expired, negCache, handlers, heard>>

-----------------------------------------------------------------------------
(* Cron jobs and task queues *)

\* Mutant: tasks that are queued for their retry never expire.
ExpireCandidateOnce(t) == queued[t] /\ expired[t] /\ summary[t].try = 0

\* yield_expired_task_to_run()
ExpireCandidate(t) == queued[t] /\ expired[t]

\* _expire_task() up to its transaction, on an item of yield_expired_task_to_run.
ExpireStart(t) ==
    /\ ExpireCandidate(t)
    /\ t \notin expiring
    /\ expiring' = expiring \cup {t}
    /\ negCache' = [negCache EXCEPT ![t] = TRUE]
    /\ UNCHANGED <<entities, expired, reaping, burying, canceling, pubsub>>

\* Mutant: a retry that expires is taken out of the queue and left pending.
ExpiredSummaryKeepsRetry(s, runs, idempotent) ==
    IF s.try = 0 THEN [s EXCEPT !.state = "EXPIRED"] ELSE s

\* A retry that expires keeps the state of the try that died.
ExpiredSummary(s, runs, idempotent) ==
    IF s.try = 0 THEN [s EXCEPT !.state = "EXPIRED"]
    ELSE FromRunResult(s, runs[s.try], s.try, idempotent)

ExpireTxn(t) ==
    /\ t \in expiring
    /\ expiring' = expiring \ {t}
    /\ IF queued[t]
       THEN /\ queued' = [queued EXCEPT ![t] = FALSE]
            /\ summary' = [summary EXCEPT ![t] =
                             ExpiredSummary(@, run[t], Idempotent(t))]
            /\ pubsubTq' = WithNotification(t)
       ELSE UNCHANGED <<queued, summary, pubsubTq>>
    /\ UNCHANGED <<request, run, expired, negCache, reaping, burying, canceling,
                   heard>>

\* The query of yield_run_result_keys_with_dead_bot(), and the check that the
\* transaction of _handle_dead_bot() makes again.
IsDead(r) == r.state = "RUNNING" /\ r.silent

\* Mutant: retries are not counted.
RetryAllowedForever(k, r, late, idempotent) == ~late /\ (idempotent \/ ~r.pinged)

\* A first try, in time, that is idempotent or never got to run user code.
RetryAllowed(k, r, late, idempotent) ==
    k = 1 /\ ~late /\ (idempotent \/ ~r.pinged)

\* _handle_dead_bot() up to its transaction, on an item of the (stale) query of
\* runs that are RUNNING and silent: it samples the clock once, here.
DeadBotStart(t, k) ==
    /\ IsDead(run[t][k])
    /\ \A x \in BOOLEAN : <<t, k, x>> \notin burying
    /\ burying' = burying \cup {<<t, k, expired[t]>>}
    /\ negCache' = [negCache EXCEPT ![t] = FALSE]
    /\ UNCHANGED <<entities, expired, reaping, expiring, canceling, pubsub>>

\* The transaction of _handle_dead_bot(): late is "now >= expiration_ts" for
\* the clock it sampled.
DeadBotTxn(t, k, late) ==
    LET r == run[t][k]
        s == summary[t]
        retried == s.try = k /\ RetryAllowed(k, r, late, Idempotent(t))
        s2 == IF s.try # k THEN s
              ELSE IF retried THEN ResetToPending(s)
              ELSE FromRunResult(s, Died(r), k, Idempotent(t))
    IN  /\ <<t, k, late>> \in burying
        /\ burying' = burying \ {<<t, k, late>>}
        /\ IF IsDead(r)
           THEN /\ run' = [run EXCEPT ![t][k] = Died(r)]
                /\ summary' = [summary EXCEPT ![t] = s2]
                /\ queued' = [queued EXCEPT ![t] = retried \/ @]
                /\ pubsubTq' = IF s2.state # s.state THEN WithNotification(t)
                               ELSE pubsubTq
           ELSE UNCHANGED <<run, summary, queued, pubsubTq>>
        /\ UNCHANGED <<request, expired, negCache, reaping, expiring, canceling,
                       heard>>

\* A handler in flight hits a CommitError that wrote nothing, its deadline, or a
\* restart of its instance.  The cron jobs and the clients come back later.
HandlerFails ==
    /\ \/ \E t \in expiring : expiring' = expiring \ {t} /\ UNCHANGED <<burying, canceling>>
       \/ \E h \in burying : burying' = burying \ {h} /\ UNCHANGED <<expiring, canceling>>
       \/ \E t \in canceling : canceling' = canceling \ {t} /\ UNCHANGED <<expiring, burying>>
    /\ UNCHANGED <<entities, expired, negCache, reaping, pubsub>>

\* task_handle_pubsub_task(): the task queue delivers at least once.
HandlePubsubTask(t) ==
    /\ t \in pubsubTq
    /\ pubsubTq' \in {pubsubTq, pubsubTq \ {t}}
    /\ heard' = [heard EXCEPT ![t] = summary[t].state]
    /\ UNCHANGED <<entities, expired, negCache, handlers>>

-----------------------------------------------------------------------------
(* Time *)

\* The clock passes expiration_ts.
ExpirationPasses(t) ==
    /\ request[t] # NoProps /\ ~expired[t]
    /\ summary[t].dedupedFrom = NoTask
    /\ expired' = [expired EXCEPT ![t] = TRUE]
    /\ UNCHANGED <<entities, negCache, handlers, pubsub>>

\* BOT_PING_TOLERANCE passes since the run was last modified.  A handler that
\* sampled the clock before the last modification still sees a fresh run, so
\* time only moves on once that handler is gone.
ToleranceElapses(t, k) ==
    /\ run[t][k].state = "RUNNING" /\ ~run[t][k].silent
    /\ \A x \in BOOLEAN : <<t, k, x>> \notin burying
    /\ run' = [run EXCEPT ![t][k].silent = TRUE]
    /\ UNCHANGED <<request, queued, summary, expired, negCache, handlers, pubsub>>

\* The 15 seconds of a blacklist entry are over, or memcache evicts it.
LookupCacheLapses(t) ==
    /\ negCache[t]
    /\ negCache' = [negCache EXCEPT ![t] = FALSE]
    /\ UNCHANGED <<entities, expired, handlers, pubsub>>

-----------------------------------------------------------------------------
Client(t) ==
    \/ \E p \in Props : ScheduleRequest(t, p)
    \/ \E p \in Props, s \in Tasks : ScheduleDeduped(t, p, s)
    \/ \E k \in Tries : AdoptChild(t, k)
    \/ CancelStart(t)
    \/ CancelTxn(t)

Bot(t) ==
    \/ \E b \in Bots : ReapStart(b, t) \/ ReapDenied(b, t)
    \/ \E b \in Bots, delivered \in BOOLEAN : ReapTxn(b, t, delivered)
    \/ \E k \in Tries, exit \in ExitCodes \cup {NoExit},
          timeout, acked \in BOOLEAN : BotUpdateTask(t, k, exit, timeout, acked)
    \/ \E k \in Tries : BotKillTask(t, k)

Cron(t) ==
    \/ ExpireStart(t)
    \/ ExpireTxn(t)
    \/ \E k \in Tries : DeadBotStart(t, k)
    \/ \E k \in Tries, late \in BOOLEAN : DeadBotTxn(t, k, late)
    \/ HandlePubsubTask(t)

Time(t) ==
    \/ ExpirationPasses(t)
    \/ \E k \in Tries : ToleranceElapses(t, k)
    \/ LookupCacheLapses(t)

Next ==
    \/ \E t \in Tasks : Client(t) \/ Bot(t) \/ Cron(t) \/ Time(t)
    \/ HandlerFails

Spec == Init /\ [][Next]_vars

-----------------------------------------------------------------------------
(* Safety *)

\* Every entity has the fields the models of task_result.py give it.
TypeOK ==
    /\ request \in [Tasks -> Props \cup {NoProps}]
    /\ queued \in [Tasks -> BOOLEAN]
    /\ summary \in [Tasks -> ResultSummary]
    /\ run \in [Tasks -> [Tries -> RunResult]]
    /\ expired \in [Tasks -> BOOLEAN]
    /\ negCache \in [Tasks -> BOOLEAN]
    /\ reaping \subseteq Bots \X Tasks
    /\ expiring \subseteq Tasks
    /\ burying \subseteq Tasks \X Tries \X BOOLEAN
    /\ canceling \subseteq Tasks
    /\ pubsubTq \subseteq Tasks
    /\ heard \in [Tasks -> States]

\* A task in the queue has no live run and its second try is not used up, so the
\* next bot to reap it is its only runner and _reap_task() never asks for a
\* third try, which task_pack refuses with an exception.
QueuedIsFree ==
    \A t \in Tasks :
        queued[t] => /\ run[t][2] = NoRun
                     /\ run[t][1].state \in {"NONE", "BOT_DIED"}

\* The second try only follows the death of the first one, on another bot: the
\* first bot, back from the dead, is denied its own task in _reap_task().
RetryIsElsewhere ==
    \A t \in Tasks :
        run[t][2] # NoRun => /\ run[t][1].state = "BOT_DIED"
                             /\ run[t][2].bot # run[t][1].bot

\* A pending task is in the queue, so that a bot or the expiration cron job will
\* find it: no handler leaves a task that nothing will ever pick up.
PendingIsQueued ==
    \A t \in Tasks :
        request[t] # NoProps /\ summary[t].state = "PENDING" => queued[t]

\* What the client reads in the summary is what the last try did, but for a
\* first try that died: the task may then be pending again, or canceled while
\* it was.
SummaryShowsLastTry ==
    \A t \in Tasks :
        LET s == summary[t]
        IN  /\ \A k \in Tries : run[t][k] # NoRun <=> k <= s.try
            /\ IF s.try = 0
               THEN s.state \in {"PENDING", "EXPIRED", "CANCELED", "COMPLETED"}
               ELSE \/ s.state = run[t][s.try].state
                    \/ /\ s.try = 1 /\ run[t][1].state = "BOT_DIED"
                       /\ s.state \in {"PENDING", "CANCELED"}

\* No task ends in silence: once it is over its topic was told of the final
\* state, or the task queue still holds the item that will tell it, or a bot
\* still owes the update it was refused an answer to and must retry.
NoSilentEnd ==
    \A t \in Tasks :
        /\ summary[t].state \in Finished
        /\ summary[t].dedupedFrom = NoTask
        => \/ heard[t] = summary[t].state
           \/ t \in pubsubTq
           \/ \E k \in Tries : run[t][k].owed

\* A result is only ever reused from a task that really ran, with the same
\* properties, and that succeeded; a bot may disown it only later.
ReusedResultIsReal ==
    \A t \in Tasks :
        LET s == summary[t].dedupedFrom
        IN  s # NoTask =>
              /\ request[t] = request[s] /\ request[s] \in IdempotentProps
              /\ summary[t].state = "COMPLETED" /\ summary[t].exit = 0
              /\ summary[s].dedupedFrom = NoTask
              /\ run[s][summary[s].try].exit = 0
              /\ summary[s].state \in {"COMPLETED", "BOT_DIED"}

\* A task nobody runs and nobody may reap.
Closed(t) ==
    /\ request[t] # NoProps
    /\ ~queued[t]
    /\ \A k \in Tries : run[t][k].state # "RUNNING"

\* Whatever late update, kill, cron job or poll comes in, a task that is over is
\* never put back in the queue nor given to a bot.
NeverReopened ==
    [][\A t \in Tasks : Closed(t) => Closed(t)']_vars

\* The bot whose try is running, if any, and the bots of all tries.
Owner(runs) ==
    IF runs[1].state = "RUNNING" THEN runs[1].bot
    ELSE IF runs[2].state = "RUNNING" THEN runs[2].bot
    ELSE NoBot

TriedBots(runs) == {runs[k].bot : k \in {n \in Tries : runs[n] # NoRun}}

Created == {t \in Tasks : request[t] # NoProps}
Offered == {t \in Tasks : queued[t]}
Owners  == [t \in Tasks |-> Owner(run[t])]
TriedBy == [t \in Tasks |-> TriedBots(run[t])]

Ownership ==
    INSTANCE TaskOwnership WITH
        created <- Created, offered <- Offered, owner <- Owners, tried <- TriedBy

\* The handlers, whatever their interleaving, grant the task the way
\* TaskOwnership allows and in no other.
ImplementsOwnership == Ownership!Spec

-----------------------------------------------------------------------------
(* The inductive invariant *)

\* How the entities of a task fit together: p is its request, q whether it is
\* queued, s its summary and rs its runs.
Coherent(p, q, s, rs) ==
    /\ p = NoProps => ~q /\ s.state = "PENDING" /\ s.try = 0
                         /\ s.dedupedFrom = NoTask
    /\ s.dedupedFrom # NoTask => ~q /\ s.try = 0 /\ s.state = "COMPLETED"
    /\ \A k \in Tries : rs[k].state = "NONE" => rs[k] = NoRun
    /\ \A k \in Tries : rs[k].state # "NONE" <=> k <= s.try
    /\ \A k \in Tries : k <= s.try => rs[k].bot \in Bots
    /\ s.try = 2 => rs[1].state = "BOT_DIED" /\ rs[1].bot # rs[2].bot
    /\ s.try # 0 => s.bot = rs[s.try].bot
    /\ q => s.try # 2 /\ rs[1].state \in {"NONE", "BOT_DIED"}
    /\ p # NoProps /\ s.state = "PENDING" => q
    /\ s.try = 0 => s.state \in {"PENDING", "EXPIRED", "CANCELED", "COMPLETED"}
    /\ s.try # 0 => \/ s.state = rs[s.try].state
                    \/ /\ s.try = 1 /\ rs[1].state = "BOT_DIED"
                       /\ s.state \in {"PENDING", "CANCELED"}

\* cancel_task() gets an existing task.
CancelingIsKnown == \A t \in canceling : request[t] # NoProps

\* Whatever handlers interleave, the four entities of every task stay coherent:
\* the invariant that the safety properties above and below follow from.
Inv ==
    /\ TypeOK
    /\ CancelingIsKnown
    /\ \A t \in Tasks : Coherent(request[t], queued[t], summary[t], run[t])

-----------------------------------------------------------------------------
(* Liveness *)

\* The cron jobs run for ever and their transactions do not fail for ever; the
\* clock ticks; nothing is assumed of the bots nor of the clients.
Fairness ==
    \A t \in Tasks :
        /\ WF_vars(ExpirationPasses(t))
        /\ WF_vars(ExpireStart(t))
        /\ SF_vars(ExpireTxn(t))
        /\ \A k \in Tries :
              /\ WF_vars(ToleranceElapses(t, k))
              /\ WF_vars(DeadBotStart(t, k))
              /\ SF_vars(\E late \in BOOLEAN : DeadBotTxn(t, k, late))

FairSpec == Spec /\ Fairness

\* An update or a child task, which keep a run alive.
Ping(t) ==
    \/ \E k \in Tries : AdoptChild(t, k)
    \/ \E k \in Tries, exit \in ExitCodes \cup {NoExit},
          timeout, acked \in BOOLEAN : BotUpdateTask(t, k, exit, timeout, acked)

\* If the bots fall silent, every task that was requested is eventually over:
\* expired, or its runs buried, its retry included.
SilenceIsFinite ==
    \A t \in Tasks :
        <>[][~Ping(t)]_vars => (request[t] # NoProps ~> Closed(t))

=============================================================================
