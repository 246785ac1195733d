----------------------------- MODULE BotProtocol -----------------------------
(***************************************************************************)
(* The bots, composed with the scheduler they talk to.                     *)
(*                                                                         *)
(* TaskScheduler lets a bot post anything about a try it was given.  Here  *)
(* a bot is the process that bot_main.py and task_runner.py make of it: it *)
(* polls, starts a task_runner, which announces itself before it starts    *)
(* user code, pings, posts the outcome, and leaves internal failures to    *)
(* bot_main to report.  A post is retried until it gets an HTTP 200 or the *)
(* client gives up; any copy of it may reach the server later, when nobody *)
(* listens to the reply.  A process may be killed at any step.             *)
(*                                                                         *)
(* The server never replies must_stop: it does so for a TaskRunResult that *)
(* is CANCELED, and no handler makes one.                                  *)
(***************************************************************************)
EXTENDS TaskScheduler

VARIABLES
    bot,        \* the process of each bot
    posts,      \* the requests ever sent: the network may deliver them again
    executed,   \* history: the tries whose user code was started
    disowned    \* history: the tries whose task_error got an HTTP 200

botVars == <<bot, posts, executed, disowned>>
allVars == <<vars, botVars>>

-----------------------------------------------------------------------------
(* Processes and requests *)

\* What a task_runner says of the try it runs.  A broken one must signal an
\* internal failure when it exits.
Process ==
    [phase   : {"polling", "announcing", "running", "finishing", "failing"},
     task    : Tasks \cup {NoTask},
     try     : Tries,
     exit    : ExitCodes \cup {NoExit},
     timeout : BOOLEAN,
     broken  : BOOLEAN]

Poller ==
    [phase |-> "polling", task |-> NoTask, try |-> 1, exit |-> NoExit,
     timeout |-> FALSE, broken |-> FALSE]

\* RemoteClientNative.post_task_update()
Update(p) ==
    [kind |-> "task_update", task |-> p.task, try |-> p.try, exit |-> p.exit,
     timeout |-> p.timeout]

\* RemoteClientNative.post_task_error()
Error(p) ==
    [kind |-> "task_error", task |-> p.task, try |-> p.try, exit |-> NoExit,
     timeout |-> FALSE]

\* BotTaskUpdateHandler and BotTaskErrorHandler, on request m.
Handle(m, acked) ==
    IF m.kind = "task_update"
    THEN BotUpdateTask(m.task, m.try, m.exit, m.timeout, acked)
    ELSE BotKillTask(m.task, m.try)

\* Bot b becomes p, and sends the requests ms.
Becomes(b, p, ms) == bot' = [bot EXCEPT ![b] = p] /\ posts' = posts \cup ms

InitBots ==
    /\ bot = [b \in Bots |-> Poller]
    /\ posts = {} /\ executed = {} /\ disowned = {}

-----------------------------------------------------------------------------
(* bot_main *)

\* _poll_server(): the handler has a candidate for this bot.
Poll(b, t) ==
    /\ bot[b].phase = "polling"
    /\ ReapStart(b, t)
    /\ UNCHANGED botVars

\* _run_manifest(): the bot is given the task and starts a task_runner, whose
\* run_command() first posts an update.
RunManifest(b, t) ==
    LET p == [Poller EXCEPT !.phase = "announcing", !.task = t,
                            !.try = summary[t].try + 1]
    IN  /\ bot[b].phase = "polling"
        /\ ReapTxn(b, t, TRUE)
        /\ Becomes(b, p, {Update(p)})
        /\ UNCHANGED <<executed, disowned>>

\* The reply to the poll is lost; the bot polls again.
ManifestIsLost(b, t) == ReapTxn(b, t, FALSE) /\ UNCHANGED botVars

\* _post_error_task() got its reply: HTTP 200, or 400 for a run that is BOT_DIED
\* already.
TaskErrorIsAnswered(b) ==
    LET p == bot[b]
    IN  /\ p.phase = "failing"
        /\ \/ BotKillTask(p.task, p.try)
           \/ run[p.task][p.try].state = "BOT_DIED" /\ UNCHANGED vars
        /\ Becomes(b, Poller, {})
        /\ disowned' = disowned \cup {<<p.task, p.try>>}
        /\ UNCHANGED executed

\* bot_main gives up posting the error, or the process is killed or the host
\* reboots, at any step: the bot polls again.
BotRestarts(b) ==
    /\ bot[b].phase # "polling"
    /\ Becomes(b, Poller, {})
    /\ UNCHANGED <<vars, executed, disowned>>

-----------------------------------------------------------------------------
(* task_runner *)

\* Mutant: user code is started while the first update is on its way.
MayStartUnannounced(p) == UNCHANGED vars

\* User code may start once the first update got its HTTP 200.
MayStart(p) == BotUpdateTask(p.task, p.try, NoExit, FALSE, TRUE)

\* run_command() starts the command.
StartCommand(b) ==
    LET p == bot[b]
    IN  /\ p.phase = "announcing"
        /\ MayStart(p)
        /\ Becomes(b, [p EXCEPT !.phase = "running"], {})
        /\ executed' = executed \cup {<<p.task, p.try>>}
        /\ UNCHANGED disowned

\* Mutant: the exit code of a command that did not start is the one of success.
StartFailureCodesWithSuccess == ExitCodes

\* The exit codes of fail_without_command().
StartFailureCodes == ExitCodes \ {0}

\* run_command() cannot start the command: fail_without_command().
CommandFailsToStart(b, exit) ==
    LET p == bot[b]
        q == [p EXCEPT !.phase = "finishing", !.exit = exit]
    IN  /\ p.phase = "announcing"
        /\ exit \in StartFailureCodes
        /\ BotUpdateTask(p.task, p.try, NoExit, FALSE, TRUE)
        /\ Becomes(b, q, {Update(q)})
        /\ UNCHANGED <<executed, disowned>>

\* The loop of run_command() posts an update: MAX_PACKET_INTERVAL is over.
PingIsAnswered(b) ==
    LET p == bot[b]
    IN  /\ p.phase = "running"
        /\ BotUpdateTask(p.task, p.try, NoExit, FALSE, TRUE)
        /\ UNCHANGED botVars

\* The command is over: it exited, timed out, was killed because a post failed,
\* or run_isolated failed.  The last update has its exit code in all cases.
CommandEnds(b, exit, timeout, broken) ==
    LET p == bot[b]
        q == [p EXCEPT !.phase = "finishing", !.exit = exit,
                       !.timeout = timeout, !.broken = broken]
    IN  /\ p.phase = "running"
        /\ Becomes(b, q, {Update(q)})
        /\ UNCHANGED <<vars, executed, disowned>>

\* The last update got its HTTP 200: the task_runner exits and bot_main polls
\* again, after it reported an internal failure if there was one.
OutcomeIsAnswered(b) ==
    LET p == bot[b]
    IN  /\ p.phase = "finishing"
        /\ BotUpdateTask(p.task, p.try, p.exit, p.timeout, TRUE)
        /\ IF p.broken
           THEN Becomes(b, [p EXCEPT !.phase = "failing"], {Error(p)})
           ELSE Becomes(b, Poller, {})
        /\ UNCHANGED <<executed, disowned>>

\* The task_runner gives up on its first or last update, hangs and is killed, or
\* raises: bot_main posts a task_error.
RunnerFails(b) ==
    LET p == bot[b]
    IN  /\ p.phase \in {"announcing", "running", "finishing"}
        /\ Becomes(b, [p EXCEPT !.phase = "failing"], {Error(p)})
        /\ UNCHANGED <<vars, executed, disowned>>

-----------------------------------------------------------------------------
(* The network and the server *)

\* A request is handled, and its sender gets no HTTP 200 or has gone.
RequestIsUnanswered(m) ==
    /\ m \in posts
    /\ Handle(m, FALSE)
    /\ UNCHANGED botVars

\* What the scheduler does by itself or for its clients.
Scheduler(t) ==
    /\ \/ Client(t) \/ Cron(t) \/ Time(t)
       \/ \E b \in Bots : ReapDenied(b, t)
    /\ UNCHANGED botVars

BotMain(b) ==
    \/ \E t \in Tasks : Poll(b, t) \/ RunManifest(b, t) \/ ManifestIsLost(b, t)
    \/ TaskErrorIsAnswered(b)
    \/ BotRestarts(b)

TaskRunner(b) ==
    \/ StartCommand(b)
    \/ \E exit \in ExitCodes : CommandFailsToStart(b, exit)
    \/ PingIsAnswered(b)
    \/ \E exit \in ExitCodes, timeout, broken \in BOOLEAN :
          CommandEnds(b, exit, timeout, broken)
    \/ OutcomeIsAnswered(b)
    \/ RunnerFails(b)

NextBots ==
    \/ \E b \in Bots : BotMain(b) \/ TaskRunner(b)
    \/ \E m \in posts : RequestIsUnanswered(m)
    \/ \E t \in Tasks : Scheduler(t)
    \/ HandlerFails /\ UNCHANGED botVars

SpecBots == Init /\ InitBots /\ [][NextBots]_allVars

-----------------------------------------------------------------------------
(* Safety *)

TypeOKBots ==
    /\ bot \in [Bots -> Process]
    /\ \A m \in posts :
          m \in [kind    : {"task_update", "task_error"},
                 task    : Tasks,
                 try     : Tries,
                 exit    : ExitCodes \cup {NoExit},
                 timeout : BOOLEAN]
    /\ executed \subseteq Tasks \X Tries
    /\ disowned \subseteq Tasks \X Tries

\* A task that is not idempotent goes back to the queue only if its user code
\* was not started: that is what the first update of a task_runner is for.
RetryIsHarmless ==
    [][\A t \in Tasks :
          ~Idempotent(t) /\ ~queued[t] /\ queued'[t] => <<t, 1>> \notin executed]_allVars

\* A success the client sees is one of user code, in the try shown, whatever is
\* lost, repeated or late.  (ReusedResultIsReal is about results of others.)
SuccessIsReal ==
    \A t \in Tasks :
        LET s == summary[t]
        IN  s.state = "COMPLETED" /\ s.exit = 0 /\ s.dedupedFrom = NoTask
              => <<t, s.try>> \in executed

\* Once the server has acknowledged that a try failed internally, neither its
\* run nor the summary ever shows that try as a success, whatever update of it
\* is still on its way.
DisownedStaysDead ==
    \A t \in Tasks, k \in Tries :
        <<t, k>> \in disowned =>
            /\ run[t][k].state = "BOT_DIED"
            /\ summary[t].try = k => summary[t].state # "COMPLETED"

-----------------------------------------------------------------------------
(* What comments say of the program, and the program does not do *)

\* run_command() says of its first update that, for a task that is not
\* idempotent, "this signal is used to know if it is safe to retry the task or
\* not": user code of such a task would not be started by two bots.
NotIdempotentRunsOnce ==
    \A t \in Tasks : ~Idempotent(t) => \E k \in Tries : <<t, k>> \notin executed

=============================================================================
