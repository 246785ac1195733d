------------------------ MODULE TaskSchedulerProofs ------------------------
(***************************************************************************)
(* Theorems about TaskScheduler, and about the bots of BotProtocol that    *)
(* talk to it, for every set of tasks, bots, properties and exit codes.    *)
(*                                                                         *)
(* 1. The entities of a task.  The inductive invariant says, for each      *)
(*    task, how its four entities fit together (Coherent).  The lemmas say *)
(*    what each write of the code does to a coherent task; the induction   *)
(*    step then has one case per action.                                   *)
(* 2. What clients are told.  The end of a task is announced, and a result *)
(*    that is reused is that of a task that ran and succeeded.             *)
(* 3. Who runs a task.  Each action of the scheduler grants, closes,       *)
(*    offers again or withdraws a task the way TaskOwnership allows, or    *)
(*    leaves its ownership alone.  That a task which is over stays so is   *)
(*    then read off the abstract specification.                            *)
(* 4. The bots.  With bots that behave as bot_main.py and task_runner.py   *)
(*    and a network that loses, repeats and delays, every step is one that *)
(*    the scheduler makes anyway, and the entities never say more than     *)
(*    what the bots did.                                                   *)
(***************************************************************************)
EXTENDS BotProtocol, TLAPS

-----------------------------------------------------------------------------
(* 1. The entities of a task *)

-----------------------------------------------------------------------------
(* The helpers on entities: what they return. *)

\* Copying a run into the summary gives a summary that shows this run.
LEMMA FromRunResultShows ==
    ASSUME NEW s \in ResultSummary, NEW r \in RunResult, NEW k \in Tries,
           NEW i, r.state # "NONE"
    PROVE  LET f == FromRunResult(s, r, k, i)
           IN  /\ f \in ResultSummary
               /\ f.state = r.state /\ f.try = k /\ f.bot = r.bot
               /\ f.dedupedFrom = s.dedupedFrom
BY DEF FromRunResult, ResultSummary, RunResult, Tries, MaxTry, States, Running,
       Finished

\* Putting a summary back to PENDING keeps its try and its bot.
LEMMA ResetKeepsBot ==
    ASSUME NEW s \in ResultSummary
    PROVE  LET f == ResetToPending(s)
           IN  /\ f \in ResultSummary
               /\ f.state = "PENDING" /\ f.try = s.try /\ f.bot = s.bot
               /\ f.dedupedFrom = s.dedupedFrom
BY DEF ResetToPending, ResultSummary, States, Running, Finished

\* Closing a summary by hand, as expiration and cancelation do, changes its state
\* only.
LEMMA AbandonKeepsBot ==
    ASSUME NEW s \in ResultSummary, NEW st \in States
    PROVE  LET f == [s EXCEPT !.state = st]
           IN  /\ f \in ResultSummary
               /\ f.state = st /\ f.try = s.try /\ f.bot = s.bot
               /\ f.dedupedFrom = s.dedupedFrom
BY DEF ResultSummary

\* A run that dies is the same run, BOT_DIED.
LEMMA DiedIsDead ==
    ASSUME NEW r \in RunResult
    PROVE  /\ Died(r) \in RunResult /\ Died(r).state = "BOT_DIED"
           /\ Died(r).bot = r.bot
BY DEF Died, RunResult

\* The clock and a child task change nothing of a run but its age.
LEMMA AgeKeepsRun ==
    ASSUME NEW r \in RunResult, NEW x \in BOOLEAN
    PROVE  LET f == [r EXCEPT !.silent = x]
           IN  f \in RunResult /\ f.state = r.state /\ f.bot = r.bot
BY DEF RunResult

\* An update keeps the bot of a run, and its state unless it was running.
LEMMA UpdatedKeepsDead ==
    ASSUME NEW r \in RunResult, NEW e \in ExitCodes \cup {NoExit},
           NEW timeout \in BOOLEAN, NEW o
    PROVE  LET f == Updated(r, e, timeout)
               g == [f EXCEPT !.owed = o]
           IN  /\ f \in RunResult /\ f.bot = r.bot
               /\ r.state # "RUNNING" => f.state = r.state
               /\ r.state = "RUNNING" => f.state \in {"RUNNING", "TIMED_OUT", "COMPLETED"}
               /\ o \in BOOLEAN => g \in RunResult
               /\ g.bot = r.bot
               /\ g.state = f.state
<1> DEFINE f == Updated(r, e, timeout)
           g == [f EXCEPT !.owed = o]
<1>1. /\ f \in RunResult /\ f.bot = r.bot
      /\ r.state # "RUNNING" => f.state = r.state
      /\ r.state = "RUNNING" => f.state \in {"RUNNING", "TIMED_OUT", "COMPLETED"}
  <2>1. CASE r.exit = NoExit
    BY <2>1 DEF Updated, RunResult
  <2>2. CASE r.exit # NoExit
    BY <2>2 DEF Updated, RunResult
  <2>3. QED
    BY <2>1, <2>2
<1> HIDE DEF f
<1>2. (o \in BOOLEAN => g \in RunResult) /\ g.bot = r.bot /\ g.state = f.state
  BY <1>1 DEF RunResult
<1>3. QED
  BY <1>1, <1>2 DEF f

\* A fresh run is a running one.
LEMMA FreshRun ==
    ASSUME NEW b \in Bots, NEW g \in BOOLEAN
    PROVE  LET r == [NoRun EXCEPT !.state = "RUNNING", !.bot = b, !.given = g]
           IN  r \in RunResult /\ r.state = "RUNNING" /\ r.bot = b
BY DEF RunResult, NoRun

\* The entities of a task that was never requested are well typed.
LEMMA NewEntities ==
    /\ NoRun \in RunResult /\ NoRun.state = "NONE" /\ ~NoRun.given
    /\ NewResultSummary \in ResultSummary
    /\ NewResultSummary.state = "PENDING" /\ NewResultSummary.try = 0
    /\ NewResultSummary.dedupedFrom = NoTask
BY DEF NoRun, RunResult, NewResultSummary, ResultSummary, MaxTry, States, Running,
       Finished

-----------------------------------------------------------------------------
(* What the writes of the code do to a coherent task *)

\* _reap_task() on a queued task whose summary names another bot.
LEMMA ReapIsCoherent ==
    ASSUME NEW p, NEW s \in ResultSummary, NEW rs \in [Tries -> RunResult],
           NEW b \in Bots, NEW r \in RunResult, NEW i,
           Coherent(p, TRUE, s, rs), s.bot # b,
           s.try + 1 \in Tries, r.state = "RUNNING", r.bot = b
    PROVE  Coherent(p, FALSE, FromRunResult(s, r, s.try + 1, i),
                    [rs EXCEPT ![s.try + 1] = r])
<1> DEFINE k == s.try + 1
           f == FromRunResult(s, r, k, i)
           ns == [rs EXCEPT ![k] = r]
<1>1. /\ f \in ResultSummary /\ f.state = "RUNNING" /\ f.try = k /\ f.bot = b
      /\ f.dedupedFrom = s.dedupedFrom
  BY FromRunResultShows
<1>2. s.try \in {0, 1} /\ k \in {1, 2} /\ p # NoProps /\ s.dedupedFrom = NoTask
  BY DEF Coherent, Tries, MaxTry, ResultSummary
<1>3. ns[k] = r /\ \A n \in Tries \ {k} : ns[n] = rs[n]
  OBVIOUS
<1>4. CASE s.try = 0
  BY <1>1, <1>2, <1>3, <1>4 DEF Coherent, Tries, MaxTry
<1>5. CASE s.try = 1
  BY <1>1, <1>2, <1>3, <1>5 DEF Coherent, Tries, MaxTry
<1>6. QED
  BY <1>2, <1>4, <1>5

\* A run the bot knows of is a run that exists, of a task that was not deduped.
LEMMA GivenRunExists ==
    ASSUME NEW p, NEW q \in BOOLEAN, NEW s \in ResultSummary,
           NEW rs \in [Tries -> RunResult], NEW k \in Tries,
           Coherent(p, q, s, rs), rs[k].given \/ rs[k].state = "RUNNING"
    PROVE  /\ rs[k].state # "NONE" /\ k <= s.try /\ s.try \in Tries
           /\ rs[k].bot \in Bots /\ p # NoProps /\ s.dedupedFrom = NoTask
           /\ k # s.try => k = 1 /\ s.try = 2 /\ rs[k].state = "BOT_DIED"
BY NewEntities DEF Coherent, Tries, MaxTry, ResultSummary

\* Any write that keeps the bot of an existing run, revives no run, and leaves
\* the summary showing the last try.
LEMMA RunWriteIsCoherent ==
    ASSUME NEW p, NEW q \in BOOLEAN, NEW s \in ResultSummary,
           NEW rs \in [Tries -> RunResult], NEW k \in Tries,
           NEW r \in RunResult, NEW i,
           Coherent(p, q, s, rs), rs[k].given \/ rs[k].state = "RUNNING",
           r.bot = rs[k].bot, r.state # "NONE",
           rs[k].state = "BOT_DIED" => r.state = "BOT_DIED"
    PROVE  /\ s.try = k => Coherent(p, q, FromRunResult(s, r, k, i),
                                    [rs EXCEPT ![k] = r])
           /\ s.try # k => Coherent(p, q, s, [rs EXCEPT ![k] = r])
<1> DEFINE f == FromRunResult(s, r, k, i)
           ns == [rs EXCEPT ![k] = r]
<1>1. /\ f \in ResultSummary /\ f.state = r.state /\ f.try = k
      /\ f.bot = r.bot /\ f.dedupedFrom = s.dedupedFrom
  BY FromRunResultShows
<1>2. /\ rs[k].state # "NONE" /\ k <= s.try /\ s.try \in Tries
      /\ rs[k].bot \in Bots /\ p # NoProps /\ s.dedupedFrom = NoTask
      /\ k # s.try => k = 1 /\ s.try = 2 /\ rs[k].state = "BOT_DIED"
  BY GivenRunExists
<1>3. ns[k] = r /\ \A n \in Tries \ {k} : ns[n] = rs[n]
  OBVIOUS
<1>4. r.state # "PENDING"
  BY DEF RunResult
<1>5. ASSUME s.try = k
      PROVE  Coherent(p, q, f, ns)
  BY <1>1, <1>2, <1>3, <1>4, <1>5 DEF Coherent, Tries, MaxTry
<1>6. ASSUME s.try # k
      PROVE  Coherent(p, q, s, ns)
  BY <1>2, <1>3, <1>6 DEF Coherent, Tries, MaxTry
<1>7. QED
  BY <1>5, <1>6

\* A first try that dies and is put back in the queue.
LEMMA RetryIsCoherent ==
    ASSUME NEW p, NEW q \in BOOLEAN, NEW s \in ResultSummary,
           NEW rs \in [Tries -> RunResult], NEW r \in RunResult,
           Coherent(p, q, s, rs), rs[1].state = "RUNNING", s.try = 1,
           r.bot = rs[1].bot, r.state = "BOT_DIED"
    PROVE  Coherent(p, TRUE, ResetToPending(s), [rs EXCEPT ![1] = r])
<1> DEFINE f == ResetToPending(s)
           ns == [rs EXCEPT ![1] = r]
<1>1. /\ f \in ResultSummary /\ f.state = "PENDING" /\ f.try = s.try
      /\ f.bot = s.bot /\ f.dedupedFrom = s.dedupedFrom
  BY ResetKeepsBot
<1>2. p # NoProps /\ s.dedupedFrom = NoTask /\ rs[1].bot \in Bots
  BY GivenRunExists DEF Tries, MaxTry
<1>3. ns[1] = r /\ ns[2] = rs[2]
  BY DEF Tries, MaxTry
<1>4. QED
  BY <1>1, <1>2, <1>3 DEF Coherent, Tries, MaxTry

\* _expire_task() on a queued task.
LEMMA ExpireIsCoherent ==
    ASSUME NEW p, NEW s \in ResultSummary, NEW rs \in [Tries -> RunResult],
           NEW i, Coherent(p, TRUE, s, rs)
    PROVE  /\ ExpiredSummary(s, rs, i) \in ResultSummary
           /\ Coherent(p, FALSE, ExpiredSummary(s, rs, i), rs)
<1> DEFINE f == ExpiredSummary(s, rs, i)
<1>1. s.try \in {0, 1} /\ p # NoProps /\ s.dedupedFrom = NoTask
  BY DEF Coherent, ResultSummary, MaxTry
<1>2. CASE s.try = 0
  <2>1. /\ f \in ResultSummary /\ f.state = "EXPIRED" /\ f.try = 0
        /\ f.dedupedFrom = NoTask
    BY <1>1, <1>2, AbandonKeepsBot DEF ExpiredSummary, States, Finished
  <2>2. QED
    BY <1>1, <1>2, <2>1 DEF Coherent, Tries, MaxTry
<1>3. CASE s.try = 1
  <2>1. rs[1] \in RunResult /\ rs[1].state = "BOT_DIED" /\ 1 \in Tries
    BY <1>3 DEF Coherent, Tries, MaxTry
  <2>2. f = FromRunResult(s, rs[1], 1, i)
    BY <1>3 DEF ExpiredSummary
  <2>3. /\ f \in ResultSummary /\ f.state = "BOT_DIED" /\ f.try = 1
        /\ f.bot = rs[1].bot /\ f.dedupedFrom = NoTask
    BY <1>1, <2>1, <2>2, FromRunResultShows
  <2>4. QED
    BY <1>1, <1>3, <2>1, <2>3 DEF Coherent, Tries, MaxTry
<1>4. QED
  BY <1>1, <1>2, <1>3

\* cancel_task() on a pending task.
LEMMA CancelIsCoherent ==
    ASSUME NEW p, NEW q \in BOOLEAN, NEW s \in ResultSummary,
           NEW rs \in [Tries -> RunResult],
           Coherent(p, q, s, rs), p # NoProps, s.state = "PENDING"
    PROVE  LET f == [s EXCEPT !.state = "CANCELED"]
           IN  f \in ResultSummary /\ Coherent(p, FALSE, f, rs)
<1> DEFINE f == [s EXCEPT !.state = "CANCELED"]
<1>1. /\ f \in ResultSummary /\ f.state = "CANCELED" /\ f.try = s.try
      /\ f.bot = s.bot /\ f.dedupedFrom = s.dedupedFrom
  BY AbandonKeepsBot DEF States, Finished
<1>2. s.try \in {0, 1}
  BY DEF Coherent, ResultSummary, MaxTry
<1>3. QED
  BY <1>1, <1>2 DEF Coherent, Tries, MaxTry, RunResult

\* A run that only ages.
LEMMA AgeIsCoherent ==
    ASSUME NEW p, NEW q \in BOOLEAN, NEW s \in ResultSummary,
           NEW rs \in [Tries -> RunResult], NEW k \in Tries, NEW x \in BOOLEAN,
           Coherent(p, q, s, rs), rs[k].given \/ rs[k].state = "RUNNING"
    PROVE  Coherent(p, q, s, [rs EXCEPT ![k].silent = x])
<1> DEFINE ns == [rs EXCEPT ![k].silent = x]
<1>1. /\ \A n \in Tries : ns[n].state = rs[n].state /\ ns[n].bot = rs[n].bot
      /\ \A n \in Tries \ {k} : ns[n] = rs[n]
  BY AgeKeepsRun
<1>2. rs[k].state # "NONE"
  BY GivenRunExists
<1>3. QED
  BY <1>1, <1>2 DEF Coherent, Tries, MaxTry, ResultSummary

-----------------------------------------------------------------------------
(* The invariant holds *)

LEMMA InitInv == Init => Inv
<1> SUFFICES ASSUME Init
             PROVE  Inv
  OBVIOUS
<1>1. TypeOK
  BY NewEntities, ConstantsAssumption DEF Init, TypeOK, States, Running, Finished
<1>2. \A t \in Tasks : Coherent(request[t], queued[t], summary[t], run[t])
  BY NewEntities DEF Init, Coherent, Tries, MaxTry
<1>3. QED
  BY <1>1, <1>2 DEF Inv, Init, CancelingIsKnown

\* A task being canceled was requested, and requests are for ever.
LEMMA CancelingStaysKnown ==
    ASSUME Inv, [Next]_vars
    PROVE  CancelingIsKnown'
<1> USE DEF Inv, TypeOK, CancelingIsKnown, entities, handlers, pubsub
<1>1. CASE UNCHANGED vars
  BY <1>1 DEF vars
<1>2. CASE HandlerFails
  BY <1>2 DEF HandlerFails
<1>3. ASSUME NEW t \in Tasks, Client(t)
      PROVE  CancelingIsKnown'
  BY <1>3, ConstantsAssumption
  DEF Client, ScheduleRequest, ScheduleDeduped, AdoptChild, CancelStart, CancelTxn
<1>4. ASSUME NEW t \in Tasks, Bot(t)
      PROVE  CancelingIsKnown'
  <2>1. request' = request /\ canceling' = canceling
    <3>1. ASSUME NEW b \in Bots, NEW delivered, ReapTxn(b, t, delivered)
          PROVE  request' = request /\ canceling' = canceling
      BY <3>1 DEF ReapTxn
    <3>2. ASSUME NEW k, NEW exit, NEW timeout, NEW acked, BotUpdateTask(t, k, exit, timeout, acked)
          PROVE  request' = request /\ canceling' = canceling
      BY <3>2 DEF BotUpdateTask
    <3>3. QED
      BY <1>4, <3>1, <3>2 DEF Bot, ReapStart, ReapDenied, BotKillTask
  <2>2. QED
    BY <2>1
<1>5. ASSUME NEW t \in Tasks, Cron(t)
      PROVE  CancelingIsKnown'
  BY <1>5 DEF Cron, ExpireStart, ExpireTxn, DeadBotStart, DeadBotTxn, HandlePubsubTask
<1>6. ASSUME NEW t \in Tasks, Time(t)
      PROVE  CancelingIsKnown'
  BY <1>6 DEF Time, ExpirationPasses, ToleranceElapses, LookupCacheLapses
<1>7. QED
  BY <1>1, <1>2, <1>3, <1>4, <1>5, <1>6 DEF Next

\* A step that writes the entities of one task has only that task to show for.
LEMMA OneTaskWritten ==
    ASSUME Inv, TypeOK', CancelingIsKnown', NEW t \in Tasks,
           \A u \in Tasks \ {t} : /\ request'[u] = request[u]
                                  /\ queued'[u] = queued[u]
                                  /\ summary'[u] = summary[u]
                                  /\ run'[u] = run[u],
           Coherent(request'[t], queued'[t], summary'[t], run'[t])
    PROVE  Inv'
BY DEF Inv

\* A step that writes no entity keeps them as they were.
LEMMA NoTaskWritten ==
    ASSUME Inv, TypeOK', CancelingIsKnown', UNCHANGED entities
    PROVE  Inv'
BY DEF Inv, entities

\* Requests, cancelations and children.
LEMMA ClientInv ==
    ASSUME Inv, CancelingIsKnown', NEW t \in Tasks, Client(t)
    PROVE  Inv'
<1> USE DEF entities, handlers, pubsub
<1>0. TypeOK /\ Coherent(request[t], queued[t], summary[t], run[t])
  BY DEF Inv
<1>a. /\ queued[t] \in BOOLEAN /\ summary[t] \in ResultSummary
       /\ run[t] \in [Tries -> RunResult] /\ \A k \in Tries : run[t][k] \in RunResult
  BY <1>0 DEF TypeOK
<1>1. ASSUME NEW p \in Props, ScheduleRequest(t, p)
      PROVE  Inv'
  <2>1. TypeOK'
    BY <1>0, <1>1 DEF TypeOK, ScheduleRequest
  <2>2. Coherent(p, TRUE, summary[t], run[t])
    BY <1>0, <1>1, ConstantsAssumption
    DEF Coherent, ScheduleRequest, Tries, MaxTry, TypeOK
  <2>3. request'[t] = p /\ queued'[t] = TRUE /\ summary' = summary /\ run' = run
    BY <1>0, <1>1 DEF ScheduleRequest, TypeOK
  <2>4. \A u \in Tasks \ {t} : request'[u] = request[u] /\ queued'[u] = queued[u]
    BY <1>0, <1>1 DEF ScheduleRequest, TypeOK
  <2>5. QED
    BY <2>1, <2>2, <2>3, <2>4, OneTaskWritten
<1>2. ASSUME NEW p \in Props, NEW s \in Tasks, ScheduleDeduped(t, p, s)
      PROVE  Inv'
  <2>1. summary[s] \in ResultSummary
    BY <1>0 DEF TypeOK
  <2>2. /\ Reused(s) \in ResultSummary /\ Reused(s).state = "COMPLETED"
        /\ Reused(s).try = 0 /\ Reused(s).dedupedFrom = s
    BY <1>2, <2>1 DEF Reused, ResultSummary, MaxTry, ScheduleDeduped, IsDupe
  <2>3. TypeOK'
    BY <1>0, <1>2, <2>2 DEF TypeOK, ScheduleDeduped
  <2>4. Coherent(p, queued[t], Reused(s), run[t])
    BY <1>0, <1>2, <2>2, ConstantsAssumption
    DEF Coherent, ScheduleDeduped, Tries, MaxTry, TypeOK
  <2>5. /\ request'[t] = p /\ summary'[t] = Reused(s)
        /\ queued' = queued /\ run' = run
    BY <1>0, <1>2 DEF ScheduleDeduped, TypeOK
  <2>6. \A u \in Tasks \ {t} : request'[u] = request[u] /\ summary'[u] = summary[u]
    BY <1>0, <1>2 DEF ScheduleDeduped, TypeOK
  <2>7. QED
    BY <2>3, <2>4, <2>5, <2>6, OneTaskWritten
<1>3. ASSUME NEW k \in Tries, AdoptChild(t, k)
      PROVE  Inv'
  <2>1. /\ request' = request /\ queued' = queued /\ summary' = summary
        /\ run'[t] = [run[t] EXCEPT ![k].silent = FALSE]
        /\ \A u \in Tasks \ {t} : run'[u] = run[u]
    BY <1>0, <1>3 DEF AdoptChild, TypeOK
  <2>2. [run[t][k] EXCEPT !.silent = FALSE] \in RunResult
    BY <1>a, AgeKeepsRun
  <2>3. TypeOK'
    BY <1>0, <1>3, <2>2 DEF TypeOK, AdoptChild
  <2>4. Coherent(request[t], queued[t], summary[t], run'[t])
    <3>1. run[t][k].given
      BY <1>3 DEF AdoptChild
    <3>2. Coherent(request[t], queued[t], summary[t], [run[t] EXCEPT ![k].silent = FALSE])
      BY <1>0, <1>a, <3>1, AgeIsCoherent
    <3>3. QED
      BY <2>1, <3>2
  <2>5. QED
    BY <2>1, <2>3, <2>4, OneTaskWritten
<1>4. CASE CancelStart(t)
  <2>1. TypeOK'
    BY <1>0, <1>4 DEF TypeOK, CancelStart
  <2>2. QED
    BY <1>4, <2>1, NoTaskWritten DEF CancelStart
<1>5. CASE CancelTxn(t)
  <2>1. CASE summary[t].state = "PENDING" /\ request[t] # NoProps
    <3> DEFINE f == [summary[t] EXCEPT !.state = "CANCELED"]
    <3>1. f \in ResultSummary /\ Coherent(request[t], FALSE, f, run[t])
      BY <1>0, <2>1, CancelIsCoherent DEF TypeOK
    <3>2. TypeOK'
      BY <1>0, <1>5, <2>1, <3>1 DEF TypeOK, CancelTxn, WithNotification
    <3>3. /\ request' = request /\ run' = run
          /\ queued'[t] = FALSE /\ summary'[t] = f
          /\ \A u \in Tasks \ {t} : queued'[u] = queued[u] /\ summary'[u] = summary[u]
      BY <1>0, <1>5, <2>1 DEF TypeOK, CancelTxn
    <3>4. QED
      BY <3>1, <3>2, <3>3, OneTaskWritten
  <2>2. CASE summary[t].state # "PENDING"
    <3>1. TypeOK' /\ UNCHANGED entities
      BY <1>0, <1>5, <2>2 DEF TypeOK, CancelTxn
    <3>2. QED
      BY <3>1, NoTaskWritten
  <2>3. request[t] # NoProps
    BY <1>5 DEF Inv, CancelingIsKnown, CancelTxn
  <2>4. QED
    BY <2>1, <2>2, <2>3
<1>6. QED
  BY <1>1, <1>2, <1>3, <1>4, <1>5 DEF Client

\* Polls, updates and kills.
LEMMA BotInv ==
    ASSUME Inv, CancelingIsKnown', NEW t \in Tasks, Bot(t)
    PROVE  Inv'
<1> USE DEF entities, handlers, pubsub
<1>0. TypeOK /\ Coherent(request[t], queued[t], summary[t], run[t])
  BY DEF Inv
<1>a. /\ queued[t] \in BOOLEAN /\ summary[t] \in ResultSummary
      /\ run[t] \in [Tries -> RunResult] /\ \A k \in Tries : run[t][k] \in RunResult
  BY <1>0 DEF TypeOK
<1>1. ASSUME NEW b \in Bots, ReapStart(b, t)
      PROVE  Inv'
  <2>1. TypeOK'
    BY <1>0, <1>1 DEF TypeOK, ReapStart
  <2>2. QED
    BY <1>1, <2>1, NoTaskWritten DEF ReapStart
<1>2. ASSUME NEW b \in Bots, ReapDenied(b, t)
      PROVE  Inv'
  <2>1. TypeOK'
    BY <1>0, <1>2 DEF TypeOK, ReapDenied
  <2>2. QED
    BY <1>2, <2>1, NoTaskWritten DEF ReapDenied
<1>3. ASSUME NEW b \in Bots, NEW g \in BOOLEAN, ReapTxn(b, t, g)
      PROVE  Inv'
  <2> DEFINE k == summary[t].try + 1
             r == [NoRun EXCEPT !.state = "RUNNING", !.bot = b, !.given = g]
             f == FromRunResult(summary[t], r, k, Idempotent(t))
  <2>1. k \in Tries /\ queued[t] /\ summary[t].bot # b
    BY <1>3 DEF ReapTxn, MayReap
  <2>2. r \in RunResult /\ r.state = "RUNNING" /\ r.bot = b
    BY FreshRun
  <2>3. f \in ResultSummary
    BY <1>a, <2>1, <2>2, FromRunResultShows
  <2>4. Coherent(request[t], FALSE, f, [run[t] EXCEPT ![k] = r])
    <3>1. queued[t] = TRUE
      BY <1>a, <2>1
    <3>2. Coherent(request[t], TRUE, summary[t], run[t])
      BY <1>0, <3>1
    <3> HIDE DEF r
    <3>3. QED
      BY <1>a, <2>1, <2>2, <3>2, ReapIsCoherent
  <2>5. /\ request' = request
        /\ queued' = [queued EXCEPT ![t] = FALSE]
        /\ run' = [run EXCEPT ![t][k] = r]
        /\ summary' = [summary EXCEPT ![t] = f]
    BY <1>3 DEF ReapTxn
  <2>6. TypeOK'
    BY <1>0, <1>3, <2>1, <2>2, <2>3, <2>5 DEF TypeOK, ReapTxn, WithNotification
  <2>7. /\ queued'[t] = FALSE /\ summary'[t] = f
        /\ run'[t] = [run[t] EXCEPT ![k] = r]
        /\ \A u \in Tasks \ {t} : /\ queued'[u] = queued[u]
                               /\ summary'[u] = summary[u] /\ run'[u] = run[u]
    BY <1>0, <2>5 DEF TypeOK
  <2>8. QED
    BY <2>4, <2>5, <2>6, <2>7, OneTaskWritten
<1>4. ASSUME NEW k \in Tries, NEW e \in ExitCodes \cup {NoExit},
             NEW timeout \in BOOLEAN, NEW acked \in BOOLEAN,
             BotUpdateTask(t, k, e, timeout, acked)
      PROVE  Inv'
  <2> DEFINE r == Updated(run[t][k], e, timeout)
             f == SummaryAfterUpdate(summary[t], r, k, Idempotent(t))
             over == f.state \in Finished
             o == over /\ ~acked
             g == [r EXCEPT !.owed = o]
  <2>1. /\ run[t][k].given
        /\ request' = request /\ queued' = queued
        /\ run' = [run EXCEPT ![t][k] = g]
        /\ summary' = [summary EXCEPT ![t] = f]
    BY <1>4 DEF BotUpdateTask
  <2>0. \/ heard' = heard
        \/ over /\ heard' = [heard EXCEPT ![t] = f.state]
    BY <1>4 DEF BotUpdateTask
  <2>2. /\ r \in RunResult /\ r.bot = run[t][k].bot
        /\ run[t][k].state # "RUNNING" => r.state = run[t][k].state
        /\ run[t][k].state = "RUNNING" => r.state \in {"RUNNING", "TIMED_OUT", "COMPLETED"}
        /\ g \in RunResult /\ g.bot = r.bot /\ g.state = r.state
    <3>1. o \in BOOLEAN
      OBVIOUS
    <3> HIDE DEF o
    <3>2. QED
      BY <1>a, <3>1, UpdatedKeepsDead
  <2>3. /\ run[t][k].state # "NONE" /\ k <= summary[t].try
        /\ k # summary[t].try => k = 1 /\ summary[t].try = 2
    BY <1>0, <1>a, <2>1, GivenRunExists
  <2>4. r.state # "NONE"
    BY <2>2, <2>3
  <2>5. f \in ResultSummary
    BY <1>a, <2>2, <2>4, FromRunResultShows DEF SummaryAfterUpdate
  <2>6. Coherent(request[t], queued[t], f, [run[t] EXCEPT ![k] = g])
    <3>1. /\ summary[t].try = k => f = FromRunResult(summary[t], r, k, Idempotent(t))
          /\ summary[t].try # k => f = summary[t]
      BY <2>3, <1>a DEF SummaryAfterUpdate, ResultSummary, Tries, MaxTry
    <3>2. FromRunResult(summary[t], r, k, Idempotent(t))
             = FromRunResult(summary[t], g, k, Idempotent(t))
      BY <1>a, <2>2 DEF FromRunResult, Failure, RunResult
    <3>3. /\ summary[t].try = k
                => Coherent(request[t], queued[t],
                            FromRunResult(summary[t], g, k, Idempotent(t)),
                            [run[t] EXCEPT ![k] = g])
          /\ summary[t].try # k
                => Coherent(request[t], queued[t], summary[t],
                            [run[t] EXCEPT ![k] = g])
      <4> HIDE DEF g, r, f
      <4>1. g.bot = run[t][k].bot /\ g.state # "NONE" /\ g \in RunResult
        BY <2>2, <2>4
      <4>2. run[t][k].state = "BOT_DIED" => g.state = "BOT_DIED"
        BY <2>2
      <4>3. QED
        BY <1>0, <1>a, <2>1, <4>1, <4>2, RunWriteIsCoherent
    <3>4. QED
      BY <3>1, <3>2, <3>3
  <2>7. TypeOK'
    <3>1. over => f.state \in States
      BY DEF States
    <3>2. QED
      BY <1>0, <1>4, <2>0, <2>1, <2>2, <2>5, <3>1 DEF TypeOK, BotUpdateTask
  <2>8. /\ summary'[t] = f /\ run'[t] = [run[t] EXCEPT ![k] = g]
        /\ \A u \in Tasks \ {t} : summary'[u] = summary[u] /\ run'[u] = run[u]
    BY <1>0, <2>1 DEF TypeOK
  <2>9. QED
    BY <2>1, <2>6, <2>7, <2>8, OneTaskWritten
<1>5. ASSUME NEW k \in Tries, BotKillTask(t, k)
      PROVE  Inv'
  <2> DEFINE r == Died(run[t][k])
             f == FromRunResult(summary[t], r, k, FALSE)
  <2>1. /\ run[t][k].given /\ run[t][k].state # "BOT_DIED"
        /\ request' = request /\ queued' = queued
        /\ run' = [run EXCEPT ![t][k] = r]
        /\ summary' = [summary EXCEPT ![t] = f]
        /\ pubsubTq' = pubsubTq \cup {t}
        /\ UNCHANGED <<expired, negCache, handlers, heard>>
    BY <1>0, <1>5 DEF BotKillTask, TypeOK, WithNotification
  <2>2. r \in RunResult /\ r.state = "BOT_DIED" /\ r.bot = run[t][k].bot
    BY <1>a, DiedIsDead
  <2>3. k = summary[t].try
    BY <1>0, <1>a, <2>1, GivenRunExists
  <2>4. f \in ResultSummary
    BY <1>a, <2>2, FromRunResultShows
  <2>5. Coherent(request[t], queued[t], f, [run[t] EXCEPT ![k] = r])
    BY <1>0, <1>a, <2>1, <2>2, <2>3, RunWriteIsCoherent
  <2>6. TypeOK'
    <3> HIDE DEF r, f
    <3>1. QED
      BY <1>0, <2>1, <2>2, <2>4 DEF TypeOK
  <2>7. /\ summary'[t] = f /\ run'[t] = [run[t] EXCEPT ![k] = r]
        /\ \A u \in Tasks \ {t} : summary'[u] = summary[u] /\ run'[u] = run[u]
    BY <1>0, <2>1 DEF TypeOK
  <2>8. QED
    BY <2>1, <2>5, <2>6, <2>7, OneTaskWritten
<1>6. QED
  BY <1>1, <1>2, <1>3, <1>4, <1>5 DEF Bot

\* The cron jobs and the task queue.
LEMMA CronInv ==
    ASSUME Inv, CancelingIsKnown', NEW t \in Tasks, Cron(t)
    PROVE  Inv'
<1> USE DEF entities, handlers, pubsub
<1>0. TypeOK /\ Coherent(request[t], queued[t], summary[t], run[t])
  BY DEF Inv
<1>a. /\ queued[t] \in BOOLEAN /\ summary[t] \in ResultSummary
      /\ run[t] \in [Tries -> RunResult] /\ \A k \in Tries : run[t][k] \in RunResult
  BY <1>0 DEF TypeOK
<1>1. CASE ExpireStart(t)
  <2>1. TypeOK'
    BY <1>0, <1>1 DEF TypeOK, ExpireStart
  <2>2. QED
    BY <1>1, <2>1, NoTaskWritten DEF ExpireStart
<1>2. CASE ExpireTxn(t)
  <2>1. CASE queued[t]
    <3> DEFINE f == ExpiredSummary(summary[t], run[t], Idempotent(t))
    <3>1. f \in ResultSummary /\ Coherent(request[t], FALSE, f, run[t])
      BY <1>0, <1>a, <2>1, ExpireIsCoherent
    <3>2. /\ request' = request /\ run' = run
          /\ queued' = [queued EXCEPT ![t] = FALSE]
          /\ summary' = [summary EXCEPT ![t] = f]
          /\ expiring' = expiring \ {t} /\ pubsubTq' = pubsubTq \cup {t}
          /\ UNCHANGED <<expired, negCache, reaping, burying, canceling, heard>>
      BY <1>0, <1>2, <2>1 DEF ExpireTxn, TypeOK, WithNotification
    <3> HIDE DEF f
    <3>3. TypeOK'
      BY <1>0, <3>1, <3>2 DEF TypeOK
    <3>4. /\ queued'[t] = FALSE /\ summary'[t] = f
          /\ \A u \in Tasks \ {t} : queued'[u] = queued[u] /\ summary'[u] = summary[u]
      BY <1>0, <3>2 DEF TypeOK
    <3>5. QED
      BY <3>1, <3>2, <3>3, <3>4, OneTaskWritten
  <2>2. CASE ~queued[t]
    <3>1. TypeOK' /\ UNCHANGED entities
      BY <1>0, <1>2, <2>2 DEF ExpireTxn, TypeOK
    <3>2. QED
      BY <3>1, NoTaskWritten
  <2>3. QED
    BY <2>1, <2>2
<1>3. ASSUME NEW k \in Tries, DeadBotStart(t, k)
      PROVE  Inv'
  <2>1. TypeOK'
    BY <1>0, <1>3 DEF TypeOK, DeadBotStart
  <2>2. QED
    BY <1>3, <2>1, NoTaskWritten DEF DeadBotStart
<1>4. ASSUME NEW k \in Tries, NEW late \in BOOLEAN, DeadBotTxn(t, k, late)
      PROVE  Inv'
  <2>1. CASE IsDead(run[t][k])
    <3> DEFINE r == Died(run[t][k])
               retried == /\ summary[t].try = k
                          /\ RetryAllowed(k, run[t][k], late, Idempotent(t))
               f == FromRunResult(summary[t], r, k, Idempotent(t))
               s2 == IF summary[t].try # k THEN summary[t]
                     ELSE IF retried THEN ResetToPending(summary[t]) ELSE f
               q == retried \/ queued[t]
    <3>1. /\ run[t][k].state = "RUNNING"
          /\ r \in RunResult /\ r.state = "BOT_DIED" /\ r.bot = run[t][k].bot
      BY <1>a, <2>1, DiedIsDead DEF IsDead
    <3>2. summary[t].try = k
      BY <1>0, <1>a, <3>1, GivenRunExists
    <3>3. f \in ResultSummary /\ ResetToPending(summary[t]) \in ResultSummary
      BY <1>a, <3>1, FromRunResultShows, ResetKeepsBot
    <3>4. s2 \in ResultSummary /\ q \in BOOLEAN
      BY <1>a, <3>3
    <3>5. Coherent(request[t], q, s2, [run[t] EXCEPT ![k] = r])
      <4>1. CASE retried
        <5>1. k = 1
          BY <4>1 DEF RetryAllowed
        <5>2. Coherent(request[t], TRUE, ResetToPending(summary[t]),
                       [run[t] EXCEPT ![1] = r])
          BY <1>0, <1>a, <3>1, <3>2, <5>1, RetryIsCoherent
        <5>3. q = TRUE /\ s2 = ResetToPending(summary[t])
          BY <1>a, <3>2, <4>1
        <5>4. QED
          BY <5>1, <5>2, <5>3
      <4>2. CASE ~retried
        <5>1. Coherent(request[t], queued[t], f, [run[t] EXCEPT ![k] = r])
          BY <1>0, <1>a, <3>1, <3>2, RunWriteIsCoherent
        <5>2. q = queued[t] /\ s2 = f
          BY <1>a, <3>2, <4>2
        <5>3. QED
          BY <5>1, <5>2
      <4>3. QED
        BY <4>1, <4>2
    <3>6. /\ request' = request
          /\ queued' = [queued EXCEPT ![t] = q]
          /\ run' = [run EXCEPT ![t][k] = r]
          /\ summary' = [summary EXCEPT ![t] = s2]
          /\ burying' = burying \ {<<t, k, late>>}
          /\ pubsubTq' \in {pubsubTq, pubsubTq \cup {t}}
          /\ UNCHANGED <<expired, negCache, reaping, expiring, canceling, heard>>
      BY <1>0, <1>4, <2>1 DEF DeadBotTxn, WithNotification, TypeOK
    <3> HIDE DEF q, r, s2, retried, f
    <3>7. TypeOK'
      BY <1>0, <3>1, <3>4, <3>6 DEF TypeOK
    <3>8. /\ queued'[t] = q /\ summary'[t] = s2
          /\ run'[t] = [run[t] EXCEPT ![k] = r]
          /\ \A u \in Tasks \ {t} : /\ queued'[u] = queued[u]
                                 /\ summary'[u] = summary[u] /\ run'[u] = run[u]
      BY <1>0, <3>6 DEF TypeOK
    <3>9. QED
      BY <3>5, <3>6, <3>7, <3>8, OneTaskWritten
  <2>2. CASE ~IsDead(run[t][k])
    <3>1. TypeOK' /\ UNCHANGED entities
      BY <1>0, <1>4, <2>2 DEF DeadBotTxn, TypeOK
    <3>2. QED
      BY <3>1, NoTaskWritten
  <2>3. QED
    BY <2>1, <2>2
<1>5. CASE HandlePubsubTask(t)
  <2>1. summary[t].state \in States
    BY <1>a DEF ResultSummary
  <2>2. TypeOK'
    BY <1>0, <1>5, <2>1 DEF TypeOK, HandlePubsubTask
  <2>3. QED
    BY <1>5, <2>2, NoTaskWritten DEF HandlePubsubTask
<1>6. QED
  BY <1>1, <1>2, <1>3, <1>4, <1>5 DEF Cron

\* The clock and the lapse of blacklist entries.
LEMMA TimeInv ==
    ASSUME Inv, CancelingIsKnown', NEW t \in Tasks, Time(t)
    PROVE  Inv'
<1> USE DEF entities, handlers, pubsub
<1>0. TypeOK /\ Coherent(request[t], queued[t], summary[t], run[t])
  BY DEF Inv
<1>a. /\ queued[t] \in BOOLEAN /\ summary[t] \in ResultSummary
      /\ run[t] \in [Tries -> RunResult] /\ \A k \in Tries : run[t][k] \in RunResult
  BY <1>0 DEF TypeOK
<1>1. CASE ExpirationPasses(t)
  <2>1. TypeOK'
    BY <1>0, <1>1 DEF TypeOK, ExpirationPasses
  <2>2. QED
    BY <1>1, <2>1, NoTaskWritten DEF ExpirationPasses
<1>2. ASSUME NEW k \in Tries, ToleranceElapses(t, k)
      PROVE  Inv'
  <2>1. /\ request' = request /\ queued' = queued /\ summary' = summary
        /\ run'[t] = [run[t] EXCEPT ![k].silent = TRUE]
        /\ \A u \in Tasks \ {t} : run'[u] = run[u]
        /\ run[t][k].state = "RUNNING"
    BY <1>0, <1>2 DEF ToleranceElapses, TypeOK
  <2>2. [run[t][k] EXCEPT !.silent = TRUE] \in RunResult
    BY <1>a, AgeKeepsRun
  <2>3. TypeOK'
    BY <1>0, <1>2, <2>2 DEF TypeOK, ToleranceElapses
  <2>4. Coherent(request[t], queued[t], summary[t], [run[t] EXCEPT ![k].silent = TRUE])
    BY <1>0, <1>a, <2>1, AgeIsCoherent
  <2>5. QED
    BY <2>1, <2>3, <2>4, OneTaskWritten
<1>3. CASE LookupCacheLapses(t)
  <2>1. TypeOK'
    BY <1>0, <1>3 DEF TypeOK, LookupCacheLapses
  <2>2. QED
    BY <1>3, <2>1, NoTaskWritten DEF LookupCacheLapses
<1>4. QED
  BY <1>1, <1>2, <1>3 DEF Time

\* Every step keeps the entities of every task coherent.
LEMMA StepInv == Inv /\ [Next]_vars => Inv'
<1> SUFFICES ASSUME Inv, [Next]_vars
             PROVE  Inv'
  OBVIOUS
<1>1. CancelingIsKnown'
  BY CancelingStaysKnown
<1>2. CASE UNCHANGED vars
  BY <1>2 DEF vars, entities, handlers, pubsub, Inv, TypeOK, CancelingIsKnown
<1>3. CASE HandlerFails
  <2>1. TypeOK' /\ UNCHANGED entities
    BY <1>3 DEF HandlerFails, Inv, TypeOK, entities, pubsub
  <2>2. QED
    BY <1>1, <2>1, NoTaskWritten
<1>4. ASSUME NEW t \in Tasks, Client(t) \/ Bot(t) \/ Cron(t) \/ Time(t)
      PROVE  Inv'
  BY <1>1, <1>4, ClientInv, BotInv, CronInv, TimeInv
<1>5. QED
  BY <1>2, <1>3, <1>4 DEF Next

\* The entities of every task are coherent at all times.
THEOREM InvHolds == Spec => []Inv
<1>1. Init => Inv
  BY InitInv
<1>2. Inv /\ [Next]_vars => Inv'
  BY StepInv
<1>3. QED
  BY <1>1, <1>2, PTL DEF Spec

-----------------------------------------------------------------------------
(* What follows from the invariant *)

\* Every entity keeps the fields its model gives it.  TypeOK is not inductive by
\* itself: the number of a try stays within its type because a queued task has
\* a try left.
THEOREM TypeCorrect == Spec => []TypeOK
<1>1. Inv => TypeOK
  BY DEF Inv
<1>2. QED
  BY <1>1, InvHolds, PTL

\* A queued task has no live run and a try left.
THEOREM QueuedIsFreeHolds == Spec => []QueuedIsFree
<1>1. Inv => QueuedIsFree
  <2> SUFFICES ASSUME Inv, NEW t \in Tasks, queued[t]
               PROVE  run[t][2] = NoRun /\ run[t][1].state \in {"NONE", "BOT_DIED"}
    BY DEF QueuedIsFree
  <2>1. Coherent(request[t], queued[t], summary[t], run[t]) /\ summary[t].try \in 0 .. 2
    BY DEF Inv, TypeOK, ResultSummary, MaxTry
  <2>2. summary[t].try # 2 /\ run[t][1].state \in {"NONE", "BOT_DIED"}
    BY <2>1 DEF Coherent
  <2>3. run[t][2].state = "NONE"
    BY <2>1, <2>2 DEF Coherent, Tries, MaxTry
  <2>4. QED
    BY <2>1, <2>2, <2>3 DEF Coherent, Tries, MaxTry
<1>2. QED
  BY <1>1, InvHolds, PTL

\* A second try follows the death of the first and runs on another bot.
THEOREM RetryIsElsewhereHolds == Spec => []RetryIsElsewhere
<1>1. Inv => RetryIsElsewhere
  <2> SUFFICES ASSUME Inv, NEW t \in Tasks, run[t][2] # NoRun
               PROVE  run[t][1].state = "BOT_DIED" /\ run[t][2].bot # run[t][1].bot
    BY DEF RetryIsElsewhere
  <2>1. Coherent(request[t], queued[t], summary[t], run[t]) /\ summary[t].try \in 0 .. 2
    BY DEF Inv, TypeOK, ResultSummary, MaxTry
  <2>2. run[t][2].state # "NONE"
    BY <2>1 DEF Coherent, Tries, MaxTry
  <2>3. summary[t].try = 2
    BY <2>1, <2>2 DEF Coherent, Tries, MaxTry
  <2>4. QED
    BY <2>1, <2>3 DEF Coherent
<1>2. QED
  BY <1>1, InvHolds, PTL

\* A pending task is in the queue.
THEOREM PendingIsQueuedHolds == Spec => []PendingIsQueued
<1>1. Inv => PendingIsQueued
  BY DEF Inv, Coherent, PendingIsQueued
<1>2. QED
  BY <1>1, InvHolds, PTL

\* The summary shows the last try.
THEOREM SummaryShowsLastTryHolds == Spec => []SummaryShowsLastTry
<1>1. Inv => SummaryShowsLastTry
  <2> SUFFICES ASSUME Inv, NEW t \in Tasks
               PROVE  LET s == summary[t]
                      IN  /\ \A k \in Tries : run[t][k] # NoRun <=> k <= s.try
                          /\ IF s.try = 0
                             THEN s.state \in {"PENDING", "EXPIRED", "CANCELED", "COMPLETED"}
                             ELSE \/ s.state = run[t][s.try].state
                                  \/ /\ s.try = 1 /\ run[t][1].state = "BOT_DIED"
                                     /\ s.state \in {"PENDING", "CANCELED"}
    BY DEF SummaryShowsLastTry
  <2>1. Coherent(request[t], queued[t], summary[t], run[t])
    BY DEF Inv
  <2>2. \A k \in Tries : run[t][k] # NoRun <=> run[t][k].state # "NONE"
    <3>1. NoRun.state = "NONE"
      BY DEF NoRun
    <3>2. \A k \in Tries : run[t][k].state = "NONE" => run[t][k] = NoRun
      BY <2>1 DEF Coherent
    <3>3. QED
      BY <3>1, <3>2
  <2>3. \A k \in Tries : run[t][k] # NoRun <=> k <= summary[t].try
    BY <2>1, <2>2 DEF Coherent
  <2>4. QED
    BY <2>1, <2>3 DEF Coherent
<1>2. QED
  BY <1>1, InvHolds, PTL

-----------------------------------------------------------------------------
(* 2. What clients are told *)

-----------------------------------------------------------------------------
(* The end of a task is announced                                          *)

\* NoSilentEnd for one task: s is its summary, rs its runs, n says whether the task
\* queue holds its notification, and h is what its topic was told.
Announced(s, rs, n, h) ==
    s.state \in Finished /\ s.dedupedFrom = NoTask
        => h = s.state \/ n \/ \E k \in Tries : rs[k].owed

Silent(t) == Announced(summary[t], run[t], t \in pubsubTq, heard[t])

\* A step that writes one task has only that task to show for.
LEMMA OneTaskAnnounced ==
    ASSUME \A u \in Tasks : Silent(u), NEW t \in Tasks,
           \A u \in Tasks \ {t} : /\ summary'[u] = summary[u] /\ run'[u] = run[u]
                                  /\ heard'[u] = heard[u]
                                  /\ u \in pubsubTq <=> u \in pubsubTq',
           Silent(t)'
    PROVE  \A u \in Tasks : Silent(u)'
  BY DEF Silent, Announced

\* A step after which the task queue holds the notification of the task it wrote.
LEMMA Notified ==
    ASSUME Inv, \A u \in Tasks : Silent(u), NEW t \in Tasks, NEW s, NEW rs,
           summary' = [summary EXCEPT ![t] = s], run' = [run EXCEPT ![t] = rs],
           pubsubTq' = WithNotification(t), heard' = heard
    PROVE  \A u \in Tasks : Silent(u)'
<1>1. \A u \in Tasks \ {t} : /\ summary'[u] = summary[u] /\ run'[u] = run[u]
                             /\ heard'[u] = heard[u]
                             /\ u \in pubsubTq <=> u \in pubsubTq'
  BY DEF Inv, TypeOK, WithNotification
<1>2. Silent(t)'
  BY DEF Silent, Announced, WithNotification
<1> QED
  BY <1>1, <1>2, OneTaskAnnounced

\* A step that changes nothing of what was or is to be announced.
LEMMA NothingToAnnounce ==
    ASSUME \A u \in Tasks : Silent(u), UNCHANGED <<summary, pubsub>>,
           \A u \in Tasks, k \in Tries : run'[u][k].owed = run[u][k].owed
    PROVE  \A u \in Tasks : Silent(u)'
  BY DEF Silent, Announced, pubsub

LEMMA ClientAnnounces ==
    ASSUME Inv, \A u \in Tasks : Silent(u), NEW t \in Tasks, Client(t)
    PROVE  \A u \in Tasks : Silent(u)'
<1>1. ASSUME NEW p \in Props, ScheduleRequest(t, p)
      PROVE  \A u \in Tasks : Silent(u)'
  BY <1>1, NothingToAnnounce DEF ScheduleRequest, pubsub
<1>2. ASSUME NEW p \in Props, NEW s \in Tasks, ScheduleDeduped(t, p, s)
      PROVE  \A u \in Tasks : Silent(u)'
  <2>1. /\ summary' = [summary EXCEPT ![t] = Reused(s)]
        /\ UNCHANGED <<run, pubsubTq, heard>>
    BY <1>2 DEF ScheduleDeduped, pubsub
  <2>2. Reused(s).dedupedFrom # NoTask
    BY ConstantsAssumption DEF Reused
  <2>3. Silent(t)' /\ \A u \in Tasks \ {t} : summary'[u] = summary[u]
    BY <2>1, <2>2 DEF Silent, Announced, Inv, TypeOK
  <2> QED
    BY <2>1, <2>3, OneTaskAnnounced
<1>3. ASSUME NEW k \in Tries, AdoptChild(t, k)
      PROVE  \A u \in Tasks : Silent(u)'
  <2>1. \A u \in Tasks, n \in Tries : run'[u][n].owed = run[u][n].owed
    BY <1>3 DEF AdoptChild, Inv, TypeOK, RunResult
  <2> QED
    BY <1>3, <2>1, NothingToAnnounce DEF AdoptChild
<1>4. CASE CancelStart(t)
  BY <1>4, NothingToAnnounce DEF CancelStart, entities
<1>5. CASE CancelTxn(t)
  <2>1. CASE summary[t].state = "PENDING"
    <3>1. /\ summary' = [summary EXCEPT ![t] = [summary[t] EXCEPT !.state = "CANCELED"]]
          /\ run' = [run EXCEPT ![t] = run[t]]
          /\ pubsubTq' = WithNotification(t) /\ heard' = heard
      BY <1>5, <2>1 DEF CancelTxn, Inv, TypeOK
    <3> QED
      BY <3>1, Notified
  <2>2. CASE summary[t].state # "PENDING"
    BY <1>5, <2>2, NothingToAnnounce DEF CancelTxn, pubsub
  <2> QED
    BY <2>1, <2>2
<1> QED
  BY <1>1, <1>2, <1>3, <1>4, <1>5 DEF Client

\* An update is the one write that enqueues nothing: the bot owes it until its
\* notification went out.
LEMMA UpdateAnnounces ==
    ASSUME Inv, \A u \in Tasks : Silent(u), NEW t \in Tasks, NEW k \in Tries,
           NEW e \in ExitCodes \cup {NoExit}, NEW timeout \in BOOLEAN, NEW acked \in BOOLEAN,
           BotUpdateTask(t, k, e, timeout, acked)
    PROVE  \A u \in Tasks : Silent(u)'
<1> DEFINE r == Updated(run[t][k], e, timeout)
           f == SummaryAfterUpdate(summary[t], r, k, Idempotent(t))
           over == f.state \in Finished
           o == over /\ ~acked
           g == [r EXCEPT !.owed = o]
<1>1. /\ run' = [run EXCEPT ![t][k] = g] /\ summary' = [summary EXCEPT ![t] = f]
      /\ pubsubTq' = pubsubTq
      /\ \/ over /\ heard' = [heard EXCEPT ![t] = f.state]
         \/ ~(over /\ acked) /\ heard' = heard
  BY DEF BotUpdateTask
<1>0. run[t][k] \in RunResult
  BY DEF Inv, TypeOK
<1>2. r \in RunResult
  BY <1>0, UpdatedKeepsDead
<1> HIDE DEF r, f
<1>3. g.owed = o
  <2> HIDE DEF o
  <2> QED
    BY <1>2 DEF RunResult
<1> HIDE DEF g
<1>4. summary'[t] = f /\ run'[t][k] = g
  BY <1>1 DEF Inv, TypeOK
<1>5. \A u \in Tasks \ {t} : /\ summary'[u] = summary[u] /\ run'[u] = run[u]
                             /\ heard'[u] = heard[u]
  BY <1>1 DEF Inv, TypeOK
<1>6. Silent(t)'
  <2>1. CASE heard' = [heard EXCEPT ![t] = f.state]
    BY <1>4, <2>1 DEF Silent, Announced, Inv, TypeOK
  <2>2. CASE over /\ ~acked
    BY <1>3, <1>4, <2>2 DEF Silent, Announced
  <2>3. CASE ~over
    BY <1>4, <2>3 DEF Silent, Announced
  <2> QED
    BY <1>1, <2>1, <2>2, <2>3
<1> QED
  BY <1>1, <1>5, <1>6, OneTaskAnnounced

LEMMA BotAnnounces ==
    ASSUME Inv, \A u \in Tasks : Silent(u), NEW t \in Tasks, Bot(t)
    PROVE  \A u \in Tasks : Silent(u)'
<1>1. ASSUME NEW b \in Bots, ReapStart(b, t) \/ ReapDenied(b, t)
      PROVE  \A u \in Tasks : Silent(u)'
  BY <1>1, NothingToAnnounce DEF ReapStart, ReapDenied, entities
<1>2. ASSUME NEW b \in Bots, NEW delivered \in BOOLEAN, ReapTxn(b, t, delivered)
      PROVE  \A u \in Tasks : Silent(u)'
  <2> DEFINE k == summary[t].try + 1
             r == [NoRun EXCEPT !.state = "RUNNING", !.bot = b, !.given = delivered]
             f == FromRunResult(summary[t], r, k, Idempotent(t))
  <2>1. /\ summary' = [summary EXCEPT ![t] = f]
        /\ run' = [run EXCEPT ![t] = [run[t] EXCEPT ![k] = r]]
        /\ pubsubTq' = WithNotification(t) /\ heard' = heard
    BY <1>2 DEF ReapTxn
  <2> HIDE DEF f, r, k
  <2> QED
    BY <2>1, Notified
<1>3. ASSUME NEW k \in Tries, BotKillTask(t, k)
      PROVE  \A u \in Tasks : Silent(u)'
  <2> DEFINE r == Died(run[t][k])
             f == FromRunResult(summary[t], r, k, FALSE)
  <2>1. /\ summary' = [summary EXCEPT ![t] = f]
        /\ run' = [run EXCEPT ![t] = [run[t] EXCEPT ![k] = r]]
        /\ pubsubTq' = WithNotification(t) /\ heard' = heard
    BY <1>3 DEF BotKillTask, Inv, TypeOK
  <2> HIDE DEF f, r
  <2> QED
    BY <2>1, Notified
<1> QED
  BY <1>1, <1>2, <1>3, UpdateAnnounces DEF Bot

LEMMA CronAnnounces ==
    ASSUME Inv, \A u \in Tasks : Silent(u), NEW t \in Tasks, Cron(t)
    PROVE  \A u \in Tasks : Silent(u)'
<1>1. CASE ExpireStart(t)
  BY <1>1, NothingToAnnounce DEF ExpireStart, entities
<1>2. CASE ExpireTxn(t)
  <2>1. CASE queued[t]
    <3> DEFINE f == ExpiredSummary(summary[t], run[t], Idempotent(t))
    <3>1. /\ summary' = [summary EXCEPT ![t] = f] /\ run' = [run EXCEPT ![t] = run[t]]
          /\ pubsubTq' = WithNotification(t) /\ heard' = heard
      BY <1>2, <2>1 DEF ExpireTxn, Inv, TypeOK
    <3> HIDE DEF f
    <3> QED
      BY <3>1, Notified
  <2>2. CASE ~queued[t]
    BY <1>2, <2>2, NothingToAnnounce DEF ExpireTxn, pubsub
  <2> QED
    BY <2>1, <2>2
<1>3. ASSUME NEW k \in Tries, DeadBotStart(t, k)
      PROVE  \A u \in Tasks : Silent(u)'
  BY <1>3, NothingToAnnounce DEF DeadBotStart, entities
<1>4. ASSUME NEW k \in Tries, NEW late \in BOOLEAN, DeadBotTxn(t, k, late)
      PROVE  \A u \in Tasks : Silent(u)'
  <2>1. CASE ~IsDead(run[t][k])
    BY <1>4, <2>1, NothingToAnnounce DEF DeadBotTxn, pubsub
  <2>2. CASE IsDead(run[t][k])
    <3> DEFINE r == Died(run[t][k])
    <3>1. PICK s2 : /\ summary' = [summary EXCEPT ![t] = s2]
                    /\ run' = [run EXCEPT ![t] = [run[t] EXCEPT ![k] = r]]
                    /\ heard' = heard
                    /\ pubsubTq' = IF s2.state # summary[t].state THEN WithNotification(t)
                                   ELSE pubsubTq
                    /\ s2.dedupedFrom = summary[t].dedupedFrom
      <4> DEFINE retried == /\ summary[t].try = k
                            /\ RetryAllowed(k, run[t][k], late, Idempotent(t))
                 s2 == IF summary[t].try # k THEN summary[t]
                       ELSE IF retried THEN ResetToPending(summary[t])
                       ELSE FromRunResult(summary[t], r, k, Idempotent(t))
      <4>1. s2.dedupedFrom = summary[t].dedupedFrom
        BY DEF ResetToPending, FromRunResult, Inv, TypeOK, ResultSummary
      <4>2. /\ summary' = [summary EXCEPT ![t] = s2]
            /\ run' = [run EXCEPT ![t] = [run[t] EXCEPT ![k] = r]]
            /\ heard' = heard
            /\ pubsubTq' = IF s2.state # summary[t].state THEN WithNotification(t)
                           ELSE pubsubTq
        BY <1>4, <2>2 DEF DeadBotTxn
      <4> HIDE DEF s2
      <4> QED
        BY <4>1, <4>2
    <3>2. r.owed = run[t][k].owed
      BY DEF Died, Inv, TypeOK, RunResult
    <3> HIDE DEF r
    <3>3. CASE s2.state # summary[t].state
      BY <3>1, <3>3, Notified
    <3>4. CASE s2.state = summary[t].state
      <4>1. Silent(t)'
        <5>1. \A n \in Tries : run'[t][n].owed = run[t][n].owed
          BY <3>1, <3>2 DEF Inv, TypeOK
        <5>2. summary'[t] = s2 /\ heard' = heard /\ pubsubTq' = pubsubTq
          BY <3>1, <3>4 DEF Inv, TypeOK
        <5>3. s2.state = summary[t].state /\ s2.dedupedFrom = summary[t].dedupedFrom
          BY <3>1, <3>4
        <5> QED
          BY <5>1, <5>2, <5>3 DEF Silent, Announced
      <4>2. \A u \in Tasks \ {t} : summary'[u] = summary[u] /\ run'[u] = run[u]
        BY <3>1 DEF Inv, TypeOK
      <4> QED
        BY <3>1, <3>4, <4>1, <4>2, OneTaskAnnounced
    <3> QED
      BY <3>3, <3>4
  <2> QED
    BY <2>1, <2>2
<1>5. CASE HandlePubsubTask(t)
  <2>1. /\ heard' = [heard EXCEPT ![t] = summary[t].state]
        /\ pubsubTq' \in {pubsubTq, pubsubTq \ {t}} /\ UNCHANGED <<summary, run>>
    BY <1>5 DEF HandlePubsubTask, entities
  <2>2. Silent(t)'
    BY <2>1 DEF Silent, Announced, Inv, TypeOK
  <2> QED
    BY <2>1, <2>2, OneTaskAnnounced DEF Inv, TypeOK
<1> QED
  BY <1>1, <1>2, <1>3, <1>4, <1>5 DEF Cron

LEMMA TimeAnnounces ==
    ASSUME Inv, \A u \in Tasks : Silent(u), NEW t \in Tasks, Time(t)
    PROVE  \A u \in Tasks : Silent(u)'
<1>1. CASE ExpirationPasses(t) \/ LookupCacheLapses(t)
  BY <1>1, NothingToAnnounce DEF ExpirationPasses, LookupCacheLapses, entities
<1>2. ASSUME NEW k \in Tries, ToleranceElapses(t, k)
      PROVE  \A u \in Tasks : Silent(u)'
  <2>1. \A u \in Tasks, n \in Tries : run'[u][n].owed = run[u][n].owed
    BY <1>2 DEF ToleranceElapses, Inv, TypeOK, RunResult
  <2> QED
    BY <1>2, <2>1, NothingToAnnounce DEF ToleranceElapses
<1> QED
  BY <1>1, <1>2 DEF Time

\* However handlers, notifications and updates interleave, and whatever is lost of
\* them, no task ends in silence.
THEOREM NoSilentEndHolds == Spec => []NoSilentEnd
<1> DEFINE AllAnnounced == \A t \in Tasks : Silent(t)
<1>1. Init => AllAnnounced
  BY NewEntities DEF Init, Silent, Announced, Finished
<1>2. Inv /\ AllAnnounced /\ [Next]_vars => AllAnnounced'
  <2> SUFFICES ASSUME Inv, AllAnnounced, [Next]_vars PROVE AllAnnounced'
    OBVIOUS
  <2>1. CASE UNCHANGED vars
    BY <2>1, NothingToAnnounce DEF vars, entities, pubsub
  <2>2. CASE HandlerFails
    BY <2>2, NothingToAnnounce DEF HandlerFails, entities
  <2>3. ASSUME NEW t \in Tasks, Client(t) \/ Bot(t) \/ Cron(t) \/ Time(t)
        PROVE  AllAnnounced'
    BY <2>3, ClientAnnounces, BotAnnounces, CronAnnounces, TimeAnnounces
  <2> QED
    BY <2>1, <2>2, <2>3 DEF Next
<1>3. AllAnnounced => NoSilentEnd
  BY DEF Silent, Announced, NoSilentEnd
<1> QED
  BY InvHolds, <1>1, <1>2, <1>3, PTL DEF Spec

-----------------------------------------------------------------------------
(* A reused result is real                                                 *)

\* A run completes with an exit code.
HasExit(rs) == \A k \in Tries : rs[k].state = "COMPLETED" => rs[k].exit # NoExit

\* The last try of an idempotent task succeeded; its bot may have disowned it since.
Succeeded(p, q, s, rs) ==
    /\ p \in IdempotentProps /\ ~q
    /\ s.try # 0 /\ s.state \in {"COMPLETED", "BOT_DIED"} /\ s.exit = 0
    /\ s.dedupedFrom = NoTask
    /\ rs[s.try].exit = 0

\* What Coherent does not say of a task: its exit codes, and when it may be reused.
Real(p, q, s, rs) == HasExit(rs) /\ (s.reusable => Succeeded(p, q, s, rs))

\* Whoever is reused stays reusable.
SourceIsReusable ==
    \A t \in Tasks :
        LET s == summary[t].dedupedFrom
        IN  s # NoTask => /\ s \in Tasks /\ summary[s].reusable
                          /\ request[t] = request[s] /\ summary[t].exit = 0

ResultInv ==
    /\ \A t \in Tasks : Real(request[t], queued[t], summary[t], run[t])
    /\ SourceIsReusable

\* An update never changes an exit code, and a run ends by it with an exit code.
LEMMA UpdatedKeepsExit ==
    ASSUME NEW r \in RunResult, NEW e \in ExitCodes \cup {NoExit},
           NEW timeout \in BOOLEAN
    PROVE  LET f == Updated(r, e, timeout)
           IN  /\ f \in RunResult
               /\ r.state # "RUNNING" => f.state = r.state
               /\ r.exit # NoExit => f.exit = r.exit
               /\ f.state = "COMPLETED" /\ r.state # "COMPLETED" => f.exit # NoExit
<1>1. CASE r.exit = NoExit
  BY <1>1 DEF Updated, RunResult
<1>2. CASE r.exit # NoExit
  BY <1>2 DEF Updated, RunResult
<1> QED
  BY <1>1, <1>2

\* A write to an existing run, which keeps its exit code and its end, unless its bot
\* disowns it.
LEMMA RunWriteIsReal ==
    ASSUME NEW p, NEW q \in BOOLEAN, NEW s \in ResultSummary,
           NEW rs \in [Tries -> RunResult], NEW k \in Tries,
           NEW r \in RunResult, NEW i \in BOOLEAN, i => p \in IdempotentProps,
           Coherent(p, q, s, rs), Real(p, q, s, rs),
           rs[k].given \/ rs[k].state = "RUNNING",
           rs[k].exit # NoExit => r.exit = rs[k].exit,
           rs[k].state # "RUNNING" => r.state \in {rs[k].state, "BOT_DIED"},
           r.state = "COMPLETED" => r.exit # NoExit
    PROVE  LET f == FromRunResult(s, r, k, i)
               ns == [rs EXCEPT ![k] = r]
           IN  /\ s.try = k => Real(p, q, f, ns) /\ f.dedupedFrom = s.dedupedFrom
                               /\ (s.reusable => f.reusable)
               /\ s.try # k => Real(p, q, s, ns)
<1> DEFINE f == FromRunResult(s, r, k, i)
           ns == [rs EXCEPT ![k] = r]
<1>1. ns[k] = r /\ \A n \in Tries \ {k} : ns[n] = rs[n]
  OBVIOUS
<1>2. HasExit(ns)
  BY <1>1 DEF Real, HasExit
<1>3. /\ f.state = r.state /\ f.exit = r.exit /\ f.try = k /\ f.dedupedFrom = s.dedupedFrom
      /\ f.reusable <=> \/ s.reusable
                        \/ r.state = "COMPLETED" /\ ~Failure(r) /\ i /\ s.dedupedFrom = NoTask
  BY DEF FromRunResult, ResultSummary
<1>4. /\ rs[k].state # "NONE" /\ s.dedupedFrom = NoTask
      /\ s.try \in Tries
  BY GivenRunExists
<1>5. 0 # NoExit
  BY ConstantsAssumption
<1>6. ASSUME s.try = k PROVE f.reusable => Succeeded(p, q, f, ns)
  <2>1. CASE s.reusable
    <3>1. Succeeded(p, q, s, rs)
      BY <2>1 DEF Real
    <3>2. r.exit = 0
      BY <1>5, <1>6, <3>1 DEF Succeeded
    <3>3. rs[k].state \in {"COMPLETED", "BOT_DIED"}
      BY <1>4, <1>6, <3>1 DEF Succeeded, Coherent, Tries, MaxTry
    <3> QED
      BY <1>1, <1>3, <1>4, <3>1, <3>2, <3>3 DEF Succeeded, Tries, MaxTry
  <2>2. CASE f.reusable /\ ~s.reusable
    <3>1. r.state = "COMPLETED" /\ ~Failure(r) /\ i
      BY <1>3, <2>2
    <3>2. r.exit = 0
      BY <3>1 DEF Failure
    <3>3. ~q
      BY <1>4, <1>6, <3>1 DEF Coherent, Tries, MaxTry
    <3> QED
      BY <1>1, <1>3, <1>4, <3>1, <3>2, <3>3 DEF Succeeded, Tries, MaxTry
  <2> QED
    BY <2>1, <2>2
<1>7. ASSUME s.try # k PROVE s.reusable => Succeeded(p, q, s, ns)
  BY <1>1, <1>4, <1>7 DEF Real, Succeeded
<1> HIDE DEF f, ns
<1>8. Real(p, q, f, ns) <=> HasExit(ns) /\ (f.reusable => Succeeded(p, q, f, ns))
  BY DEF Real
<1>9. Real(p, q, s, ns) <=> HasExit(ns) /\ (s.reusable => Succeeded(p, q, s, ns))
  BY DEF Real
<1> QED
  BY <1>2, <1>3, <1>6, <1>7, <1>8, <1>9 DEF f, ns

\* A step that writes one task which is not deduped, and leaves it reusable if it was.
LEMMA OneResultWritten ==
    ASSUME ResultInv, NEW t \in Tasks,
           \A u \in Tasks \ {t} : /\ request'[u] = request[u] /\ queued'[u] = queued[u]
                                  /\ summary'[u] = summary[u] /\ run'[u] = run[u],
           Real(request'[t], queued'[t], summary'[t], run'[t]),
           request[t] # NoProps => request'[t] = request[t],
           summary[t].reusable => summary'[t].reusable,
           summary'[t].dedupedFrom = NoTask
    PROVE  ResultInv'
<1>1. \A u \in Tasks : Real(request'[u], queued'[u], summary'[u], run'[u])
  BY DEF ResultInv
<1>2. ASSUME NEW u \in Tasks, NEW s, s = summary'[u].dedupedFrom, s # NoTask
      PROVE  /\ s \in Tasks /\ summary'[s].reusable
             /\ request'[u] = request'[s] /\ summary'[u].exit = 0
  <2>1. u # t /\ summary'[u] = summary[u] /\ request'[u] = request[u]
    BY <1>2
  <2>2. /\ s \in Tasks /\ summary[s].reusable
        /\ request[u] = request[s] /\ summary[u].exit = 0
    BY <1>2, <2>1 DEF ResultInv, SourceIsReusable
  <2>3. request[s] \in IdempotentProps
    BY <2>2 DEF ResultInv, Real, Succeeded
  <2>4. request[s] # NoProps
    BY <2>3, ConstantsAssumption
  <2>5. summary'[s].reusable /\ request'[s] = request[s]
    BY <2>2, <2>4
  <2> QED
    BY <2>1, <2>2, <2>5
<1>3. SourceIsReusable'
  BY <1>2 DEF SourceIsReusable
<1> QED
  BY <1>1, <1>3 DEF ResultInv

\* A step that writes no entity, or writes them as they are.
LEMMA NoResultWritten ==
    ASSUME ResultInv, UNCHANGED entities PROVE ResultInv'
  BY DEF ResultInv, SourceIsReusable, entities

\* A run that only ages.
LEMMA AgeIsReal ==
    ASSUME Inv, ResultInv, NEW t \in Tasks, NEW k \in Tries, NEW x \in BOOLEAN,
           run[t][k].given \/ run[t][k].state = "RUNNING",
           run' = [run EXCEPT ![t][k].silent = x], UNCHANGED <<request, queued, summary>>
    PROVE  ResultInv'
<1>1. /\ run[t] \in [Tries -> RunResult] /\ summary[t] \in ResultSummary
      /\ Coherent(request[t], queued[t], summary[t], run[t]) /\ queued[t] \in BOOLEAN
  BY DEF Inv, TypeOK
<1>2. \A n \in Tries : run'[t][n].state = run[t][n].state /\ run'[t][n].exit = run[t][n].exit
  BY <1>1 DEF Inv, TypeOK, RunResult
<1>3. summary[t].dedupedFrom = NoTask /\ summary[t].try \in Tries
  BY <1>1, GivenRunExists
<1>4. Real(request[t], queued[t], summary[t], run'[t])
  BY <1>2, <1>3 DEF ResultInv, Real, HasExit, Succeeded
<1>5. \A u \in Tasks \ {t} : run'[u] = run[u]
  BY DEF Inv, TypeOK
<1> QED
  BY <1>3, <1>4, <1>5, OneResultWritten

LEMMA ClientIsReal ==
    ASSUME Inv, ResultInv, NEW t \in Tasks, Client(t)
    PROVE  ResultInv'
<1>0. /\ run[t] \in [Tries -> RunResult] /\ summary[t] \in ResultSummary
      /\ Coherent(request[t], queued[t], summary[t], run[t]) /\ queued[t] \in BOOLEAN
      /\ Real(request[t], queued[t], summary[t], run[t])
  BY DEF Inv, TypeOK, ResultInv
<1>1. ASSUME NEW p \in Props, ScheduleRequest(t, p)
      PROVE  ResultInv'
  <2>1. /\ request' = [request EXCEPT ![t] = p] /\ queued' = [queued EXCEPT ![t] = TRUE]
        /\ UNCHANGED <<summary, run>> /\ request[t] = NoProps
    BY <1>1 DEF ScheduleRequest
  <2>2. ~summary[t].reusable /\ summary[t].dedupedFrom = NoTask
    BY <1>0, <2>1, ConstantsAssumption DEF Real, Succeeded, Coherent
  <2>3. Real(request'[t], queued'[t], summary'[t], run'[t])
    BY <1>0, <2>1, <2>2 DEF Real
  <2>4. \A u \in Tasks \ {t} : request'[u] = request[u] /\ queued'[u] = queued[u]
    BY <2>1 DEF Inv, TypeOK
  <2> QED
    BY <2>1, <2>2, <2>3, <2>4, OneResultWritten
<1>2. ASSUME NEW p \in Props, NEW s \in Tasks, ScheduleDeduped(t, p, s)
      PROVE  ResultInv'
  <2>1. /\ request' = [request EXCEPT ![t] = p] /\ summary' = [summary EXCEPT ![t] = Reused(s)]
        /\ UNCHANGED <<queued, run>> /\ request[t] = NoProps /\ IsDupe(s, p)
    BY <1>2 DEF ScheduleDeduped
  <2>2. s # t /\ request[s] = p /\ summary[s].reusable
    BY <2>1, ConstantsAssumption DEF IsDupe
  <2>3. /\ ~Reused(s).reusable /\ Reused(s).dedupedFrom = s
        /\ Reused(s).exit = summary[s].exit
    BY DEF Reused
  <2>4. summary[s].exit = 0
    BY <2>2 DEF ResultInv, Real, Succeeded
  <2>5. summary'[t] = Reused(s) /\ request'[t] = p
    BY <2>1 DEF Inv, TypeOK
  <2>6. \A u \in Tasks \ {t} : summary'[u] = summary[u] /\ request'[u] = request[u]
    BY <2>1 DEF Inv, TypeOK
  <2>7. \A u \in Tasks : Real(request'[u], queued'[u], summary'[u], run'[u])
    BY <1>0, <2>1, <2>3, <2>5, <2>6 DEF ResultInv, Real
  <2>8. ~summary[t].reusable
    BY <1>0, <2>1, ConstantsAssumption DEF Real, Succeeded
  <2>9. ASSUME NEW u \in Tasks, NEW v, v = summary'[u].dedupedFrom, v # NoTask
        PROVE  /\ v \in Tasks /\ summary'[v].reusable
               /\ request'[u] = request'[v] /\ summary'[u].exit = 0
    <3>1. CASE u = t
      BY <2>2, <2>3, <2>4, <2>5, <2>6, <2>9, <3>1
    <3>2. CASE u # t
      <4>1. /\ v \in Tasks /\ summary[v].reusable
            /\ request[u] = request[v] /\ summary[u].exit = 0
        BY <2>6, <2>9, <3>2 DEF ResultInv, SourceIsReusable
      <4>2. v # t
        BY <2>8, <4>1
      <4> QED
        BY <2>6, <3>2, <4>1, <4>2
    <3> QED
      BY <3>1, <3>2
  <2>10. SourceIsReusable'
    BY <2>9 DEF SourceIsReusable
  <2> QED
    BY <2>7, <2>10 DEF ResultInv
<1>3. ASSUME NEW k \in Tries, AdoptChild(t, k)
      PROVE  ResultInv'
  BY <1>3, AgeIsReal DEF AdoptChild
<1>4. CASE CancelStart(t)
  BY <1>4, NoResultWritten DEF CancelStart
<1>5. CASE CancelTxn(t)
  <2>1. CASE summary[t].state = "PENDING"
    <3> DEFINE f == [summary[t] EXCEPT !.state = "CANCELED"]
    <3>1. /\ queued' = [queued EXCEPT ![t] = FALSE] /\ summary' = [summary EXCEPT ![t] = f]
          /\ UNCHANGED <<request, run>>
      BY <1>5, <2>1 DEF CancelTxn
    <3>2. ~summary[t].reusable /\ summary[t].dedupedFrom = NoTask
      BY <1>0, <2>1 DEF Real, Succeeded, Coherent
    <3>3. f.reusable = summary[t].reusable /\ f.dedupedFrom = NoTask
      BY <1>0, <3>2 DEF ResultSummary
    <3> HIDE DEF f
    <3>4. summary'[t] = f /\ \A u \in Tasks \ {t} : summary'[u] = summary[u] /\ queued'[u] = queued[u]
      BY <3>1 DEF Inv, TypeOK
    <3>5. Real(request'[t], queued'[t], summary'[t], run'[t])
      BY <1>0, <3>1, <3>2, <3>3, <3>4 DEF Real
    <3> QED
      BY <3>1, <3>2, <3>3, <3>4, <3>5, OneResultWritten
  <2>2. CASE summary[t].state # "PENDING"
    BY <1>5, <2>2, NoResultWritten DEF CancelTxn, entities
  <2> QED
    BY <2>1, <2>2
<1> QED
  BY <1>1, <1>2, <1>3, <1>4, <1>5 DEF Client

LEMMA UpdateIsReal ==
    ASSUME Inv, ResultInv, NEW t \in Tasks, NEW k \in Tries,
           NEW e \in ExitCodes \cup {NoExit}, NEW timeout \in BOOLEAN, NEW acked \in BOOLEAN,
           BotUpdateTask(t, k, e, timeout, acked)
    PROVE  ResultInv'
<1>0. /\ run[t] \in [Tries -> RunResult] /\ summary[t] \in ResultSummary
      /\ Coherent(request[t], queued[t], summary[t], run[t]) /\ queued[t] \in BOOLEAN
      /\ Real(request[t], queued[t], summary[t], run[t]) /\ run[t][k] \in RunResult
  BY DEF Inv, TypeOK, ResultInv
<1> DEFINE r == Updated(run[t][k], e, timeout)
           f == SummaryAfterUpdate(summary[t], r, k, Idempotent(t))
           o == f.state \in Finished /\ ~acked
           g == [r EXCEPT !.owed = o]
<1>1. /\ run' = [run EXCEPT ![t][k] = g] /\ summary' = [summary EXCEPT ![t] = f]
      /\ UNCHANGED <<request, queued>> /\ run[t][k].given
  BY DEF BotUpdateTask
<1>2. /\ r \in RunResult
      /\ run[t][k].state # "RUNNING" => r.state = run[t][k].state
      /\ run[t][k].exit # NoExit => r.exit = run[t][k].exit
      /\ r.state = "COMPLETED" /\ run[t][k].state # "COMPLETED" => r.exit # NoExit
  BY <1>0, UpdatedKeepsExit
<1>3. summary[t].dedupedFrom = NoTask /\ k =< summary[t].try
  BY <1>0, <1>1, GivenRunExists
<1>4. /\ summary[t].try = k => f = FromRunResult(summary[t], r, k, Idempotent(t))
      /\ summary[t].try # k => f = summary[t]
  BY <1>0, <1>3 DEF SummaryAfterUpdate, ResultSummary, Tries, MaxTry
<1>o. o \in BOOLEAN
  OBVIOUS
<1> HIDE DEF r, o
<1>5. /\ g \in RunResult /\ g.state = r.state /\ g.exit = r.exit
      /\ FromRunResult(summary[t], r, k, Idempotent(t))
            = FromRunResult(summary[t], g, k, Idempotent(t))
  BY <1>2, <1>o DEF RunResult, FromRunResult, Failure
<1> HIDE DEF g, f
<1>6. g.state = "COMPLETED" => g.exit # NoExit
  BY <1>0, <1>2, <1>5 DEF Real, HasExit
<1>i. Idempotent(t) \in BOOLEAN /\ (Idempotent(t) => request[t] \in IdempotentProps)
  BY DEF Idempotent
<1>7. /\ Real(request[t], queued[t], f, [run[t] EXCEPT ![k] = g])
      /\ summary[t].reusable => f.reusable
      /\ f.dedupedFrom = NoTask
  <2> DEFINE i == Idempotent(t)
             ff == FromRunResult(summary[t], g, k, i)
  <2> HIDE DEF i
  <2>1. /\ run[t][k].exit # NoExit => g.exit = run[t][k].exit
        /\ run[t][k].state # "RUNNING" => g.state \in {run[t][k].state, "BOT_DIED"}
        /\ run[t][k].given /\ g \in RunResult
    BY <1>1, <1>2, <1>5
  <2> HIDE DEF ff
  <2>i. i \in BOOLEAN /\ (i => request[t] \in IdempotentProps)
    BY <1>i DEF i
  <2>2. /\ summary[t].try = k => /\ Real(request[t], queued[t], ff, [run[t] EXCEPT ![k] = g])
                                 /\ ff.dedupedFrom = summary[t].dedupedFrom
                                 /\ summary[t].reusable => ff.reusable
        /\ summary[t].try # k => Real(request[t], queued[t], summary[t], [run[t] EXCEPT ![k] = g])
    BY <1>0, <1>6, <2>1, <2>i, RunWriteIsReal DEF ff
  <2>3. /\ summary[t].try = k => f = ff
        /\ summary[t].try # k => f = summary[t]
    BY <1>4, <1>5 DEF i, ff
  <2> QED
    BY <1>3, <2>2, <2>3
<1>8. /\ summary'[t] = f /\ run'[t] = [run[t] EXCEPT ![k] = g]
      /\ \A u \in Tasks \ {t} : summary'[u] = summary[u] /\ run'[u] = run[u]
  BY <1>1 DEF Inv, TypeOK
<1> QED
  BY <1>1, <1>7, <1>8, OneResultWritten

LEMMA BotIsReal ==
    ASSUME Inv, ResultInv, NEW t \in Tasks, Bot(t)
    PROVE  ResultInv'
<1>0. /\ run[t] \in [Tries -> RunResult] /\ summary[t] \in ResultSummary
      /\ Coherent(request[t], queued[t], summary[t], run[t]) /\ queued[t] \in BOOLEAN
      /\ Real(request[t], queued[t], summary[t], run[t])
      /\ \A k \in Tries : run[t][k] \in RunResult
  BY DEF Inv, TypeOK, ResultInv
<1>1. ASSUME NEW b \in Bots, ReapStart(b, t) \/ ReapDenied(b, t)
      PROVE  ResultInv'
  BY <1>1, NoResultWritten DEF ReapStart, ReapDenied
<1>2. ASSUME NEW b \in Bots, NEW delivered \in BOOLEAN, ReapTxn(b, t, delivered)
      PROVE  ResultInv'
  <2> DEFINE k == summary[t].try + 1
             r == [NoRun EXCEPT !.state = "RUNNING", !.bot = b, !.given = delivered]
             f == FromRunResult(summary[t], r, k, Idempotent(t))
             ns == [run[t] EXCEPT ![k] = r]
  <2>1. /\ queued' = [queued EXCEPT ![t] = FALSE] /\ request' = request
        /\ summary' = [summary EXCEPT ![t] = f] /\ run' = [run EXCEPT ![t] = ns]
        /\ queued[t] /\ k \in Tries
    BY <1>2 DEF ReapTxn, MayReap
  <2>2. ~summary[t].reusable /\ summary[t].dedupedFrom = NoTask
    BY <1>0, <2>1 DEF Real, Succeeded, Coherent
  <2>3. r.state = "RUNNING"
    BY DEF NoRun
  <2>4. ~f.reusable /\ f.dedupedFrom = NoTask
    BY <1>0, <2>2, <2>3 DEF FromRunResult, ResultSummary
  <2>5. HasExit(ns)
    BY <1>0, <2>1, <2>3 DEF HasExit, Real
  <2> HIDE DEF r, f, ns, k
  <2>6. /\ queued'[t] = FALSE /\ summary'[t] = f /\ run'[t] = ns
        /\ \A u \in Tasks \ {t} : /\ summary'[u] = summary[u] /\ run'[u] = run[u]
                                  /\ queued'[u] = queued[u]
    BY <2>1 DEF Inv, TypeOK
  <2>7. Real(request'[t], queued'[t], summary'[t], run'[t])
    BY <2>4, <2>5, <2>6 DEF Real
  <2> QED
    BY <2>1, <2>2, <2>4, <2>6, <2>7, OneResultWritten
<1>3. ASSUME NEW k \in Tries, BotKillTask(t, k)
      PROVE  ResultInv'
  <2> DEFINE r == Died(run[t][k])
             f == FromRunResult(summary[t], r, k, FALSE)
  <2>1. /\ UNCHANGED <<request, queued>> /\ run[t][k].given /\ run[t][k].state # "BOT_DIED"
        /\ summary' = [summary EXCEPT ![t] = f] /\ run' = [run EXCEPT ![t][k] = r]
    BY <1>3 DEF BotKillTask, Inv, TypeOK
  <2>2. r \in RunResult /\ r.state = "BOT_DIED" /\ r.exit = run[t][k].exit
    BY <1>0 DEF Died, RunResult
  <2> HIDE DEF r
  <2>3. k = summary[t].try /\ summary[t].dedupedFrom = NoTask
    BY <1>0, <2>1, GivenRunExists
  <2>4. /\ Real(request[t], queued[t], f, [run[t] EXCEPT ![k] = r])
        /\ summary[t].reusable => f.reusable
        /\ f.dedupedFrom = NoTask
    <3>1. PICK i \in BOOLEAN : i = FALSE
      OBVIOUS
    <3>2. f = FromRunResult(summary[t], r, k, i)
      BY <3>1
    <3>3. /\ i => request[t] \in IdempotentProps
          /\ run[t][k].state # "RUNNING" => r.state \in {run[t][k].state, "BOT_DIED"}
          /\ r.state = "COMPLETED" => r.exit # NoExit
          /\ run[t][k].exit # NoExit => r.exit = run[t][k].exit
          /\ run[t][k].given \/ run[t][k].state = "RUNNING"
          /\ r \in RunResult
      BY <2>1, <2>2, <3>1
    <3> DEFINE ff == FromRunResult(summary[t], r, k, i)
    <3>4. summary[t].try = k => /\ Real(request[t], queued[t], ff, [run[t] EXCEPT ![k] = r])
                                /\ ff.dedupedFrom = summary[t].dedupedFrom
                                /\ summary[t].reusable => ff.reusable
      BY <1>0, <3>3, RunWriteIsReal
    <3> HIDE DEF f, ff
    <3>5. f = ff
      BY <3>2 DEF ff
    <3> QED
      BY <2>3, <3>4, <3>5
  <2> HIDE DEF f
  <2>5. /\ summary'[t] = f /\ run'[t] = [run[t] EXCEPT ![k] = r]
        /\ \A u \in Tasks \ {t} : summary'[u] = summary[u] /\ run'[u] = run[u]
    BY <2>1 DEF Inv, TypeOK
  <2> QED
    BY <2>1, <2>4, <2>5, OneResultWritten
<1> QED
  BY <1>1, <1>2, <1>3, UpdateIsReal DEF Bot

LEMMA CronIsReal ==
    ASSUME Inv, ResultInv, NEW t \in Tasks, Cron(t)
    PROVE  ResultInv'
<1>0. /\ run[t] \in [Tries -> RunResult] /\ summary[t] \in ResultSummary
      /\ Coherent(request[t], queued[t], summary[t], run[t]) /\ queued[t] \in BOOLEAN
      /\ Real(request[t], queued[t], summary[t], run[t])
      /\ \A k \in Tries : run[t][k] \in RunResult
  BY DEF Inv, TypeOK, ResultInv
<1>1. CASE ExpireStart(t)
  BY <1>1, NoResultWritten DEF ExpireStart
<1>2. CASE ExpireTxn(t)
  <2>1. CASE queued[t]
    <3> DEFINE f == ExpiredSummary(summary[t], run[t], Idempotent(t))
    <3>1. /\ queued' = [queued EXCEPT ![t] = FALSE] /\ summary' = [summary EXCEPT ![t] = f]
          /\ UNCHANGED <<request, run>>
      BY <1>2, <2>1 DEF ExpireTxn
    <3>2. ~summary[t].reusable /\ summary[t].dedupedFrom = NoTask
      BY <1>0, <2>1 DEF Real, Succeeded, Coherent
    <3>3. summary[t].try # 0 => run[t][summary[t].try].state = "BOT_DIED"
      BY <1>0, <2>1 DEF Coherent, Tries, MaxTry, ResultSummary
    <3>4. ~f.reusable /\ f.dedupedFrom = NoTask
      BY <1>0, <3>2, <3>3 DEF ExpiredSummary, FromRunResult, ResultSummary
    <3> HIDE DEF f
    <3>5. summary'[t] = f /\ \A u \in Tasks \ {t} : summary'[u] = summary[u] /\ queued'[u] = queued[u]
      BY <3>1 DEF Inv, TypeOK
    <3>6. Real(request'[t], queued'[t], summary'[t], run'[t])
      BY <1>0, <3>1, <3>4, <3>5 DEF Real
    <3> QED
      BY <3>1, <3>2, <3>4, <3>5, <3>6, OneResultWritten
  <2>2. CASE ~queued[t]
    BY <1>2, <2>2, NoResultWritten DEF ExpireTxn, entities
  <2> QED
    BY <2>1, <2>2
<1>3. ASSUME NEW k \in Tries, DeadBotStart(t, k)
      PROVE  ResultInv'
  BY <1>3, NoResultWritten DEF DeadBotStart
<1>4. ASSUME NEW k \in Tries, NEW late \in BOOLEAN, DeadBotTxn(t, k, late)
      PROVE  ResultInv'
  <2>1. CASE ~IsDead(run[t][k])
    BY <1>4, <2>1, NoResultWritten DEF DeadBotTxn, entities
  <2>2. CASE IsDead(run[t][k])
    <3> DEFINE r == Died(run[t][k])
               retried == /\ summary[t].try = k
                          /\ RetryAllowed(k, run[t][k], late, Idempotent(t))
               f == FromRunResult(summary[t], r, k, Idempotent(t))
               s2 == IF summary[t].try # k THEN summary[t]
                     ELSE IF retried THEN ResetToPending(summary[t]) ELSE f
               ns == [run[t] EXCEPT ![k] = r]
    <3>1. /\ request' = request /\ queued' = [queued EXCEPT ![t] = retried \/ @]
          /\ summary' = [summary EXCEPT ![t] = s2] /\ run' = [run EXCEPT ![t][k] = r]
      BY <1>4, <2>2 DEF DeadBotTxn
    <3>2. /\ run[t][k].state = "RUNNING" /\ summary[t].try = k
          /\ summary[t].dedupedFrom = NoTask
      BY <1>0, <2>2, GivenRunExists DEF IsDead
    <3>3. r \in RunResult /\ r.state = "BOT_DIED"
      BY <1>0, DiedIsDead
    <3>4. ~summary[t].reusable
      BY <1>0, <3>2 DEF Real, Succeeded, Coherent
    <3> HIDE DEF r
    <3>5. HasExit(ns)
      BY <1>0, <3>3 DEF Real, HasExit
    <3>6. ~s2.reusable /\ s2.dedupedFrom = NoTask
      BY <1>0, <3>2, <3>3, <3>4 DEF ResetToPending, FromRunResult, ResultSummary
    <3> HIDE DEF s2, ns, retried
    <3>7. /\ summary'[t] = s2
          /\ \A u \in Tasks \ {t} : /\ summary'[u] = summary[u] /\ run'[u] = run[u]
                                    /\ queued'[u] = queued[u]
      BY <3>1 DEF Inv, TypeOK
    <3>8. run'[t] = ns
      BY <3>1 DEF Inv, TypeOK, ns
    <3>9. Real(request'[t], queued'[t], summary'[t], run'[t])
      BY <3>5, <3>6, <3>7, <3>8 DEF Real
    <3> QED
      BY <3>1, <3>4, <3>6, <3>7, <3>9, OneResultWritten
  <2> QED
    BY <2>1, <2>2
<1>5. CASE HandlePubsubTask(t)
  BY <1>5, NoResultWritten DEF HandlePubsubTask
<1> QED
  BY <1>1, <1>2, <1>3, <1>4, <1>5 DEF Cron

LEMMA TimeIsReal ==
    ASSUME Inv, ResultInv, NEW t \in Tasks, Time(t)
    PROVE  ResultInv'
<1>1. CASE ExpirationPasses(t) \/ LookupCacheLapses(t)
  BY <1>1, NoResultWritten DEF ExpirationPasses, LookupCacheLapses
<1>2. ASSUME NEW k \in Tries, ToleranceElapses(t, k)
      PROVE  ResultInv'
  BY <1>2, AgeIsReal DEF ToleranceElapses
<1> QED
  BY <1>1, <1>2 DEF Time

\* A task that took the result of another one took that of a task that ran and
\* succeeded, and no chain of reuse forms, whatever late updates and kills do to
\* the source.
THEOREM ReusedResultIsRealHolds == Spec => []ReusedResultIsReal
<1>1. Init => ResultInv
  <2> SUFFICES ASSUME Init PROVE ResultInv
    OBVIOUS
  <2>1. \A t \in Tasks, k \in Tries : run[t][k].state = "NONE"
    BY NewEntities DEF Init
  <2>2. \A t \in Tasks : ~summary[t].reusable /\ summary[t].dedupedFrom = NoTask
    BY DEF Init, NewResultSummary
  <2> QED
    BY <2>1, <2>2 DEF ResultInv, SourceIsReusable, Real, HasExit
<1>2. Inv /\ ResultInv /\ [Next]_vars => ResultInv'
  <2> SUFFICES ASSUME Inv, ResultInv, [Next]_vars PROVE ResultInv'
    OBVIOUS
  <2>1. CASE UNCHANGED vars
    BY <2>1, NoResultWritten DEF vars
  <2>2. CASE HandlerFails
    BY <2>2, NoResultWritten DEF HandlerFails
  <2>3. ASSUME NEW t \in Tasks, Client(t) \/ Bot(t) \/ Cron(t) \/ Time(t)
        PROVE  ResultInv'
    BY <2>3, ClientIsReal, BotIsReal, CronIsReal, TimeIsReal
  <2> QED
    BY <2>1, <2>2, <2>3 DEF Next
<1>3. Inv /\ ResultInv => ReusedResultIsReal
  BY DEF Inv, Coherent, ResultInv, SourceIsReusable, Real, Succeeded, ReusedResultIsReal
<1> QED
  BY InvHolds, <1>1, <1>2, <1>3, PTL DEF Spec

-----------------------------------------------------------------------------
(* 3. Who runs a task *)

-----------------------------------------------------------------------------
(* The owner and the bots that tried, after each write of a run *)

\* A write that keeps the bot of an existing run adds nobody to those that tried.
LEMMA SameBots ==
    ASSUME NEW rs \in [Tries -> RunResult], NEW k \in Tries, NEW r \in RunResult,
           rs[k].state # "NONE", r.state # "NONE", r.bot = rs[k].bot
    PROVE  TriedBots([rs EXCEPT ![k] = r]) = TriedBots(rs)
<1> DEFINE ns == [rs EXCEPT ![k] = r]
<1>1. ns[k] = r /\ ns[k] # NoRun /\ rs[k] # NoRun
  BY NewEntities
<1>2. \A n \in Tries : ns[n].bot = rs[n].bot /\ (ns[n] # NoRun <=> rs[n] # NoRun)
  BY <1>1
<1> HIDE DEF ns
<1>3. {n \in Tries : ns[n] # NoRun} = {n \in Tries : rs[n] # NoRun}
  BY <1>2
<1>4. QED
  BY <1>2, <1>3 DEF TriedBots, ns

\* Who owns a task after its run k was written.
LEMMA OwnerAfterWrite ==
    ASSUME NEW p, NEW q \in BOOLEAN, NEW s \in ResultSummary,
           NEW rs \in [Tries -> RunResult], NEW k \in Tries, NEW r \in RunResult,
           Coherent(p, q, s, rs), rs[k].given \/ rs[k].state = "RUNNING",
           r.bot = rs[k].bot, r.state # "NONE",
           rs[k].state # "RUNNING" => r.state # "RUNNING"
    PROVE  LET ns == [rs EXCEPT ![k] = r]
           IN  /\ TriedBots(ns) = TriedBots(rs)
               /\ r.state = rs[k].state => Owner(ns) = Owner(rs)
               /\ rs[k].state = "RUNNING" => Owner(rs) = rs[k].bot /\ Owner(rs) \in Bots
               /\ rs[k].state = "RUNNING" /\ r.state # "RUNNING" => Owner(ns) = NoBot
               /\ rs[k].state # "RUNNING" => Owner(ns) = Owner(rs)
<1> DEFINE ns == [rs EXCEPT ![k] = r]
<1>1. /\ rs[k].state # "NONE" /\ rs[k].bot \in Bots
      /\ k # s.try => k = 1 /\ s.try = 2 /\ rs[k].state = "BOT_DIED"
  BY GivenRunExists
<1>2. TriedBots(ns) = TriedBots(rs)
  BY <1>1, SameBots
<1>3. ns[k] = r /\ \A n \in Tries \ {k} : ns[n] = rs[n]
  OBVIOUS
<1>4. rs[1].state = "RUNNING" => rs[2].state = "NONE"
  BY DEF Coherent, Tries, MaxTry, ResultSummary
<1>5. rs[2].state = "RUNNING" => rs[1].state = "BOT_DIED"
  BY DEF Coherent, Tries, MaxTry, ResultSummary
<1>6. CASE k = 1
  BY <1>1, <1>2, <1>3, <1>4, <1>6 DEF Owner, Tries, MaxTry
<1>7. CASE k = 2
  BY <1>1, <1>2, <1>3, <1>5, <1>7 DEF Owner, Tries, MaxTry
<1>8. QED
  BY <1>6, <1>7 DEF Tries, MaxTry

\* Who tried a queued task, and who owns it once it was reaped.
Granted(rs, ns, b) ==
    /\ Owner(ns) = b
    /\ TriedBots(ns) = TriedBots(rs) \cup {b}
    /\ b \notin TriedBots(rs)
    /\ \A c \in TriedBots(rs), d \in TriedBots(rs) : c = d

LEMMA OwnerAfterReap ==
    ASSUME NEW p, NEW q \in BOOLEAN, NEW s \in ResultSummary,
           NEW rs \in [Tries -> RunResult], NEW k \in Tries,
           NEW ns \in [Tries -> RunResult],
           Coherent(p, q, s, rs), q, s.try = 0 => k = 1, s.try = 1 => k = 2,
           \A n \in Tries \ {k} : ns[n] = rs[n],
           ns[k].state = "RUNNING", s.bot # ns[k].bot
    PROVE  Granted(rs, ns, ns[k].bot)
<1> USE DEF Granted
<1> DEFINE r == ns[k]
           b == ns[k].bot
<1>1. s.try \in {0, 1}
  BY DEF Coherent, ResultSummary, MaxTry
<1>2. r # NoRun
  BY NewEntities
<1>3. CASE s.try = 0
  <2>1. rs[1] = NoRun /\ rs[2] = NoRun
    BY <1>3 DEF Coherent, Tries, MaxTry
  <2>2. TriedBots(rs) = {}
    BY <2>1 DEF TriedBots, Tries, MaxTry
  <2>3. TriedBots(ns) = {b}
    BY <1>2, <1>3, <2>1 DEF TriedBots, Tries, MaxTry
  <2>4. Owner(ns) = b
    BY <1>2, <1>3 DEF Owner, Tries, MaxTry
  <2>5. QED
    BY <2>2, <2>3, <2>4
<1>4. CASE s.try = 1
  <2>1. rs[1] # NoRun /\ rs[2] = NoRun /\ rs[1].state = "BOT_DIED" /\ rs[1].bot = s.bot
    BY <1>4, NewEntities DEF Coherent, Tries, MaxTry
  <2>2. TriedBots(rs) = {s.bot}
    BY <2>1 DEF TriedBots, Tries, MaxTry
  <2>3. ns[1] = rs[1] /\ ns[2] = r
    BY <1>2, <1>4 DEF Tries, MaxTry
  <2>4. TriedBots(ns) = {s.bot, b}
    BY <1>2, <2>1, <2>3 DEF TriedBots, Tries, MaxTry
  <2>5. Owner(ns) = b
    BY <2>1, <2>3 DEF Owner
  <2>6. QED
    BY <2>2, <2>4, <2>5
<1>5. QED
  BY <1>1, <1>3, <1>4

\* A first try that is running is the only one there was.
LEMMA FirstTryIsAlone ==
    ASSUME NEW p, NEW q \in BOOLEAN, NEW s \in ResultSummary,
           NEW rs \in [Tries -> RunResult], Coherent(p, q, s, rs),
           rs[1].state = "RUNNING"
    PROVE  TriedBots(rs) = {rs[1].bot}
<1>1. rs[2] = NoRun /\ rs[1] # NoRun
  BY NewEntities DEF Coherent, Tries, MaxTry, ResultSummary
<1>2. QED
  BY <1>1 DEF TriedBots, Tries, MaxTry

-----------------------------------------------------------------------------
(* The step of TaskOwnership that a write to one task amounts to *)

\* Only the entities of t are written.
OnlyWrites(t) ==
    \A u \in Tasks \ {t} : /\ request'[u] = request[u] /\ queued'[u] = queued[u]
                           /\ run'[u] = run[u]

\* What the abstract variables of t are.
LEMMA OwnershipOf ==
    ASSUME TypeOK, NEW t \in Tasks
    PROVE  /\ t \in Created <=> request[t] # NoProps
           /\ t \in Offered <=> queued[t]
           /\ Owners[t] = Owner(run[t]) /\ TriedBy[t] = TriedBots(run[t])
BY DEF Created, Offered, Owners, TriedBy

\* A write to t leaves the offer, the owner and the tries of the others alone.
LEMMA OthersMap ==
    ASSUME TypeOK, TypeOK', NEW t \in Tasks, OnlyWrites(t)
    PROVE  /\ (request'[t] # NoProps <=> request[t] # NoProps) => Created' = Created
           /\ request'[t] # NoProps => Created' = Created \cup {t}
           /\ queued'[t] = queued[t] => Offered' = Offered
           /\ queued'[t] => Offered' = Offered \cup {t}
           /\ ~queued'[t] => Offered' = Offered \ {t}
           /\ Owners' = [Owners EXCEPT ![t] = Owner(run'[t])]
           /\ TriedBy' = [TriedBy EXCEPT ![t] = TriedBots(run'[t])]
           /\ Owner(run'[t]) = Owner(run[t]) => Owners' = Owners
           /\ TriedBots(run'[t]) = TriedBots(run[t]) => TriedBy' = TriedBy
<1>1. /\ \A u \in Tasks \ {t} : run'[u] = run[u]
      /\ \A u \in Tasks \ {t} : request'[u] = request[u] /\ queued'[u] = queued[u]
  BY DEF OnlyWrites
<1>2. /\ (request'[t] # NoProps <=> request[t] # NoProps) => Created' = Created
      /\ request'[t] # NoProps => Created' = Created \cup {t}
  BY <1>1 DEF Created
<1>3. queued \in [Tasks -> BOOLEAN] /\ queued' \in [Tasks -> BOOLEAN]
  BY DEF TypeOK
<1>4. queued'[t] = queued[t] => Offered' = Offered
  BY <1>1, <1>3 DEF Offered
<1>5. queued'[t] => Offered' = Offered \cup {t}
  BY <1>1, <1>3 DEF Offered
<1>6. ~queued'[t] => Offered' = Offered \ {t}
  BY <1>1, <1>3 DEF Offered
<1>7. Owners' = [Owners EXCEPT ![t] = Owner(run'[t])]
  BY <1>1 DEF Owners
<1>8. TriedBy' = [TriedBy EXCEPT ![t] = TriedBots(run'[t])]
  BY <1>1 DEF TriedBy
<1>9. Owner(run'[t]) = Owner(run[t]) => Owners' = Owners
  BY <1>1 DEF Owners
<1>10. TriedBots(run'[t]) = TriedBots(run[t]) => TriedBy' = TriedBy
  BY <1>1 DEF TriedBy
<1>11. QED
  BY <1>2, <1>4, <1>5, <1>6, <1>7, <1>8, <1>9, <1>10

\* A write after which nobody else has the task and nobody else tried it.
LEMMA StutterMaps ==
    ASSUME TypeOK, TypeOK', NEW t \in Tasks, OnlyWrites(t), request'[t] = request[t],
           queued'[t] = queued[t], Owner(run'[t]) = Owner(run[t]),
           TriedBots(run'[t]) = TriedBots(run[t])
    PROVE  UNCHANGED Ownership!vars
BY OthersMap DEF Ownership!vars

\* A write that creates the task.
LEMMA CreateMaps ==
    ASSUME TypeOK, TypeOK', NEW t \in Tasks, OnlyWrites(t), request[t] = NoProps,
           request'[t] # NoProps, run' = run, queued'[t] \/ queued'[t] = queued[t]
    PROVE  Ownership!Create(t)
BY OthersMap, OwnershipOf DEF Ownership!Create

\* A write that takes the task out of the queue.
LEMMA WithdrawMaps ==
    ASSUME TypeOK, TypeOK', NEW t \in Tasks, OnlyWrites(t), request'[t] = request[t],
           queued[t], ~queued'[t], run' = run
    PROVE  Ownership!Withdraw(t)
BY OthersMap, OwnershipOf DEF Ownership!Withdraw

\* A write after which the task has no owner any more.
LEMMA CloseMaps ==
    ASSUME TypeOK, TypeOK', NEW t \in Tasks, OnlyWrites(t), request'[t] = request[t],
           queued'[t] = queued[t], Owner(run[t]) # NoBot, Owner(run'[t]) = NoBot,
           TriedBots(run'[t]) = TriedBots(run[t])
    PROVE  Ownership!Close(t)
BY OthersMap, OwnershipOf DEF Ownership!Close

\* A write that takes the task from its first owner and queues it again.
LEMMA OfferAgainMaps ==
    ASSUME TypeOK, TypeOK', NEW t \in Tasks, OnlyWrites(t), request'[t] = request[t],
           queued'[t], Owner(run[t]) # NoBot, Owner(run'[t]) = NoBot,
           TriedBots(run[t]) = {Owner(run[t])},
           TriedBots(run'[t]) = TriedBots(run[t])
    PROVE  Ownership!OfferAgain(t)
BY OthersMap, OwnershipOf DEF Ownership!OfferAgain

\* A write that gives the queued task to a bot that never had it.
LEMMA GrantMaps ==
    ASSUME TypeOK, TypeOK', NEW t \in Tasks, OnlyWrites(t), request'[t] = request[t],
           NEW b \in Bots, queued[t], ~queued'[t], Owner(run'[t]) = b,
           TriedBots(run'[t]) = TriedBots(run[t]) \cup {b},
           b \notin TriedBots(run[t]),
           \A c \in TriedBots(run[t]), d \in TriedBots(run[t]) : c = d
    PROVE  Ownership!Grant(t, b)
BY OthersMap, OwnershipOf DEF Ownership!Grant

-----------------------------------------------------------------------------
(* Every step is one of TaskOwnership, or changes nothing of it *)

\* Requests, child tasks and cancelations.
LEMMA ClientMaps ==
    ASSUME Inv, TypeOK', NEW t \in Tasks, Client(t)
    PROVE  Ownership!Next \/ UNCHANGED Ownership!vars
<1> USE DEF entities, handlers, pubsub
<1>0. TypeOK /\ CancelingIsKnown /\ Coherent(request[t], queued[t], summary[t], run[t])
  BY DEF Inv
<1>a. /\ queued[t] \in BOOLEAN /\ summary[t] \in ResultSummary
      /\ run[t] \in [Tries -> RunResult] /\ \A k \in Tries : run[t][k] \in RunResult
  BY <1>0 DEF TypeOK
<1>1. ASSUME NEW p \in Props, ScheduleRequest(t, p)
      PROVE  Ownership!Create(t)
  <2>1. /\ OnlyWrites(t) /\ request[t] = NoProps /\ run' = run
        /\ request'[t] = p /\ queued'[t] = TRUE
    BY <1>0, <1>1 DEF ScheduleRequest, OnlyWrites, TypeOK
  <2>2. QED
    BY <1>0, <2>1, CreateMaps, ConstantsAssumption
<1>2. ASSUME NEW p \in Props, NEW s \in Tasks, ScheduleDeduped(t, p, s)
      PROVE  Ownership!Create(t)
  <2>1. /\ OnlyWrites(t) /\ request[t] = NoProps /\ run' = run
        /\ request'[t] = p /\ queued'[t] = queued[t]
    BY <1>0, <1>2 DEF ScheduleDeduped, OnlyWrites, TypeOK
  <2>2. QED
    BY <1>0, <2>1, CreateMaps, ConstantsAssumption
<1>3. ASSUME NEW k \in Tries, AdoptChild(t, k)
      PROVE  UNCHANGED Ownership!vars
  <2> DEFINE r == [run[t][k] EXCEPT !.silent = FALSE]
  <2>1. /\ OnlyWrites(t) /\ request' = request /\ queued' = queued
        /\ run'[t] = [run[t] EXCEPT ![k] = r] /\ run[t][k].given
    BY <1>0, <1>3 DEF AdoptChild, OnlyWrites, TypeOK
  <2>2. r \in RunResult /\ r.state = run[t][k].state /\ r.bot = run[t][k].bot
    BY <1>a, AgeKeepsRun
  <2> HIDE DEF r
  <2>3. run[t][k].state # "NONE"
    BY <1>0, <1>a, <2>1, GivenRunExists
  <2>4. Owner(run'[t]) = Owner(run[t]) /\ TriedBots(run'[t]) = TriedBots(run[t])
    BY <1>0, <1>a, <2>1, <2>2, <2>3, OwnerAfterWrite
  <2>5. QED
    BY <1>0, <2>1, <2>4, StutterMaps
<1>4. CASE CancelStart(t)
  BY <1>0, <1>4, StutterMaps DEF CancelStart, OnlyWrites
<1>5. CASE CancelTxn(t)
  <2>1. CASE summary[t].state = "PENDING"
    <3>1. queued[t]
      BY <1>0, <1>5, <2>1 DEF CancelTxn, CancelingIsKnown, Coherent
    <3>2. OnlyWrites(t) /\ request' = request /\ run' = run /\ ~queued'[t]
      BY <1>0, <1>5, <2>1 DEF CancelTxn, OnlyWrites, TypeOK
    <3>3. Ownership!Withdraw(t)
      BY <1>0, <3>1, <3>2, WithdrawMaps
    <3>4. QED
      BY <3>3 DEF Ownership!Next
  <2>2. CASE summary[t].state # "PENDING"
    BY <1>0, <1>5, <2>2, StutterMaps DEF CancelTxn, OnlyWrites
  <2>3. QED
    BY <2>1, <2>2
<1>6. QED
  BY <1>1, <1>2, <1>3, <1>4, <1>5 DEF Client, Ownership!Next

\* Polls, updates and errors of bots.
LEMMA BotMaps ==
    ASSUME Inv, TypeOK', NEW t \in Tasks, Bot(t)
    PROVE  Ownership!Next \/ UNCHANGED Ownership!vars
<1> USE DEF entities, handlers, pubsub
<1>0. TypeOK /\ Coherent(request[t], queued[t], summary[t], run[t])
  BY DEF Inv
<1>a. /\ queued[t] \in BOOLEAN /\ summary[t] \in ResultSummary
      /\ run[t] \in [Tries -> RunResult] /\ \A k \in Tries : run[t][k] \in RunResult
  BY <1>0 DEF TypeOK
<1>1. ASSUME NEW b \in Bots, ReapStart(b, t) \/ ReapDenied(b, t)
      PROVE  UNCHANGED Ownership!vars
  BY <1>0, <1>1, StutterMaps DEF ReapStart, ReapDenied, OnlyWrites
<1>2. ASSUME NEW b \in Bots, NEW g \in BOOLEAN, ReapTxn(b, t, g)
      PROVE  Ownership!Grant(t, b)
  <2> DEFINE fresh == [NoRun EXCEPT !.state = "RUNNING", !.bot = b, !.given = g]
  <2>1. /\ summary[t].try + 1 \in Tries /\ queued[t] /\ summary[t].bot # b
        /\ OnlyWrites(t) /\ request' = request /\ ~queued'[t]
        /\ run'[t] = [run[t] EXCEPT ![summary[t].try + 1] = fresh]
    BY <1>0, <1>2 DEF ReapTxn, MayReap, OnlyWrites, TypeOK
  <2>2. fresh \in RunResult /\ fresh.state = "RUNNING" /\ fresh.bot = b
    BY FreshRun
  <2> HIDE DEF fresh
  <2>3. PICK k \in Tries : k = summary[t].try + 1
    BY <2>1
  <2>4. /\ summary[t].try = 0 => k = 1
        /\ summary[t].try = 1 => k = 2
    BY <2>3
  <2>5. /\ run'[t] \in [Tries -> RunResult] /\ run'[t][k] = fresh
        /\ \A n \in Tries \ {k} : run'[t][n] = run[t][n]
    <3>1. run'[t] = [run[t] EXCEPT ![k] = fresh] /\ run[t] \in [Tries -> RunResult]
      BY <1>a, <2>1, <2>3
    <3> HIDE DEF fresh
    <3> QED
      BY <2>2, <3>1
  <2>6. run'[t][k].state = "RUNNING" /\ summary[t].bot # run'[t][k].bot
    BY <2>1, <2>2, <2>5
  <2>7. Granted(run[t], run'[t], run'[t][k].bot)
    <3>1. PICK ns \in [Tries -> RunResult] : ns = run'[t]
      BY <2>5
    <3>2. PICK rs \in [Tries -> RunResult] : rs = run[t]
      BY <1>a
    <3>3. PICK s \in ResultSummary : s = summary[t]
      BY <1>a
    <3>4. Coherent(request[t], queued[t], s, rs) /\ queued[t] = TRUE
      BY <1>0, <1>a, <2>1, <3>2, <3>3
    <3>5. /\ s.try = 0 => k = 1
          /\ s.try = 1 => k = 2
      BY <2>4, <3>3
    <3>6. /\ \A n \in Tries \ {k} : ns[n] = rs[n]
          /\ ns[k].state = "RUNNING" /\ s.bot # ns[k].bot
      BY <2>5, <2>6, <3>1, <3>2, <3>3
    <3>7. Granted(rs, ns, ns[k].bot)
      BY <3>4, <3>5, <3>6, OwnerAfterReap
    <3> QED
      BY <3>1, <3>2, <3>7
  <2>8. run'[t][k].bot = b
    BY <2>2, <2>5
  <2>9. Granted(run[t], run'[t], b)
    BY <2>7, <2>8
  <2>10. QED
    BY <1>0, <2>1, <2>9, GrantMaps DEF Granted
<1>3. ASSUME NEW k \in Tries, NEW r \in RunResult, run[t][k].given,
             r.bot = run[t][k].bot, r.state # "NONE",
             run[t][k].state # "RUNNING" => r.state # "RUNNING",
             OnlyWrites(t), request' = request, queued' = queued,
             run'[t] = [run[t] EXCEPT ![k] = r]
      PROVE  Ownership!Next \/ UNCHANGED Ownership!vars
  <2>1. /\ TriedBots(run'[t]) = TriedBots(run[t])
        /\ r.state = run[t][k].state => Owner(run'[t]) = Owner(run[t])
        /\ run[t][k].state = "RUNNING" => Owner(run[t]) \in Bots
        /\ run[t][k].state = "RUNNING" /\ r.state # "RUNNING" => Owner(run'[t]) = NoBot
        /\ run[t][k].state # "RUNNING" => Owner(run'[t]) = Owner(run[t])
    BY <1>0, <1>a, <1>3, OwnerAfterWrite
  <2>2. CASE run[t][k].state = "RUNNING" /\ r.state # "RUNNING"
    <3>1. Ownership!Close(t)
      BY <1>0, <1>3, <2>1, <2>2, CloseMaps, ConstantsAssumption
    <3>2. QED
      BY <3>1 DEF Ownership!Next
  <2>3. CASE ~(run[t][k].state = "RUNNING" /\ r.state # "RUNNING")
    BY <1>0, <1>3, <2>1, <2>3, StutterMaps
  <2>4. QED
    BY <2>2, <2>3
<1>4. ASSUME NEW k \in Tries, NEW e \in ExitCodes \cup {NoExit},
             NEW timeout \in BOOLEAN, NEW acked \in BOOLEAN,
             BotUpdateTask(t, k, e, timeout, acked)
      PROVE  Ownership!Next \/ UNCHANGED Ownership!vars
  <2> DEFINE r == Updated(run[t][k], e, timeout)
             o == SummaryAfterUpdate(summary[t], r, k, Idempotent(t)).state \in Finished
                  /\ ~acked
             g == [r EXCEPT !.owed = o]
  <2>1. /\ run[t][k].given /\ request' = request /\ queued' = queued
        /\ run' = [run EXCEPT ![t][k] = g]
    BY <1>4 DEF BotUpdateTask
  <2>2. o \in BOOLEAN
    OBVIOUS
  <2> HIDE DEF o
  <2>3. /\ r.bot = run[t][k].bot
        /\ run[t][k].state # "RUNNING" => r.state = run[t][k].state
        /\ run[t][k].state = "RUNNING" => r.state \in {"RUNNING", "TIMED_OUT", "COMPLETED"}
        /\ g \in RunResult /\ g.bot = r.bot /\ g.state = r.state
    BY <1>a, <2>2, UpdatedKeepsDead
  <2> HIDE DEF g, r
  <2>4. run[t][k].state # "NONE"
    BY <1>0, <1>a, <2>1, GivenRunExists
  <2>5. OnlyWrites(t) /\ run'[t] = [run[t] EXCEPT ![k] = g]
    BY <1>0, <2>1 DEF OnlyWrites, TypeOK
  <2>6. QED
    BY <1>3, <2>1, <2>3, <2>4, <2>5
<1>5. ASSUME NEW k \in Tries, BotKillTask(t, k)
      PROVE  Ownership!Next \/ UNCHANGED Ownership!vars
  <2>1. /\ run[t][k].given /\ request' = request /\ queued' = queued
        /\ OnlyWrites(t) /\ run'[t] = [run[t] EXCEPT ![k] = Died(run[t][k])]
    BY <1>0, <1>5 DEF BotKillTask, OnlyWrites, TypeOK
  <2>2. /\ Died(run[t][k]) \in RunResult /\ Died(run[t][k]).state = "BOT_DIED"
        /\ Died(run[t][k]).bot = run[t][k].bot
    BY <1>a, DiedIsDead
  <2>3. QED
    BY <1>3, <2>1, <2>2
<1>6. QED
  BY <1>1, <1>2, <1>4, <1>5 DEF Bot, Ownership!Next

\* Expiration, dead bots and notifications.
LEMMA CronMaps ==
    ASSUME Inv, TypeOK', NEW t \in Tasks, Cron(t)
    PROVE  Ownership!Next \/ UNCHANGED Ownership!vars
<1> USE DEF entities, handlers, pubsub
<1>0. TypeOK /\ Coherent(request[t], queued[t], summary[t], run[t])
  BY DEF Inv
<1>a. /\ queued[t] \in BOOLEAN /\ summary[t] \in ResultSummary
      /\ run[t] \in [Tries -> RunResult] /\ \A k \in Tries : run[t][k] \in RunResult
  BY <1>0 DEF TypeOK
<1>1. CASE ExpireStart(t) \/ HandlePubsubTask(t)
  BY <1>0, <1>1, StutterMaps DEF ExpireStart, HandlePubsubTask, OnlyWrites
<1>2. CASE ExpireTxn(t)
  <2>1. CASE queued[t]
    <3>1. OnlyWrites(t) /\ request' = request /\ run' = run /\ ~queued'[t]
      BY <1>0, <1>2, <2>1 DEF ExpireTxn, OnlyWrites, TypeOK
    <3>2. Ownership!Withdraw(t)
      BY <1>0, <2>1, <3>1, WithdrawMaps
    <3>3. QED
      BY <3>2 DEF Ownership!Next
  <2>2. CASE ~queued[t]
    BY <1>0, <1>2, <2>2, StutterMaps DEF ExpireTxn, OnlyWrites
  <2>3. QED
    BY <2>1, <2>2
<1>3. ASSUME NEW k \in Tries, DeadBotStart(t, k)
      PROVE  UNCHANGED Ownership!vars
  BY <1>0, <1>3, StutterMaps DEF DeadBotStart, OnlyWrites
<1>4. ASSUME NEW k \in Tries, NEW late \in BOOLEAN, DeadBotTxn(t, k, late)
      PROVE  Ownership!Next \/ UNCHANGED Ownership!vars
  <2>1. CASE IsDead(run[t][k])
    <3> DEFINE r == Died(run[t][k])
               retried == /\ summary[t].try = k
                          /\ RetryAllowed(k, run[t][k], late, Idempotent(t))
    <3>1. /\ run[t][k].state = "RUNNING"
          /\ r \in RunResult /\ r.state = "BOT_DIED" /\ r.bot = run[t][k].bot
      BY <1>a, <2>1, DiedIsDead DEF IsDead
    <3>2. /\ OnlyWrites(t) /\ request' = request
          /\ run'[t] = [run[t] EXCEPT ![k] = r]
          /\ queued'[t] = (retried \/ queued[t])
      BY <1>0, <1>4, <2>1 DEF DeadBotTxn, OnlyWrites, TypeOK
    <3>3. retried => k = 1
      BY DEF RetryAllowed
    <3> HIDE DEF r, retried
    <3>4. /\ TriedBots(run'[t]) = TriedBots(run[t])
          /\ Owner(run[t]) = run[t][k].bot /\ Owner(run[t]) \in Bots
          /\ Owner(run'[t]) = NoBot
      BY <1>0, <1>a, <3>1, <3>2, OwnerAfterWrite
    <3>5. CASE retried
      <4>1. TriedBots(run[t]) = {Owner(run[t])}
        BY <1>0, <1>a, <3>1, <3>3, <3>4, <3>5, FirstTryIsAlone
      <4>2. Ownership!OfferAgain(t)
        BY <1>0, <3>2, <3>4, <3>5, <4>1, OfferAgainMaps, ConstantsAssumption
      <4>3. QED
        BY <4>2 DEF Ownership!Next
    <3>6. CASE ~retried
      <4>1. queued'[t] = queued[t]
        BY <1>a, <3>2, <3>6
      <4>2. Ownership!Close(t)
        BY <1>0, <3>2, <3>4, <4>1, CloseMaps, ConstantsAssumption
      <4>3. QED
        BY <4>2 DEF Ownership!Next
    <3>7. QED
      BY <3>5, <3>6
  <2>2. CASE ~IsDead(run[t][k])
    BY <1>0, <1>4, <2>2, StutterMaps DEF DeadBotTxn, OnlyWrites
  <2>3. QED
    BY <2>1, <2>2
<1>5. QED
  BY <1>1, <1>2, <1>3, <1>4 DEF Cron

\* The clock changes no ownership: a run that ages has the bot it had.
LEMMA TimeMaps ==
    ASSUME Inv, TypeOK', NEW t \in Tasks, Time(t)
    PROVE  UNCHANGED Ownership!vars
<1> USE DEF entities, handlers, pubsub
<1>0. TypeOK /\ Coherent(request[t], queued[t], summary[t], run[t])
  BY DEF Inv
<1>a. /\ queued[t] \in BOOLEAN /\ summary[t] \in ResultSummary
      /\ run[t] \in [Tries -> RunResult] /\ \A k \in Tries : run[t][k] \in RunResult
  BY <1>0 DEF TypeOK
<1>1. CASE ExpirationPasses(t) \/ LookupCacheLapses(t)
  BY <1>0, <1>1, StutterMaps DEF ExpirationPasses, LookupCacheLapses, OnlyWrites
<1>2. ASSUME NEW k \in Tries, ToleranceElapses(t, k)
      PROVE  UNCHANGED Ownership!vars
  <2> DEFINE r == [run[t][k] EXCEPT !.silent = TRUE]
  <2>1. /\ OnlyWrites(t) /\ request' = request /\ queued' = queued
        /\ run'[t] = [run[t] EXCEPT ![k] = r] /\ run[t][k].state = "RUNNING"
    BY <1>0, <1>2 DEF ToleranceElapses, OnlyWrites, TypeOK
  <2>2. r \in RunResult /\ r.state = run[t][k].state /\ r.bot = run[t][k].bot
    BY <1>a, AgeKeepsRun
  <2> HIDE DEF r
  <2>3. Owner(run'[t]) = Owner(run[t]) /\ TriedBots(run'[t]) = TriedBots(run[t])
    BY <1>0, <1>a, <2>1, <2>2, OwnerAfterWrite
  <2>4. QED
    BY <1>0, <2>1, <2>3, StutterMaps
<1>3. QED
  BY <1>1, <1>2 DEF Time

\* At first there are no tasks.
LEMMA InitMaps == Init => Ownership!Init
<1> SUFFICES ASSUME Init
             PROVE  Ownership!Init
  OBVIOUS
<1>1. Created = {} /\ Offered = {}
  BY DEF Init, Created, Offered
<1>2. \A t \in Tasks : Owner(run[t]) = NoBot
  BY NewEntities DEF Init, Owner, Tries, MaxTry
<1>3. \A t \in Tasks : TriedBots(run[t]) = {}
  BY DEF Init, TriedBots
<1>4. QED
  BY <1>1, <1>2, <1>3 DEF Ownership!Init, Owners, TriedBy

\* A step of the scheduler is a step of TaskOwnership or changes nothing of it.
LEMMA StepMaps ==
    ASSUME Inv, Inv', [Next]_vars
    PROVE  [Ownership!Next]_Ownership!vars
<1>1. TypeOK /\ TypeOK'
  BY DEF Inv
<1>2. CASE UNCHANGED vars \/ HandlerFails
  <2>1. request' = request /\ queued' = queued /\ run' = run
    BY <1>2 DEF vars, entities, HandlerFails
  <2>2. QED
    BY <2>1 DEF Ownership!vars, Created, Offered, Owners, TriedBy
<1>3. ASSUME NEW t \in Tasks, Client(t) \/ Bot(t) \/ Cron(t) \/ Time(t)
      PROVE  Ownership!Next \/ UNCHANGED Ownership!vars
  BY <1>1, <1>3, ClientMaps, BotMaps, CronMaps, TimeMaps
<1>4. QED
  BY <1>2, <1>3 DEF Next

\* The entities, handlers, caches and retries of the scheduler implement the
\* promise of TaskOwnership: one owner at a time, a second one at most, never
\* the first again.
THEOREM OwnershipIsImplemented == Spec => ImplementsOwnership
<1>1. Init => Ownership!Init
  BY InitMaps
<1>2. Inv /\ Inv' /\ [Next]_vars => [Ownership!Next]_Ownership!vars
  BY StepMaps
<1>3. QED
  BY <1>1, <1>2, InvHolds, PTL DEF Spec, ImplementsOwnership, Ownership!Spec

-----------------------------------------------------------------------------
(* A task that is over stays over *)

\* A task is closed when it is created, neither offered nor owned.
Unowned(t) == t \in Created /\ t \notin Offered /\ Owners[t] = NoBot

LEMMA ClosedIsUnowned == Inv => \A t \in Tasks : Closed(t) <=> Unowned(t)
<1> SUFFICES ASSUME Inv, NEW t \in Tasks
             PROVE  Closed(t) <=> Unowned(t)
  OBVIOUS
<1>1. TypeOK /\ Coherent(request[t], queued[t], summary[t], run[t])
  BY DEF Inv
<1>2. \A k \in Tries : run[t][k].state = "RUNNING" => run[t][k].bot \in Bots
  BY <1>1 DEF Coherent
<1>3. Owner(run[t]) = NoBot <=> \A k \in Tries : run[t][k].state # "RUNNING"
  BY <1>2, ConstantsAssumption DEF Owner, Tries, MaxTry
<1>4. QED
  BY <1>1, <1>3, OwnershipOf DEF Closed, Unowned

\* The abstract specification has no step that reopens such a task, hence no
\* late update, kill, cron job or poll does.
THEOREM NeverReopenedHolds == Spec => NeverReopened
<1>1. (Inv => \A t \in Tasks : Closed(t) <=> Unowned(t))'
  BY ClosedIsUnowned, PTL
<1>2. ASSUME Inv, Inv', [Next]_vars, NEW t \in Tasks, Closed(t)
      PROVE  Closed(t)'
  <2> USE DEF Unowned
  <2>1. Unowned(t)
    BY <1>2, ClosedIsUnowned
  <2>2. Ownership!Next \/ UNCHANGED Ownership!vars
    BY <1>2, StepMaps
  <2>3. Unowned(t)'
    <3>1. CASE UNCHANGED Ownership!vars
      BY <2>1, <3>1 DEF Ownership!vars
    <3>2. ASSUME NEW u \in Tasks, Ownership!Create(u)
          PROVE  Unowned(t)'
      BY <2>1, <3>2 DEF Ownership!Create
    <3>3. ASSUME NEW u \in Tasks, NEW b \in Bots, Ownership!Grant(u, b)
          PROVE  Unowned(t)'
      BY <2>1, <3>3 DEF Ownership!Grant, Owners
    <3>4. ASSUME NEW u \in Tasks, Ownership!Close(u)
          PROVE  Unowned(t)'
      BY <2>1, <3>4 DEF Ownership!Close, Owners
    <3>5. ASSUME NEW u \in Tasks, Ownership!OfferAgain(u)
          PROVE  Unowned(t)'
      BY <2>1, <3>5 DEF Ownership!OfferAgain, Owners
    <3>6. ASSUME NEW u \in Tasks, Ownership!Withdraw(u)
          PROVE  Unowned(t)'
      BY <2>1, <3>6 DEF Ownership!Withdraw
    <3>7. QED
      BY <2>2, <3>1, <3>2, <3>3, <3>4, <3>5, <3>6 DEF Ownership!Next
  <2>4. QED
    BY <1>1, <1>2, <2>3
<1>3. Inv /\ Inv' /\ [Next]_vars
        => [\A t \in Tasks : Closed(t) => Closed(t)']_vars
  BY <1>2
<1>4. QED
  BY <1>3, InvHolds, PTL DEF Spec, NeverReopened

-----------------------------------------------------------------------------
(* 4. The bots *)

-----------------------------------------------------------------------------
(* What a step of the scheduler leaves of a run and of a summary *)

\* A run that died stays dead and one that was updated stays so; it only gets the exit
\* code of success when zero says that a bot has just sent it.
RunEvolves(r, q, zero) ==
    /\ r.state = "BOT_DIED" => q.state = "BOT_DIED"
    /\ r.pinged => q.pinged
    /\ q.exit = 0 => r.exit = 0 \/ zero

\* A summary f that shows success after s took it from a run of ns, or kept it.
ShownBy(s, f, ns) ==
    f.exit = 0 /\ f.dedupedFrom = NoTask =>
        \/ f.try \in Tries /\ ns[f.try].exit = 0
        \/ s.exit = 0 /\ s.dedupedFrom = NoTask /\ f.try = s.try

\* No task goes back to the queue unless it may be run twice or was not started.
Requeues(t) ==
    ~Idempotent(t) /\ ~queued[t] /\ queued'[t] => ~run[t][1].pinged

\* A step in which bots report success for the tries in zeros.
Evolves(zeros) ==
    /\ \A t \in Tasks, k \in Tries : RunEvolves(run[t][k], run'[t][k], <<t, k>> \in zeros)
    /\ \A t \in Tasks : ShownBy(summary[t], summary'[t], run'[t])
    /\ \A t \in Tasks : Requeues(t)

\* No exit code is no success.
LEMMA NoExitIsNoSuccess == NoExit # 0 /\ NoRun.exit # 0 /\ ~NoRun.pinged
BY ConstantsAssumption DEF NoRun

\* A step that writes no entity but the age of runs.
LEMMA NothingEvolves ==
    ASSUME UNCHANGED <<queued, summary>>,
           \A t \in Tasks, k \in Tries : /\ run'[t][k].state = run[t][k].state
                                         /\ run'[t][k].exit = run[t][k].exit
                                         /\ run'[t][k].pinged = run[t][k].pinged
    PROVE  Evolves({})
BY DEF Evolves, RunEvolves, ShownBy, Requeues

\* A step that writes one run of a task and perhaps copies it into its summary.
LEMMA RunWriteEvolves ==
    ASSUME Inv, NEW t \in Tasks, NEW k \in Tries, NEW r, NEW f, NEW zeros,
           run' = [run EXCEPT ![t][k] = r], summary' = [summary EXCEPT ![t] = f],
           RunEvolves(run[t][k], r, <<t, k>> \in zeros),
           \/ f.exit = NoExit
           \/ f = summary[t]
           \/ f.try = k /\ f.exit = r.exit,
           f.dedupedFrom = summary[t].dedupedFrom, f.try \in Nat,
           \A u \in Tasks : Requeues(u)
    PROVE  Evolves(zeros)
<1>0. TypeOK
  BY DEF Inv
<1>1. /\ run'[t][k] = r
      /\ \A n \in Tries \ {k} : run'[t][n] = run[t][n]
      /\ \A u \in Tasks \ {t} : run'[u] = run[u] /\ summary'[u] = summary[u]
      /\ summary'[t] = f
  BY <1>0 DEF TypeOK
<1>2. \A u \in Tasks, n \in Tries : RunEvolves(run[u][n], run'[u][n], <<u, n>> \in zeros)
  BY <1>1 DEF RunEvolves
<1>3. \A u \in Tasks : ShownBy(summary[u], summary'[u], run'[u])
  BY <1>1, NoExitIsNoSuccess DEF ShownBy
<1>4. QED
  BY <1>2, <1>3 DEF Evolves

\* A step that writes one summary and at most queues a task that was never run.
LEMMA SummaryWriteEvolves ==
    ASSUME Inv, NEW t \in Tasks, NEW f, run' = run,
           summary' = [summary EXCEPT ![t] = f],
           ShownBy(summary[t], f, run[t]),
           \A u \in Tasks : Requeues(u)
    PROVE  Evolves({})
<1>0. TypeOK
  BY DEF Inv
<1>1. summary'[t] = f /\ \A u \in Tasks \ {t} : summary'[u] = summary[u]
  BY <1>0 DEF TypeOK
<1>2. \A u \in Tasks : ShownBy(summary[u], summary'[u], run'[u])
  BY <1>1 DEF ShownBy
<1>3. QED
  BY <1>2 DEF Evolves, RunEvolves

\* Requests, cancelations and children report nothing.
LEMMA ClientEvolves ==
    ASSUME Inv, NEW t \in Tasks, Client(t)
    PROVE  Evolves({})
<1>0. TypeOK /\ Coherent(request[t], queued[t], summary[t], run[t])
  BY DEF Inv
<1>1. ASSUME NEW p \in Props, ScheduleRequest(t, p)
      PROVE  Evolves({})
  <2>1. run[t][1] = NoRun
    BY <1>0, <1>1 DEF ScheduleRequest, Coherent, Tries, MaxTry
  <2>2. \A u \in Tasks : Requeues(u)
    BY <1>0, <1>1, <2>1, NoExitIsNoSuccess DEF ScheduleRequest, Requeues, TypeOK
  <2>3. QED
    BY <1>1, <2>2 DEF ScheduleRequest, Evolves, RunEvolves, ShownBy
<1>2. ASSUME NEW p \in Props, NEW s \in Tasks, ScheduleDeduped(t, p, s)
      PROVE  Evolves({})
  <2>1. Reused(s).dedupedFrom # NoTask
    BY ConstantsAssumption DEF Reused
  <2>2. /\ run' = run /\ summary' = [summary EXCEPT ![t] = Reused(s)]
        /\ \A u \in Tasks : Requeues(u)
    BY <1>2 DEF ScheduleDeduped, Requeues
  <2>3. ShownBy(summary[t], Reused(s), run[t])
    BY <2>1 DEF ShownBy
  <2>4. QED
    BY <2>2, <2>3, SummaryWriteEvolves
<1>3. ASSUME NEW k \in Tries, AdoptChild(t, k)
      PROVE  Evolves({})
  <2>1. \A u \in Tasks, n \in Tries : /\ run'[u][n].state = run[u][n].state
                                      /\ run'[u][n].exit = run[u][n].exit
                                      /\ run'[u][n].pinged = run[u][n].pinged
    BY <1>0, <1>3 DEF AdoptChild, TypeOK, RunResult
  <2>2. QED
    BY <1>3, <2>1, NothingEvolves DEF AdoptChild
<1>4. CASE CancelStart(t)
  BY <1>4, NothingEvolves DEF CancelStart, entities
<1>5. CASE CancelTxn(t)
  <2>1. CASE summary[t].state = "PENDING"
    <3> DEFINE f == [summary[t] EXCEPT !.state = "CANCELED"]
    <3>1. /\ run' = run /\ summary' = [summary EXCEPT ![t] = f]
          /\ \A u \in Tasks : Requeues(u)
      BY <1>0, <1>5, <2>1 DEF CancelTxn, Requeues, TypeOK
    <3>2. ShownBy(summary[t], f, run[t])
      BY <1>0 DEF ShownBy, TypeOK, ResultSummary
    <3>3. QED
      BY <3>1, <3>2, SummaryWriteEvolves
  <2>2. CASE summary[t].state # "PENDING"
    BY <1>5, <2>2, NothingEvolves DEF CancelTxn
  <2>3. QED
    BY <2>1, <2>2
<1>6. QED
  BY <1>1, <1>2, <1>3, <1>4, <1>5 DEF Client

\* A bot that is given a try, or refused one, reports nothing.
LEMMA ReapEvolves ==
    ASSUME Inv, NEW t \in Tasks, NEW b \in Bots,
           \/ ReapStart(b, t) \/ ReapDenied(b, t)
           \/ \E delivered \in BOOLEAN : ReapTxn(b, t, delivered)
    PROVE  Evolves({})
<1>0. TypeOK /\ Coherent(request[t], queued[t], summary[t], run[t])
  BY DEF Inv
<1>1. CASE ReapStart(b, t) \/ ReapDenied(b, t)
  BY <1>1, NothingEvolves DEF ReapStart, ReapDenied, entities
<1>2. ASSUME NEW delivered \in BOOLEAN, ReapTxn(b, t, delivered)
      PROVE  Evolves({})
  <2> DEFINE k == summary[t].try + 1
             r == [NoRun EXCEPT !.state = "RUNNING", !.bot = b, !.given = delivered]
             f == FromRunResult(summary[t], r, k, Idempotent(t))
  <2>1. /\ k \in Tries
        /\ run' = [run EXCEPT ![t][k] = r]
        /\ summary' = [summary EXCEPT ![t] = f]
        /\ queued' = [queued EXCEPT ![t] = FALSE]
    BY <1>2 DEF ReapTxn
  <2>2. r.exit = NoExit
    BY DEF NoRun
  <2>3. f.exit = NoExit /\ f.try = k /\ f.dedupedFrom = summary[t].dedupedFrom
    BY <2>2 DEF FromRunResult
  <2>4. run[t][k] = NoRun
    BY <1>0, <2>1 DEF Coherent, TypeOK, ResultSummary, Tries, MaxTry
  <2>5. RunEvolves(run[t][k], r, <<t, k>> \in {})
    BY <2>2, <2>4, NoExitIsNoSuccess, NewEntities DEF RunEvolves
  <2>6. (\A u \in Tasks : Requeues(u)) /\ k \in Nat
    BY <1>0, <2>1 DEF Requeues, TypeOK, Tries, MaxTry
  <2> HIDE DEF k, r, f
  <2>7. QED
    BY <2>1, <2>3, <2>5, <2>6, RunWriteEvolves
<1>3. QED
  BY <1>1, <1>2

\* A try that is killed reports nothing more than it has.
LEMMA KillEvolves ==
    ASSUME Inv, NEW t \in Tasks, NEW k \in Tries, BotKillTask(t, k)
    PROVE  Evolves({})
<1> DEFINE r == Died(run[t][k])
           f == FromRunResult(summary[t], r, k, FALSE)
<1>0. TypeOK
  BY DEF Inv
<1>1. /\ run' = [run EXCEPT ![t][k] = r]
      /\ summary' = [summary EXCEPT ![t] = f]
      /\ queued' = queued
  BY <1>0 DEF BotKillTask, TypeOK
<1>2. RunEvolves(run[t][k], r, <<t, k>> \in {})
  BY <1>0 DEF RunEvolves, Died, TypeOK, RunResult
<1>3. f.try = k /\ f.exit = r.exit /\ f.dedupedFrom = summary[t].dedupedFrom /\ k \in Nat
  BY DEF FromRunResult, Tries, MaxTry
<1> HIDE DEF r, f
<1>4. QED
  BY <1>1, <1>2, <1>3, RunWriteEvolves DEF Requeues

\* An update reports success if its exit code says so.
LEMMA UpdateEvolves ==
    ASSUME Inv, NEW t \in Tasks, NEW k \in Tries, NEW e \in ExitCodes \cup {NoExit},
           NEW timeout \in BOOLEAN, NEW acked \in BOOLEAN,
           BotUpdateTask(t, k, e, timeout, acked)
    PROVE  /\ Evolves(IF e = 0 THEN {<<t, k>>} ELSE {})
           /\ run'[t][k].pinged
<1> DEFINE r == Updated(run[t][k], e, timeout)
           f == SummaryAfterUpdate(summary[t], r, k, Idempotent(t))
           g == [r EXCEPT !.owed = f.state \in Finished /\ ~acked]
           zeros == IF e = 0 THEN {<<t, k>>} ELSE {}
<1>0. TypeOK /\ run[t][k] \in RunResult /\ summary[t] \in ResultSummary
  BY DEF Inv, TypeOK
<1>1. /\ run' = [run EXCEPT ![t][k] = g]
      /\ summary' = [summary EXCEPT ![t] = f]
      /\ queued' = queued
  BY DEF BotUpdateTask
<1>2. r \in RunResult
  BY <1>0, UpdatedKeepsDead
<1>3. g.state = r.state /\ g.exit = r.exit /\ g.pinged = r.pinged
  BY <1>2 DEF RunResult
<1>4. /\ r.pinged
      /\ run[t][k].state = "BOT_DIED" => r.state = "BOT_DIED"
      /\ r.exit \in {run[t][k].exit, e}
  BY <1>0 DEF Updated, RunResult
<1>5. \/ f = summary[t]
      \/ f.try = k /\ f.exit = g.exit
  BY <1>3 DEF SummaryAfterUpdate, FromRunResult
<1>6. f.dedupedFrom = summary[t].dedupedFrom /\ f.try \in Nat
  BY <1>0 DEF SummaryAfterUpdate, FromRunResult, ResultSummary, Tries, MaxTry
<1> HIDE DEF r, f, g
<1>7. RunEvolves(run[t][k], g, <<t, k>> \in zeros)
  BY <1>3, <1>4 DEF RunEvolves
<1>8. run'[t][k].pinged
  BY <1>0, <1>1, <1>3, <1>4 DEF TypeOK
<1> HIDE DEF zeros
<1>9. Evolves(zeros)
  BY <1>1, <1>5, <1>6, <1>7, RunWriteEvolves DEF Requeues
<1>10. QED
  BY <1>8, <1>9 DEF zeros

\* The cron jobs and the task queue report nothing; a first try is only repeated
\* if it was never updated.
LEMMA CronEvolves ==
    ASSUME Inv, NEW t \in Tasks, Cron(t)
    PROVE  Evolves({})
<1>0. /\ TypeOK /\ Coherent(request[t], queued[t], summary[t], run[t])
      /\ summary[t] \in ResultSummary
  BY DEF Inv, TypeOK
<1>1. CASE ExpireStart(t) \/ HandlePubsubTask(t)
  BY <1>1, NothingEvolves DEF ExpireStart, HandlePubsubTask, entities
<1>2. CASE ExpireTxn(t)
  <2>1. CASE queued[t]
    <3> DEFINE f == ExpiredSummary(summary[t], run[t], Idempotent(t))
    <3>1. /\ run' = run /\ summary' = [summary EXCEPT ![t] = f]
          /\ \A u \in Tasks : Requeues(u)
      BY <1>0, <1>2, <2>1 DEF ExpireTxn, Requeues, TypeOK
    <3>2. ShownBy(summary[t], f, run[t])
      <4>1. CASE summary[t].try = 0
        BY <1>0, <4>1 DEF ExpiredSummary, ShownBy, ResultSummary
      <4>2. CASE summary[t].try # 0
        <5>1. summary[t].try \in Tries
          BY <1>0, <4>2 DEF ResultSummary, Tries, MaxTry
        <5>2. f.try = summary[t].try /\ f.exit = run[t][summary[t].try].exit
          BY <4>2 DEF ExpiredSummary, FromRunResult
        <5>3. QED
          BY <5>1, <5>2 DEF ShownBy
      <4>3. QED
        BY <4>1, <4>2
    <3>3. QED
      BY <3>1, <3>2, SummaryWriteEvolves
  <2>2. CASE ~queued[t]
    BY <1>2, <2>2, NothingEvolves DEF ExpireTxn
  <2>3. QED
    BY <2>1, <2>2
<1>3. ASSUME NEW k \in Tries, DeadBotStart(t, k)
      PROVE  Evolves({})
  BY <1>3, NothingEvolves DEF DeadBotStart, entities
<1>4. ASSUME NEW k \in Tries, NEW late \in BOOLEAN, DeadBotTxn(t, k, late)
      PROVE  Evolves({})
  <2>1. CASE IsDead(run[t][k])
    <3> DEFINE r == Died(run[t][k])
               retried == /\ summary[t].try = k
                          /\ RetryAllowed(k, run[t][k], late, Idempotent(t))
               f == IF summary[t].try # k THEN summary[t]
                    ELSE IF retried THEN ResetToPending(summary[t])
                    ELSE FromRunResult(summary[t], r, k, Idempotent(t))
    <3>1. /\ run' = [run EXCEPT ![t][k] = r]
          /\ summary' = [summary EXCEPT ![t] = f]
          /\ queued' = [queued EXCEPT ![t] = retried \/ queued[t]]
      BY <1>0, <1>4, <2>1 DEF DeadBotTxn, TypeOK
    <3>2. RunEvolves(run[t][k], r, <<t, k>> \in {})
      BY <1>0 DEF RunEvolves, Died, TypeOK, RunResult
    <3>3. /\ \/ f.exit = NoExit \/ f = summary[t]
             \/ f.try = k /\ f.exit = r.exit
          /\ f.dedupedFrom = summary[t].dedupedFrom /\ f.try \in Nat
      BY <1>0 DEF ResetToPending, FromRunResult, ResultSummary, Tries, MaxTry
    <3>4. \A u \in Tasks : Requeues(u)
      <4>1. retried => Idempotent(t) \/ ~run[t][1].pinged
        BY DEF RetryAllowed
      <4> HIDE DEF retried
      <4>2. QED
        BY <1>0, <3>1, <4>1 DEF Requeues, TypeOK
    <3> HIDE DEF r, f, retried
    <3>5. QED
      BY <3>1, <3>2, <3>3, <3>4, RunWriteEvolves
  <2>2. CASE ~IsDead(run[t][k])
    BY <1>4, <2>2, NothingEvolves DEF DeadBotTxn
  <2>3. QED
    BY <2>1, <2>2
<1>5. QED
  BY <1>1, <1>2, <1>3, <1>4 DEF Cron

\* Time reports nothing.
LEMMA TimeEvolves ==
    ASSUME Inv, NEW t \in Tasks, Time(t)
    PROVE  Evolves({})
<1>0. TypeOK
  BY DEF Inv
<1>1. CASE ExpirationPasses(t) \/ LookupCacheLapses(t)
  BY <1>1, NothingEvolves DEF ExpirationPasses, LookupCacheLapses, entities
<1>2. ASSUME NEW k \in Tries, ToleranceElapses(t, k)
      PROVE  Evolves({})
  <2>1. \A u \in Tasks, n \in Tries : /\ run'[u][n].state = run[u][n].state
                                      /\ run'[u][n].exit = run[u][n].exit
                                      /\ run'[u][n].pinged = run[u][n].pinged
    BY <1>0, <1>2 DEF ToleranceElapses, TypeOK, RunResult
  <2>2. QED
    BY <1>2, <2>1, NothingEvolves DEF ToleranceElapses
<1>3. QED
  BY <1>1, <1>2 DEF Time

-----------------------------------------------------------------------------
(* The invariant of the bots *)

\* A process that does not poll has a task.
ActiveHasTask == \A b \in Bots : bot[b].phase # "polling" => bot[b].task \in Tasks

\* The exit code of success is only ever said of user code that was started: by a
\* process, in a request, in a run and in a summary.
ProcessIsBacked(p) ==
    p.phase = "running" \/ (p.phase = "finishing" /\ p.exit = 0)
        => <<p.task, p.try>> \in executed

RequestIsBacked(m) ==
    m.kind = "task_update" /\ m.exit = 0 => <<m.task, m.try>> \in executed

EntitiesAreBacked ==
    /\ \A t \in Tasks, k \in Tries : run[t][k].exit = 0 => <<t, k>> \in executed
    /\ \A t \in Tasks : summary[t].exit = 0 /\ summary[t].dedupedFrom = NoTask
                          => <<t, summary[t].try>> \in executed

\* User code that was started was announced; a try that was disowned is dead.
HistoryIsSeen ==
    /\ \A t \in Tasks, k \in Tries : <<t, k>> \in executed => run[t][k].pinged
    /\ \A t \in Tasks, k \in Tries : <<t, k>> \in disowned => run[t][k].state = "BOT_DIED"

ProtocolInv ==
    /\ TypeOKBots
    /\ ActiveHasTask
    /\ \A b \in Bots : ProcessIsBacked(bot[b])
    /\ \A m \in posts : RequestIsBacked(m)
    /\ EntitiesAreBacked
    /\ HistoryIsSeen

\* What a step of the scheduler does to the entities keeps them in line with what
\* the bots did.
LEMMA EvolutionIsBacked ==
    ASSUME Evolves(executed), EntitiesAreBacked, HistoryIsSeen,
           executed \subseteq executed',
           \A t \in Tasks, k \in Tries :
              <<t, k>> \in executed' \ executed => run'[t][k].pinged,
           \A t \in Tasks, k \in Tries :
              <<t, k>> \in disowned' \ disowned => run'[t][k].state = "BOT_DIED"
    PROVE  EntitiesAreBacked' /\ HistoryIsSeen'
<1>1. \A t \in Tasks, k \in Tries : run'[t][k].exit = 0 => <<t, k>> \in executed'
  BY DEF Evolves, RunEvolves, EntitiesAreBacked
<1>2. \A t \in Tasks : summary'[t].exit = 0 /\ summary'[t].dedupedFrom = NoTask
                          => <<t, summary'[t].try>> \in executed'
  BY <1>1 DEF Evolves, ShownBy, EntitiesAreBacked
<1>3. \A t \in Tasks, k \in Tries : <<t, k>> \in executed' => run'[t][k].pinged
  BY DEF Evolves, RunEvolves, HistoryIsSeen
<1>4. \A t \in Tasks, k \in Tries : <<t, k>> \in disowned' => run'[t][k].state = "BOT_DIED"
  BY DEF Evolves, RunEvolves, HistoryIsSeen
<1>5. QED
  BY <1>1, <1>2, <1>3, <1>4 DEF EntitiesAreBacked, HistoryIsSeen

\* Reports about tries whose user code was started.
LEMMA EvolvesMonotone ==
    ASSUME NEW zeros, Evolves(zeros), zeros \subseteq executed
    PROVE  Evolves(executed)
BY DEF Evolves, RunEvolves

\* A step that leaves the scheduler alone.
LEMMA StutterEvolves ==
    ASSUME UNCHANGED vars
    PROVE  Evolves(executed)
<1>1. Evolves({})
  BY NothingEvolves DEF vars, entities
<1>2. QED
  BY <1>1, EvolvesMonotone

\* An update without exit code is a step of the scheduler, and the run is touched.
LEMMA PingIsAStep ==
    ASSUME Inv, NEW t \in Tasks, NEW k \in Tries, NEW acked \in BOOLEAN,
           BotUpdateTask(t, k, NoExit, FALSE, acked)
    PROVE  Next /\ Evolves(executed) /\ run'[t][k].pinged
<1>1. NoExit \in ExitCodes \cup {NoExit} /\ FALSE \in BOOLEAN
  OBVIOUS
<1>2. Evolves({}) /\ run'[t][k].pinged
  BY <1>1, UpdateEvolves, NoExitIsNoSuccess
<1>3. Next
  BY <1>1 DEF Next, Bot
<1>4. QED
  BY <1>2, <1>3, EvolvesMonotone

\* So is an update with an exit code that is backed.
LEMMA OutcomeIsAStep ==
    ASSUME Inv, NEW t \in Tasks, NEW k \in Tries, NEW e \in ExitCodes \cup {NoExit},
           NEW timeout \in BOOLEAN, NEW acked \in BOOLEAN,
           BotUpdateTask(t, k, e, timeout, acked), e = 0 => <<t, k>> \in executed
    PROVE  Next /\ Evolves(executed)
<1>1. Evolves(IF e = 0 THEN {<<t, k>>} ELSE {})
  BY UpdateEvolves
<1>2. Next
  BY DEF Next, Bot
<1>3. QED
  BY <1>1, <1>2, EvolvesMonotone

\* A task_error is a step of the scheduler, which kills the run.
LEMMA ErrorIsAStep ==
    ASSUME Inv, NEW t \in Tasks, NEW k \in Tries, BotKillTask(t, k)
    PROVE  Next /\ Evolves(executed) /\ run'[t][k].state = "BOT_DIED"
<1>1. Evolves(executed)
  BY KillEvolves, EvolvesMonotone
<1>2. Next
  BY DEF Next, Bot
<1>3. run'[t][k].state = "BOT_DIED"
  BY DEF BotKillTask, Died, Inv, TypeOK, RunResult
<1>4. QED
  BY <1>1, <1>2, <1>3

\* So is a poll.
LEMMA PollIsAStep ==
    ASSUME Inv, NEW t \in Tasks, NEW b \in Bots,
           \/ ReapStart(b, t) \/ ReapDenied(b, t)
           \/ \E delivered \in BOOLEAN : ReapTxn(b, t, delivered)
    PROVE  Next /\ Evolves(executed)
<1>1. Evolves(executed)
  BY ReapEvolves, EvolvesMonotone
<1>2. Next
  BY DEF Next, Bot
<1>3. QED
  BY <1>1, <1>2

\* The requests a bot may send.
Requests ==
    [kind : {"task_update", "task_error"}, task : Tasks, try : Tries,
     exit : ExitCodes \cup {NoExit}, timeout : BOOLEAN]

\* The part of the invariant that is about processes and requests.
BotsAreSound ==
    /\ TypeOKBots
    /\ ActiveHasTask
    /\ \A b \in Bots : ProcessIsBacked(bot[b])
    /\ \A m \in posts : RequestIsBacked(m)

\* Bot b moves to a sound process, and the new requests are sound.
Moves(b) ==
    /\ bot' \in [Bots -> Process]
    /\ \A c \in Bots \ {b} : bot'[c] = bot[c]
    /\ bot'[b].phase # "polling" => bot'[b].task \in Tasks
    /\ bot'[b].phase = "running" \/ (bot'[b].phase = "finishing" /\ bot'[b].exit = 0)
          => <<bot'[b].task, bot'[b].try>> \in executed'
    /\ \A m \in posts' \ posts :
          /\ m \in Requests
          /\ m.kind = "task_update" /\ m.exit = 0 => <<m.task, m.try>> \in executed'
    /\ executed \subseteq executed'
    /\ executed' \subseteq Tasks \X Tries /\ disowned' \subseteq Tasks \X Tries

LEMMA MovesAreSound ==
    ASSUME BotsAreSound, NEW b \in Bots, Moves(b)
    PROVE  BotsAreSound'
<1>2. TypeOKBots'
  BY DEF BotsAreSound, TypeOKBots, Requests, Moves
<1>3. ActiveHasTask'
  BY DEF BotsAreSound, ActiveHasTask, Moves
<1>4. \A c \in Bots : ProcessIsBacked(bot[c])'
  BY DEF BotsAreSound, ProcessIsBacked, Moves
<1>5. \A m \in posts' : RequestIsBacked(m)'
  BY DEF BotsAreSound, RequestIsBacked, Moves
<1>6. QED
  BY <1>2, <1>3, <1>4, <1>5 DEF BotsAreSound

\* A step in which no bot moves.
LEMMA BotsStandStill ==
    ASSUME BotsAreSound, UNCHANGED botVars
    PROVE  BotsAreSound'
BY DEF BotsAreSound, botVars, TypeOKBots, ActiveHasTask, ProcessIsBacked, RequestIsBacked

\* A poller is a process; so is what becomes of one that has a task, and its
\* requests are typed.
LEMMA ProcessesAreTyped ==
    /\ Poller \in Process /\ Poller.phase = "polling" /\ Poller.exit = NoExit
    /\ \A p \in Process : p.task \in Tasks => {Update(p)} \subseteq Requests
                                              /\ {Error(p)} \subseteq Requests
    /\ \A p \in Process : Update(p).task = p.task /\ Update(p).try = p.try
                          /\ Update(p).exit = p.exit /\ Error(p).kind = "task_error"
BY DEF Poller, Process, Requests, Update, Error, Tries, MaxTry

\* What a step of the composition is to the scheduler and to its bots.
StepIsSound ==
    /\ [Next]_vars /\ Evolves(executed)
    /\ BotsAreSound'
    /\ executed \subseteq executed'
    /\ \A t \in Tasks, k \in Tries : <<t, k>> \in executed' \ executed => run'[t][k].pinged
    /\ \A t \in Tasks, k \in Tries :
          <<t, k>> \in disowned' \ disowned => run'[t][k].state = "BOT_DIED"

\* bot_main.
LEMMA BotMainIsSound ==
    ASSUME Inv, BotsAreSound, NEW b \in Bots, BotMain(b)
    PROVE  StepIsSound
<1> USE ProcessesAreTyped
<1> DEFINE p == bot[b]
<1>0. /\ p \in Process
      /\ p.phase # "polling" => p.task \in Tasks
      /\ p.try \in Tries
      /\ executed \subseteq Tasks \X Tries /\ disowned \subseteq Tasks \X Tries
  BY DEF BotsAreSound, TypeOKBots, ActiveHasTask, Process
<1>1. ASSUME NEW t \in Tasks, Poll(b, t) \/ ManifestIsLost(b, t)
      PROVE  StepIsSound
  <2>1. Next /\ Evolves(executed)
    <3>1. ReapStart(b, t) \/ ReapTxn(b, t, FALSE)
      BY <1>1 DEF Poll, ManifestIsLost
    <3>2. QED
      BY <3>1, PollIsAStep
  <2>2. UNCHANGED botVars
    BY <1>1 DEF Poll, ManifestIsLost
  <2>3. QED
    BY <2>1, <2>2, BotsStandStill DEF StepIsSound, botVars
<1>2. ASSUME NEW t \in Tasks, RunManifest(b, t)
      PROVE  StepIsSound
  <2> DEFINE q == [Poller EXCEPT !.phase = "announcing", !.task = t,
                                 !.try = summary[t].try + 1]
  <2>1. ReapTxn(b, t, TRUE) /\ Becomes(b, q, {Update(q)}) /\ UNCHANGED <<executed, disowned>>
    BY <1>2 DEF RunManifest
  <2>2. Next /\ Evolves(executed)
    BY <2>1, PollIsAStep
  <2>3. summary[t].try + 1 \in Tries
    BY <2>1 DEF ReapTxn
  <2>4. q \in Process /\ q.phase = "announcing" /\ q.task = t /\ q.exit = NoExit
    BY <2>3 DEF Process, Poller
  <2>5. \A m \in {Update(q)} : m.exit # 0
    BY <2>4, NoExitIsNoSuccess
  <2>6. executed' = executed /\ disowned' = disowned /\ {Update(q)} \subseteq Requests
    BY <2>1, <2>4
  <2> HIDE DEF q
  <2>7. BotsAreSound'
    <3>1. Moves(b)
      BY <1>0, <2>1, <2>4, <2>5, <2>6 DEF Moves, Becomes, BotsAreSound, TypeOKBots
    <3>2. QED
      BY <3>1, MovesAreSound
  <2>8. QED
    BY <2>1, <2>2, <2>7 DEF StepIsSound
<1>3. CASE TaskErrorIsAnswered(b)
  <2>1. /\ p.phase = "failing" /\ Becomes(b, Poller, {}) /\ executed' = executed
        /\ disowned' = disowned \cup {<<p.task, p.try>>}
        /\ \/ BotKillTask(p.task, p.try)
           \/ run[p.task][p.try].state = "BOT_DIED" /\ UNCHANGED vars
    BY <1>3 DEF TaskErrorIsAnswered
  <2>2. p.task \in Tasks
    BY <1>0, <2>1
  <2>3. /\ [Next]_vars /\ Evolves(executed)
        /\ run'[p.task][p.try].state = "BOT_DIED"
    <3>1. CASE BotKillTask(p.task, p.try)
      BY <1>0, <2>2, <3>1, ErrorIsAStep
    <3>2. CASE run[p.task][p.try].state = "BOT_DIED" /\ UNCHANGED vars
      BY <3>2, StutterEvolves DEF vars, entities
    <3>3. QED
      BY <2>1, <3>1, <3>2
  <2>4. BotsAreSound'
    <3>1. Moves(b)
      BY <1>0, <2>1, <2>2 DEF Moves, Becomes, BotsAreSound, TypeOKBots
    <3>2. QED
      BY <3>1, MovesAreSound
  <2>5. \A t \in Tasks, k \in Tries :
           <<t, k>> \in disowned' \ disowned => run'[t][k].state = "BOT_DIED"
    BY <2>1, <2>3
  <2>6. QED
    BY <2>1, <2>3, <2>4, <2>5 DEF StepIsSound
<1>4. CASE BotRestarts(b)
  <2>1. Becomes(b, Poller, {}) /\ UNCHANGED <<vars, executed, disowned>>
    BY <1>4 DEF BotRestarts
  <2>2. BotsAreSound'
    <3>1. Moves(b)
      BY <1>0, <2>1 DEF Moves, Becomes, BotsAreSound, TypeOKBots
    <3>2. QED
      BY <3>1, MovesAreSound
  <2>3. QED
    BY <2>1, <2>2, StutterEvolves DEF StepIsSound
<1>5. QED
  BY <1>1, <1>2, <1>3, <1>4 DEF BotMain

\* task_runner.
LEMMA TaskRunnerIsSound ==
    ASSUME Inv, BotsAreSound, NEW b \in Bots, TaskRunner(b)
    PROVE  StepIsSound
<1> USE ProcessesAreTyped
<1> DEFINE p == bot[b]
<1>0. /\ p \in Process
      /\ p.phase # "polling" => p.task \in Tasks
      /\ p.try \in Tries /\ p.exit \in ExitCodes \cup {NoExit} /\ p.timeout \in BOOLEAN
      /\ executed \subseteq Tasks \X Tries /\ disowned \subseteq Tasks \X Tries
      /\ ProcessIsBacked(p)
  BY DEF BotsAreSound, TypeOKBots, ActiveHasTask, Process
<1>1. CASE StartCommand(b)
  <2> DEFINE q == [p EXCEPT !.phase = "running"]
  <2>1. /\ p.phase = "announcing" /\ BotUpdateTask(p.task, p.try, NoExit, FALSE, TRUE)
        /\ Becomes(b, q, {}) /\ disowned' = disowned
        /\ executed' = executed \cup {<<p.task, p.try>>}
    BY <1>1 DEF StartCommand, MayStart
  <2>2. p.task \in Tasks
    BY <1>0, <2>1
  <2>3. Next /\ Evolves(executed) /\ run'[p.task][p.try].pinged
    BY <1>0, <2>1, <2>2, PingIsAStep
  <2>4. q \in Process /\ q.phase = "running" /\ q.task = p.task /\ q.try = p.try
    BY <1>0 DEF Process
  <2> HIDE DEF q
  <2>5. Moves(b)
    BY <1>0, <2>1, <2>2, <2>4 DEF Moves, Becomes, BotsAreSound, TypeOKBots
  <2>6. \A t \in Tasks, k \in Tries : <<t, k>> \in executed' \ executed => run'[t][k].pinged
    BY <2>1, <2>3
  <2>7. QED
    BY <2>1, <2>3, <2>5, <2>6, MovesAreSound DEF StepIsSound
<1>2. ASSUME NEW exit \in ExitCodes, CommandFailsToStart(b, exit)
      PROVE  StepIsSound
  <2> DEFINE q == [p EXCEPT !.phase = "finishing", !.exit = exit]
  <2>1. /\ p.phase = "announcing" /\ BotUpdateTask(p.task, p.try, NoExit, FALSE, TRUE)
        /\ exit # 0
        /\ Becomes(b, q, {Update(q)}) /\ disowned' = disowned /\ executed' = executed
    BY <1>2 DEF CommandFailsToStart, StartFailureCodes
  <2>2. p.task \in Tasks
    BY <1>0, <2>1
  <2>3. Next /\ Evolves(executed)
    BY <1>0, <2>1, <2>2, PingIsAStep
  <2>4. /\ q \in Process /\ q.phase = "finishing" /\ q.exit = exit /\ q.task = p.task
        /\ Update(q).exit = exit /\ {Update(q)} \subseteq Requests
    <3>1. q \in Process /\ q.phase = "finishing" /\ q.exit = exit /\ q.task = p.task
      BY <1>0 DEF Process
    <3> HIDE DEF q
    <3>2. QED
      BY <2>2, <3>1
  <2> HIDE DEF q
  <2>5. Moves(b)
    BY <1>0, <2>1, <2>2, <2>4 DEF Moves, Becomes, BotsAreSound, TypeOKBots
  <2>6. QED
    BY <2>1, <2>3, <2>5, MovesAreSound DEF StepIsSound
<1>3. CASE PingIsAnswered(b)
  <2>1. /\ p.phase = "running" /\ BotUpdateTask(p.task, p.try, NoExit, FALSE, TRUE)
        /\ UNCHANGED botVars
    BY <1>3 DEF PingIsAnswered
  <2>2. Next /\ Evolves(executed)
    BY <1>0, <2>1, PingIsAStep
  <2>3. QED
    BY <2>1, <2>2, BotsStandStill DEF StepIsSound, botVars
<1>4. ASSUME NEW exit \in ExitCodes, NEW timeout \in BOOLEAN, NEW broken \in BOOLEAN,
             CommandEnds(b, exit, timeout, broken)
      PROVE  StepIsSound
  <2> DEFINE q == [p EXCEPT !.phase = "finishing", !.exit = exit,
                            !.timeout = timeout, !.broken = broken]
  <2>1. /\ p.phase = "running" /\ Becomes(b, q, {Update(q)})
        /\ UNCHANGED vars /\ disowned' = disowned /\ executed' = executed
    BY <1>4 DEF CommandEnds
  <2>2. p.task \in Tasks /\ <<p.task, p.try>> \in executed
    BY <1>0, <2>1 DEF ProcessIsBacked
  <2>3. /\ q \in Process /\ q.phase = "finishing" /\ q.task = p.task /\ q.try = p.try
        /\ Update(q).task = p.task /\ Update(q).try = p.try
        /\ {Update(q)} \subseteq Requests
    <3>1. q \in Process /\ q.phase = "finishing" /\ q.task = p.task /\ q.try = p.try
      BY <1>0 DEF Process
    <3> HIDE DEF q
    <3>2. QED
      BY <2>2, <3>1
  <2> HIDE DEF q
  <2>4. Moves(b)
    BY <1>0, <2>1, <2>2, <2>3 DEF Moves, Becomes, BotsAreSound, TypeOKBots
  <2>5. QED
    BY <2>1, <2>4, MovesAreSound, StutterEvolves DEF StepIsSound
<1>5. CASE OutcomeIsAnswered(b)
  <2>1. /\ p.phase = "finishing"
        /\ BotUpdateTask(p.task, p.try, p.exit, p.timeout, TRUE)
        /\ disowned' = disowned /\ executed' = executed
    BY <1>5 DEF OutcomeIsAnswered
  <2>2. p.task \in Tasks /\ (p.exit = 0 => <<p.task, p.try>> \in executed)
    BY <1>0, <2>1 DEF ProcessIsBacked
  <2>3. Next /\ Evolves(executed)
    BY <1>0, <2>1, <2>2, OutcomeIsAStep
  <2>4. Moves(b)
    <3>1. CASE p.broken
      <4> DEFINE q == [p EXCEPT !.phase = "failing"]
      <4>1. Becomes(b, q, {Error(p)})
        BY <1>5, <3>1 DEF OutcomeIsAnswered
      <4>2. q \in Process /\ q.phase = "failing" /\ q.task = p.task
        BY <1>0 DEF Process
      <4> HIDE DEF q
      <4>3. QED
        BY <1>0, <2>1, <2>2, <4>1, <4>2 DEF Moves, Becomes, BotsAreSound, TypeOKBots
    <3>2. CASE ~p.broken
      <4>1. Becomes(b, Poller, {})
        BY <1>5, <3>2 DEF OutcomeIsAnswered
      <4>2. QED
        BY <1>0, <2>1, <4>1 DEF Moves, Becomes, BotsAreSound, TypeOKBots
    <3>3. QED
      BY <3>1, <3>2
  <2>5. QED
    BY <2>1, <2>3, <2>4, MovesAreSound DEF StepIsSound
<1>6. CASE RunnerFails(b)
  <2> DEFINE q == [p EXCEPT !.phase = "failing"]
  <2>1. /\ p.phase # "polling" /\ Becomes(b, q, {Error(p)})
        /\ UNCHANGED vars /\ disowned' = disowned /\ executed' = executed
    BY <1>6 DEF RunnerFails
  <2>2. p.task \in Tasks
    BY <1>0, <2>1
  <2>3. q \in Process /\ q.phase = "failing" /\ q.task = p.task
    BY <1>0 DEF Process
  <2> HIDE DEF q
  <2>4. Moves(b)
    BY <1>0, <2>1, <2>2, <2>3 DEF Moves, Becomes, BotsAreSound, TypeOKBots
  <2>5. QED
    BY <2>1, <2>4, MovesAreSound, StutterEvolves DEF StepIsSound
<1>7. QED
  BY <1>1, <1>2, <1>3, <1>4, <1>5, <1>6 DEF TaskRunner

\* A late or repeated copy of a request says no more than the bot did.
LEMMA LateRequestIsSound ==
    ASSUME Inv, BotsAreSound, NEW m \in posts, RequestIsUnanswered(m)
    PROVE  StepIsSound
<1>1. /\ m.task \in Tasks /\ m.try \in Tries
      /\ m.exit \in ExitCodes \cup {NoExit} /\ m.timeout \in BOOLEAN
      /\ RequestIsBacked(m)
  BY DEF BotsAreSound, TypeOKBots
<1>2. UNCHANGED botVars
  BY DEF RequestIsUnanswered
<1>3. Next /\ Evolves(executed)
  <2>1. CASE m.kind = "task_update"
    <3>1. BotUpdateTask(m.task, m.try, m.exit, m.timeout, FALSE)
      BY <2>1 DEF RequestIsUnanswered, Handle
    <3>2. m.exit = 0 => <<m.task, m.try>> \in executed
      BY <1>1, <2>1 DEF RequestIsBacked
    <3>3. QED
      BY <1>1, <3>1, <3>2, OutcomeIsAStep
  <2>2. CASE m.kind # "task_update"
    <3>1. BotKillTask(m.task, m.try)
      BY <2>2 DEF RequestIsUnanswered, Handle
    <3>2. QED
      BY <1>1, <3>1, ErrorIsAStep
  <2>3. QED
    BY <2>1, <2>2
<1>4. QED
  BY <1>2, <1>3, BotsStandStill DEF StepIsSound, botVars

\* Every step of the composition.
LEMMA ProtocolStepIsSound ==
    ASSUME Inv, BotsAreSound, [NextBots]_allVars
    PROVE  StepIsSound
<1>1. ASSUME NEW t \in Tasks, Scheduler(t)
      PROVE  StepIsSound
  <2>1. UNCHANGED botVars
    BY <1>1 DEF Scheduler
  <2>2. Next /\ Evolves(executed)
    <3>1. CASE Client(t) \/ Cron(t) \/ Time(t)
      <4>1. Evolves({})
        BY <3>1, ClientEvolves, CronEvolves, TimeEvolves
      <4>2. QED
        BY <3>1, <4>1, EvolvesMonotone DEF Next
    <3>2. ASSUME NEW b \in Bots, ReapDenied(b, t)
          PROVE  Next /\ Evolves(executed)
      BY <3>2, PollIsAStep
    <3>3. QED
      BY <1>1, <3>1, <3>2 DEF Scheduler
  <2>3. QED
    BY <2>1, <2>2, BotsStandStill DEF StepIsSound, botVars
<1>2. CASE HandlerFails /\ UNCHANGED botVars
  <2>1. Evolves(executed)
    <3>1. Evolves({})
      BY <1>2, NothingEvolves DEF HandlerFails, entities
    <3>2. QED
      BY <3>1, EvolvesMonotone
  <2>2. QED
    BY <1>2, <2>1, BotsStandStill DEF StepIsSound, botVars, Next
<1>3. CASE UNCHANGED allVars
  BY <1>3, StutterEvolves, BotsStandStill DEF StepIsSound, allVars, botVars
<1>4. QED
  BY <1>1, <1>2, <1>3, BotMainIsSound, TaskRunnerIsSound, LateRequestIsSound DEF NextBots

-----------------------------------------------------------------------------
(* What the composition keeps *)

\* At first no bot has done anything.
LEMMA InitProtocol == Init /\ InitBots => ProtocolInv
<1> SUFFICES ASSUME Init, InitBots
             PROVE  ProtocolInv
  OBVIOUS
<1>1. BotsAreSound
  BY ProcessesAreTyped DEF InitBots, BotsAreSound, TypeOKBots, ActiveHasTask, ProcessIsBacked
<1>2. EntitiesAreBacked /\ HistoryIsSeen
  BY NoExitIsNoSuccess DEF Init, InitBots, NewResultSummary, EntitiesAreBacked, HistoryIsSeen
<1>3. QED
  BY <1>1, <1>2 DEF ProtocolInv, BotsAreSound

\* Every step is one of the scheduler, or leaves it alone, and keeps the entities
\* in line with what the bots did.
LEMMA ProtocolStep ==
    ASSUME Inv, ProtocolInv, [NextBots]_allVars
    PROVE  [Next]_vars /\ Inv' /\ ProtocolInv' /\ Evolves(executed)
<1>1. BotsAreSound /\ EntitiesAreBacked /\ HistoryIsSeen
  BY DEF ProtocolInv, BotsAreSound
<1>2. StepIsSound
  BY <1>1, ProtocolStepIsSound
<1>3. Inv'
  BY <1>2, StepInv DEF StepIsSound
<1>4. EntitiesAreBacked' /\ HistoryIsSeen'
  BY <1>1, <1>2, EvolutionIsBacked DEF StepIsSound
<1>5. QED
  BY <1>2, <1>3, <1>4 DEF StepIsSound, BotsAreSound, ProtocolInv

\* With real bots and a real network the entities stay coherent and in line with
\* what the bots did.
THEOREM ProtocolInvHolds == SpecBots => [](Inv /\ ProtocolInv)
<1>1. Init /\ InitBots => Inv /\ ProtocolInv
  BY InitInv, InitProtocol
<1>2. Inv /\ ProtocolInv /\ [NextBots]_allVars => (Inv /\ ProtocolInv)'
  BY ProtocolStep
<1>3. QED
  BY <1>1, <1>2, PTL DEF SpecBots

\* The bots keep the rules: whatever they do, the scheduler sees a behaviour of
\* TaskScheduler, so all that holds of that module holds of the composition.
THEOREM BotsKeepTheRules == SpecBots => Spec
<1>1. Inv /\ ProtocolInv /\ [NextBots]_allVars => [Next]_vars
  BY ProtocolStep
<1>2. QED
  BY <1>1, ProtocolInvHolds, PTL DEF SpecBots, Spec

\* A success the client sees is one of user code that was started.
THEOREM SuccessIsRealHolds == SpecBots => []SuccessIsReal
<1>1. ProtocolInv => SuccessIsReal
  BY DEF ProtocolInv, EntitiesAreBacked, SuccessIsReal
<1>2. QED
  BY <1>1, ProtocolInvHolds, PTL

\* A try that was disowned is never shown as a success, whatever comes late.
THEOREM DisownedStaysDeadHolds == SpecBots => []DisownedStaysDead
<1>1. Inv /\ ProtocolInv => DisownedStaysDead
  <2> SUFFICES ASSUME Inv, ProtocolInv, NEW t \in Tasks, NEW k \in Tries,
                      <<t, k>> \in disowned
               PROVE  /\ run[t][k].state = "BOT_DIED"
                      /\ summary[t].try = k => summary[t].state # "COMPLETED"
    BY DEF DisownedStaysDead
  <2>1. run[t][k].state = "BOT_DIED"
    BY DEF ProtocolInv, HistoryIsSeen
  <2>2. Coherent(request[t], queued[t], summary[t], run[t])
    BY DEF Inv
  <2>3. QED
    BY <2>1, <2>2 DEF Coherent, Tries, MaxTry
<1>2. QED
  BY <1>1, ProtocolInvHolds, PTL

\* A task that is not idempotent only goes back to the queue when its user code
\* was not started: the first update of a task_runner is answered before.
THEOREM RetryIsHarmlessHolds == SpecBots => RetryIsHarmless
<1>1. /\ Inv /\ ProtocolInv
      /\ [NextBots]_allVars
      => [\A t \in Tasks :
            ~Idempotent(t) /\ ~queued[t] /\ queued'[t] => <<t, 1>> \notin executed]_allVars
  <2> SUFFICES ASSUME Inv, ProtocolInv, [NextBots]_allVars, NEW t \in Tasks,
                      ~Idempotent(t), ~queued[t], queued'[t]
               PROVE  <<t, 1>> \notin executed
    OBVIOUS
  <2>1. ~run[t][1].pinged
    BY ProtocolStep DEF Evolves, Requeues
  <2>2. 1 \in Tries
    BY DEF Tries, MaxTry
  <2>3. <<t, 1>> \in executed => run[t][1].pinged
    BY <2>2 DEF ProtocolInv, HistoryIsSeen
  <2>4. QED
    BY <2>1, <2>3
<1>2. QED
  BY <1>1, ProtocolInvHolds, PTL DEF SpecBots, RetryIsHarmless

=============================================================================
