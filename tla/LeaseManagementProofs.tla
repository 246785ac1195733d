----------------------- MODULE LeaseManagementProofs -----------------------
(***************************************************************************)
(* Theorems about LeaseManagement for every set of workers and shapes, and *)
(* whatever the bounds.                                                    *)
(*                                                                         *)
(* Tasks act on what they read of the lease long ago, so the invariant is  *)
(* about what stays true of a request once the lease moved on from it: it  *)
(* is settled, that is, its machine was released or its time is over.      *)
(* What a task does last rests on facts about its request that never       *)
(* become false, not on the lease being still for it.                      *)
(***************************************************************************)
EXTENDS LeaseManagement, TLAPS

-----------------------------------------------------------------------------
(* The invariant *)

\* The Machine Provider gave a machine for r; it need not give it back any more.
Given(r) == mp[r].state \in {"leased", "released", "reclaimed"}
Settled(r) ==
    \/ mp[r].state \in {"released", "reclaimed"}
    \/ mp[r].state = "leased" /\ time[r] = "over"

\* Numbers beyond the last are free, and the lease only left settled requests.
RequestsAreSettled ==
    \A r \in Requests :
        /\ r > lease.count => mp[r].state = "none"
        /\ r <= lease.count /\ lease.req # r => Settled(r)
        /\ ~Given(r) => time[r] = "running"

\* The fields of the lease fit together.
LeaseIsCoherent ==
    /\ ~lease.here => lease.req = 0
    /\ lease.expires => lease.req # 0 /\ Given(lease.req)
    /\ lease.req # 0 /\ ~lease.expires /\ mp[lease.req].state # "none"
         => lease.shape = mp[lease.req].shape
    /\ lease.term # 0 => lease.term \in DOMAIN terms
    /\ BotIsOfMachine

\* The steps of a task that has read a lease with a machine.
WithMachine ==
    {"log", "botinfo", "instruct", "instructed", "check", "connect", "absent",
     "release", "cleanup", "clear", "active"}

\* Those at which it relies on the host that it read.
WithHost ==
    {"botinfo", "instruct", "check", "connect", "absent", "release", "cleanup", "active"}

\* Those that lead to a write that looks at the key of the lease only.
ByKey == {"botinfo", "instruct", "instructed", "check", "connect"}

\* What a task relies on.
JobIsSound(w) ==
    LET j == job[w]
        r == job[w].seen.req
    IN  /\ r <= lease.count
        /\ j.step = "send" =>
              r # 0 /\ j.seen.shape = IF mp[r].state = "none" THEN lease.shape ELSE mp[r].shape
        /\ j.step \in WithMachine => r # 0 /\ Given(r)
        /\ j.step \in WithHost \/ j.then = "active" => j.seen.host = r /\ r # 0 /\ Given(r)
        /\ j.step \in {"cleanup", "clear"} => Settled(r)
        /\ j.step = "release" /\ j.then = "idle" => bot[r] \in {"gone", "lost"}
        /\ j.step = "terminating" =>
              /\ j.seen.host # 0
              /\ j.seen.term \in DOMAIN terms /\ terms[j.seen.term].host = j.seen.host
        /\ j.step \in ByKey /\ ~crossed => lease.expires /\ lease.req = r

LeaseInv ==
    /\ TypeOK
    /\ RequestsAreSettled
    /\ LeaseIsCoherent
    /\ \A w \in Workers : JobIsSound(w)

-----------------------------------------------------------------------------
(* Types *)

Job == [step : Steps, then : {"idle", "active"}, seen : MachineLease]
Request ==
    [state : {"none", "untriaged", "leased", "released", "reclaimed"}, shape : Shapes]
Term == [host : Requests, state : {"pending", "completed", "failed"}]

\* A lease that is not there, and a task that does not run, have nothing.
LEMMA Defaults ==
    /\ (CHOOSE shape \in Shapes : TRUE) \in Shapes
    /\ \A count \in 0 .. MaxRequests, shape \in Shapes :
          /\ NewLease(count, shape) \in MachineLease /\ NoLease(count, shape) \in MachineLease
          /\ NewLease(count, shape).req = 0 /\ NoLease(count, shape).req = 0
    /\ Idle \in Job /\ Idle.step = "idle" /\ Idle.then = "idle" /\ Idle.seen.req = 0
<1>1. (CHOOSE shape \in Shapes : TRUE) \in Shapes
  BY LeaseAssumption
<1>2. MaxRequests \in Nat /\ MaxTerms \in Nat
  BY LeaseAssumption
<1>3. \A count \in 0 .. MaxRequests, shape \in Shapes :
         /\ NewLease(count, shape) \in MachineLease /\ NoLease(count, shape) \in MachineLease
         /\ NewLease(count, shape).req = 0 /\ NoLease(count, shape).req = 0
  <2> SUFFICES ASSUME NEW count \in 0 .. MaxRequests, NEW shape \in Shapes
               PROVE  /\ NewLease(count, shape) \in MachineLease
                      /\ NoLease(count, shape) \in MachineLease
                      /\ NewLease(count, shape).req = 0 /\ NoLease(count, shape).req = 0
    OBVIOUS
  <2>1. 0 \in 0 .. MaxRequests /\ 0 \in 0 .. MaxTerms
    BY <1>2
  <2>2. NewLease(count, shape) \in MachineLease /\ NewLease(count, shape).req = 0
    BY <2>1 DEF NewLease, MachineLease
  <2>3. QED
    BY <2>2 DEF NoLease, MachineLease
<1>4. NoLease(0, CHOOSE shape \in Shapes : TRUE) \in MachineLease
  BY <1>1, <1>2, <1>3
<1>5. Idle \in Job /\ Idle.step = "idle" /\ Idle.then = "idle" /\ Idle.seen.req = 0
  BY <1>1, <1>2, <1>3, <1>4 DEF Idle, Job, Steps
<1>6. QED
  BY <1>1, <1>3, <1>5

\* The keys of a lease are typed and are its own.
LEMMA KeysOf ==
    ASSUME NEW l \in MachineLease
    PROVE  /\ Keys(l) \in MachineLease
           /\ Keys(l).req = l.req /\ Keys(l).host = l.host /\ Keys(l).term = l.term
<1>1. Idle.seen \in MachineLease
  BY Defaults DEF Job
<1>2. QED
  BY <1>1 DEF Keys, MachineLease

\* A task that goes on keeps the request, the host and the termination task that
\* it read, and only forgets where it goes on.
LEMMA GoesTo ==
    ASSUME TypeOK, NEW w \in Workers, NEW step \in Steps, Goes(w, step)
    PROVE  /\ job' \in [Workers -> Job]
           /\ \A v \in Workers \ {w} : job'[v] = job[v]
           /\ step = "idle" => job'[w] = Idle
           /\ step # "idle" =>
                 /\ job'[w].step = step
                 /\ job'[w].seen.req = job[w].seen.req
                 /\ job'[w].seen.host = job[w].seen.host
                 /\ job'[w].then \in {"idle", job[w].then}
                 /\ step = "release" => job'[w].then = job[w].then
<1> DEFINE j == job[w]
           n == CASE step = "idle" -> Idle
                  [] step \in LastSteps \/ (step \in {"cleanup", "clear"} /\ j.then = "idle") ->
                        [j EXCEPT !.step = step, !.seen = Keys(j.seen)]
                  [] step = "active" -> [j EXCEPT !.step = step, !.then = "idle"]
                  [] OTHER -> [j EXCEPT !.step = step]
<1>1. job \in [Workers -> Job] /\ j \in Job /\ j.seen \in MachineLease
  BY DEF TypeOK, Job
<1>2. job' = [job EXCEPT ![w] = n]
  BY DEF Goes
<1>3. /\ Keys(j.seen) \in MachineLease
      /\ Keys(j.seen).req = j.seen.req /\ Keys(j.seen).host = j.seen.host
  BY <1>1, KeysOf
<1>4. /\ [j EXCEPT !.step = step, !.seen = Keys(j.seen)] \in Job
      /\ [j EXCEPT !.step = step, !.then = "idle"] \in Job
      /\ [j EXCEPT !.step = step] \in Job
  BY <1>1, <1>3 DEF Job
<1>5. /\ n \in Job
      /\ step = "idle" => n = Idle
      /\ step # "idle" =>
            /\ n.step = step
            /\ n.seen.req = j.seen.req
            /\ n.seen.host = j.seen.host
            /\ n.then \in {"idle", j.then}
            /\ step = "release" => n.then = j.then
  <2>1. CASE step = "idle"
    <3>1. n = Idle
      BY <2>1 DEF LastSteps
    <3> HIDE DEF n
    <3>2. QED
      BY <2>1, <3>1, Defaults
  <2>2. CASE step # "idle" /\ (step \in LastSteps \/ (step \in {"cleanup", "clear"} /\ j.then = "idle"))
    <3>1. n = [j EXCEPT !.step = step, !.seen = Keys(j.seen)] /\ step # "release"
      BY <2>2 DEF LastSteps
    <3> HIDE DEF n
    <3>2. QED
      BY <1>1, <1>3, <1>4, <2>2, <3>1 DEF Job
  <2>3. CASE step = "active"
    <3>1. n = [j EXCEPT !.step = step, !.then = "idle"]
      BY <2>3 DEF LastSteps
    <3> HIDE DEF n
    <3>2. QED
      BY <1>1, <1>4, <2>3, <3>1 DEF Job
  <2>4. CASE ~(\/ step \in {"idle", "active"} \/ step \in LastSteps
               \/ (step \in {"cleanup", "clear"} /\ j.then = "idle"))
    <3>1. n = [j EXCEPT !.step = step]
      BY <2>4
    <3> HIDE DEF n
    <3>2. QED
      BY <1>1, <1>4, <2>4, <3>1 DEF Job
  <2>5. QED
    BY <2>1, <2>2, <2>3, <2>4
<1> HIDE DEF n
<1>6. QED
  BY <1>1, <1>2, <1>5

-----------------------------------------------------------------------------
(* What a step leaves of what tasks rely on *)

\* Facts about requests, bots and termination tasks last.
Evolves ==
    /\ lease.count <= lease'.count
    /\ \A r \in Requests :
          /\ Given(r) => Given(r)'
          /\ Settled(r) => Settled(r)'
          /\ bot[r] \in {"gone", "lost"} => bot'[r] \in {"gone", "lost"}
          /\ mp[r].state # "none" => mp'[r].state # "none" /\ mp'[r].shape = mp[r].shape
          /\ mp[r].state = "none" /\ lease.req = r
               => lease.shape = IF mp'[r].state = "none" THEN lease'.shape ELSE mp'[r].shape
    /\ \A i \in DOMAIN terms : i \in DOMAIN terms' /\ terms'[i].host = terms[i].host
    /\ crossed => crossed'

\* Given and Settled, after the step.
GivenNext(r) == mp'[r].state \in {"leased", "released", "reclaimed"}
SettledNext(r) ==
    \/ mp'[r].state \in {"released", "reclaimed"}
    \/ mp'[r].state = "leased" /\ time'[r] = "over"

\* The lease goes on with the request of w, unless it is known that it does not.
Keeps(w) ==
    ~crossed' /\ job[w].step # "idle" /\ lease.expires /\ lease.req = job[w].seen.req
        => lease'.expires /\ lease'.req = lease.req

\* The number of a request that a task has read.
LEMMA ReadRequest ==
    ASSUME TypeOK, NEW w \in Workers
    PROVE  /\ job[w] \in Job /\ job[w].seen.req \in 0 .. MaxRequests
           /\ job[w].seen.host \in 0 .. MaxRequests
           /\ lease.count \in Nat /\ lease.req \in 0 .. MaxRequests /\ MaxRequests \in Nat
           /\ \A r \in 0 .. MaxRequests : r # 0 => r \in Requests
BY LeaseAssumption DEF TypeOK, Job, MachineLease, Requests

\* A task that does not move stays sound.
LEMMA JobStays ==
    ASSUME LeaseInv, Evolves, NEW w \in Workers, job'[w] = job[w], Keeps(w),
           lease'.count \in Nat
    PROVE  JobIsSound(w)'
<1> DEFINE j == job[w]
           r == job[w].seen.req
<1>0. /\ r \in 0 .. MaxRequests /\ lease.count \in Nat /\ MaxRequests \in Nat
      /\ r # 0 => r \in Requests
      /\ JobIsSound(w)
  BY ReadRequest DEF LeaseInv
<1>1. r <= lease'.count
  BY <1>0 DEF Evolves, JobIsSound
<1>2. j.step = "send" =>
         r # 0 /\ j.seen.shape = IF mp'[r].state = "none" THEN lease'.shape ELSE mp'[r].shape
  <2> SUFFICES ASSUME j.step = "send"
               PROVE  /\ r # 0
                      /\ j.seen.shape = IF mp'[r].state = "none" THEN lease'.shape
                                        ELSE mp'[r].shape
    OBVIOUS
  <2>1. /\ r # 0 /\ r \in Requests
        /\ j.seen.shape = IF mp[r].state = "none" THEN lease.shape ELSE mp[r].shape
    BY <1>0 DEF JobIsSound
  <2>2. mp[r].state = "none" => lease.req = r
    BY <1>0, <2>1 DEF LeaseInv, RequestsAreSettled, Settled, JobIsSound
  <2>3. QED
    BY <2>1, <2>2 DEF Evolves
<1>3. j.step \in WithMachine => r # 0 /\ Given(r)'
  BY <1>0 DEF Evolves, JobIsSound
<1>4. j.step \in WithHost \/ j.then = "active" => j.seen.host = r /\ r # 0 /\ Given(r)'
  BY <1>0 DEF Evolves, JobIsSound
<1>5. j.step \in {"cleanup", "clear"} => Settled(r)'
  BY <1>0 DEF Evolves, JobIsSound, WithMachine
<1>6. j.step = "release" /\ j.then = "idle" => bot'[r] \in {"gone", "lost"}
  BY <1>0 DEF Evolves, JobIsSound, WithMachine
<1>7. j.step = "terminating" =>
         /\ j.seen.host # 0
         /\ j.seen.term \in DOMAIN terms' /\ terms'[j.seen.term].host = j.seen.host
  BY <1>0 DEF Evolves, JobIsSound
<1>8. j.step \in ByKey /\ ~crossed' => lease'.expires /\ lease'.req = r
  BY <1>0 DEF Evolves, JobIsSound, Keeps, ByKey
<1>9. QED
  BY <1>1, <1>2, <1>3, <1>4, <1>5, <1>6, <1>7, <1>8 DEF JobIsSound, Given, Settled

\* A task that goes on is sound if what it relies on next is true.
LEMMA JobGoes ==
    ASSUME LeaseInv, Evolves, NEW w \in Workers, NEW step \in Steps \ {"send", "terminating"},
           Goes(w, step), lease'.count \in Nat,
           LET r == job[w].seen.req
           IN  /\ step \in WithMachine => r # 0 /\ GivenNext(r)
               /\ step \in WithHost => job[w].seen.host = r
               /\ step \in {"cleanup", "clear"} => SettledNext(r)
               /\ step = "release" => job[w].then = "active" \/ bot'[r] \in {"gone", "lost"}
               /\ step \in ByKey /\ ~crossed' => lease'.expires /\ lease'.req = r
    PROVE  JobIsSound(w)'
<1> DEFINE j == job[w]
           r == job[w].seen.req
<1>0. /\ r \in 0 .. MaxRequests /\ lease.count \in Nat /\ MaxRequests \in Nat
      /\ r # 0 => r \in Requests
      /\ JobIsSound(w) /\ TypeOK
  BY ReadRequest DEF LeaseInv
<1>1. r <= lease'.count
  BY <1>0 DEF Evolves, Given, GivenNext, JobIsSound
<1>2. CASE step = "idle"
  <2>1. job'[w] = Idle
    BY <1>0, <1>2, GoesTo
  <2>2. QED
    BY <2>1, Defaults DEF JobIsSound, WithMachine, WithHost, ByKey
<1>3. CASE step # "idle"
  <2>1. /\ job'[w].step = step
        /\ job'[w].seen.req = r
        /\ job'[w].seen.host = j.seen.host
        /\ job'[w].then \in {"idle", j.then}
        /\ step = "release" => job'[w].then = j.then
    BY <1>0, <1>3, GoesTo
  <2>2. j.then = "active" => j.seen.host = r /\ r # 0 /\ GivenNext(r)
    <3>1. j.then = "active" => j.seen.host = r /\ r # 0 /\ Given(r)
      BY <1>0 DEF JobIsSound
    <3>2. r # 0 /\ Given(r) => GivenNext(r)
      BY <1>0 DEF Evolves, Given, GivenNext
    <3>3. QED
      BY <3>1, <3>2
  <2>3. step \in WithHost => j.seen.host = r /\ r # 0 /\ GivenNext(r)
    BY DEF WithHost, WithMachine
  <2>4. QED
    BY <1>1, <2>1, <2>2, <2>3 DEF JobIsSound, Given, GivenNext, Settled, SettledNext
<1>4. QED
  BY <1>2, <1>3

\* A step keeps the invariant if it keeps the tasks that do not move in line with
\* the rest.
LEMMA TaskStep ==
    ASSUME LeaseInv, TypeOK', Evolves, RequestsAreSettled', LeaseIsCoherent', NEW w \in Workers,
           \A v \in Workers \ {w} : job'[v] = job[v] /\ Keeps(v), JobIsSound(w)'
    PROVE  LeaseInv'
<1>1. lease'.count \in Nat
  BY LeaseAssumption DEF TypeOK, MachineLease
<1>2. \A v \in Workers \ {w} : JobIsSound(v)'
  BY <1>1, JobStays
<1>3. QED
  BY <1>2 DEF LeaseInv

LEMMA OtherStep ==
    ASSUME LeaseInv, TypeOK', Evolves, RequestsAreSettled', LeaseIsCoherent', job' = job,
           \A v \in Workers : Keeps(v)
    PROVE  LeaseInv'
<1>1. lease'.count \in Nat
  BY LeaseAssumption DEF TypeOK, MachineLease
<1>2. \A v \in Workers : JobIsSound(v)'
  BY <1>1, JobStays
<1>3. QED
  BY <1>2 DEF LeaseInv

-----------------------------------------------------------------------------
(* Steps that only move a task *)

\* Nothing of what tasks rely on changes.
LEMMA SameEvolves ==
    ASSUME LeaseInv, UNCHANGED <<lease, mp, time, bot, terms>>, crossed => crossed'
    PROVE  /\ Evolves /\ RequestsAreSettled' /\ LeaseIsCoherent'
           /\ \A v \in Workers : Keeps(v)
<1>1. lease.count \in Nat
  BY LeaseAssumption DEF LeaseInv, TypeOK, MachineLease
<1>2. Evolves
  BY <1>1 DEF Evolves, Given, Settled
<1>3. RequestsAreSettled'
  BY DEF LeaseInv, RequestsAreSettled, Given, Settled
<1>4. LeaseIsCoherent'
  BY DEF LeaseInv, LeaseIsCoherent, BotIsOfMachine, Given
<1>5. QED
  BY <1>2, <1>3, <1>4 DEF Keeps

\* The number of events stays within its bound.
LEMMA EventIsTyped ==
    ASSUME TypeOK, Event \/ UNCHANGED events
    PROVE  events' \in 0 .. MaxEvents
BY LeaseAssumption DEF TypeOK, Event

\* A task goes on, and everything else stays.
LEMMA GoesOnly ==
    ASSUME LeaseInv, NEW w \in Workers, NEW step \in Steps \ {"send", "terminating"},
           Goes(w, step), Event \/ UNCHANGED events,
           UNCHANGED <<lease, type, machines, info, terms, crossed>>,
           LET r == job[w].seen.req
           IN  /\ step \in WithMachine => r # 0 /\ Given(r)
               /\ step \in WithHost => job[w].seen.host = r
               /\ step \in {"cleanup", "clear"} => Settled(r)
               /\ step = "release" => job[w].then = "active" \/ bot[r] \in {"gone", "lost"}
               /\ step \in ByKey /\ ~crossed => lease.expires /\ lease.req = r
    PROVE  LeaseInv'
<1>0. TypeOK
  BY DEF LeaseInv
<1>1. UNCHANGED <<lease, mp, time, bot, terms, info, type, crossed>>
  BY DEF machines
<1>2. /\ Evolves /\ RequestsAreSettled' /\ LeaseIsCoherent'
      /\ \A v \in Workers : Keeps(v)
  BY <1>1, SameEvolves
<1>3. TypeOK'
  <2>1. job' \in [Workers -> Job] /\ events' \in 0 .. MaxEvents
    BY <1>0, GoesTo, EventIsTyped
  <2>2. QED
    BY <1>0, <1>1, <2>1 DEF TypeOK, Job
<1>4. lease'.count \in Nat
  BY <1>0, <1>1, ReadRequest
<1>5. JobIsSound(w)'
  BY <1>1, <1>2, <1>4, JobGoes DEF Given, GivenNext, Settled, SettledNext
<1>6. \A v \in Workers \ {w} : job'[v] = job[v]
  BY <1>0, GoesTo
<1>7. QED
  BY <1>2, <1>3, <1>5, <1>6, TaskStep

\* A task that is over.
LEMMA GoesIdle ==
    ASSUME LeaseInv, NEW w \in Workers, Goes(w, "idle"), Event \/ UNCHANGED events,
           UNCHANGED <<lease, type, machines, info, terms, crossed>>
    PROVE  LeaseInv'
BY GoesOnly DEF Steps, WithMachine, WithHost, ByKey

\* A task starts with what it reads of the lease.
LEMMA ManageLeaseStep ==
    ASSUME LeaseInv, NEW w \in Workers, ManageLease(w)
    PROVE  LeaseInv'
<1> DEFINE step == First(lease)
           seen == IF step \in LastSteps THEN Keys(lease) ELSE [lease EXCEPT !.count = 0]
           n == [step |-> step, then |-> "idle", seen |-> seen]
<1>0. /\ TypeOK /\ lease \in MachineLease /\ lease.req \in {0, lease.count}
      /\ MaxRequests \in Nat /\ job \in [Workers -> Job]
  BY LeaseAssumption DEF LeaseInv, TypeOK, Job
<1>1. UNCHANGED <<lease, mp, time, bot, terms, info, type, crossed>> /\ job' = [job EXCEPT ![w] = n]
  BY DEF ManageLease, machines
<1>2. /\ Evolves /\ RequestsAreSettled' /\ LeaseIsCoherent'
      /\ \A v \in Workers : Keeps(v)
  BY <1>1, SameEvolves
<1>3. /\ seen \in MachineLease /\ seen.req = lease.req /\ seen.host = lease.host
      /\ step \notin LastSteps => seen.shape = lease.shape
  <2>1. [lease EXCEPT !.count = 0] \in MachineLease
    BY <1>0 DEF MachineLease
  <2>2. QED
    BY <1>0, <2>1, KeysOf DEF MachineLease
<1>4. \/ /\ lease.expires
         /\ step \in {"botinfo", "instruct", "check", "active"}
      \/ ~lease.expires /\ lease.req # 0 /\ step = "send"
      \/ step \in {"delete", "new"}
  BY <1>0 DEF First, Connecting, MachineLease
<1> HIDE DEF step
<1>5. n \in Job
  BY <1>3, <1>4 DEF Job, Steps, LastSteps
<1> HIDE DEF seen
<1>6. n.step = step /\ n.then = "idle" /\ n.seen = seen
  OBVIOUS
<1> HIDE DEF n
<1>7. job' \in [Workers -> Job] /\ job'[w] = n /\ \A v \in Workers \ {w} : job'[v] = job[v]
  BY <1>0, <1>1, <1>5
<1>8. TypeOK'
  <2>1. events' \in 0 .. MaxEvents
    BY <1>0, EventIsTyped DEF ManageLease
  <2>2. QED
    BY <1>0, <1>1, <1>7, <2>1 DEF TypeOK, Job
<1>9. JobIsSound(w)'
  <2>1. LeaseIsCoherent /\ lease.req <= lease.count
    BY <1>0, <1>2 DEF LeaseInv, MachineLease
  <2>2. CASE lease.expires /\ step \in {"botinfo", "instruct", "check", "active"}
    <3>1. lease.req # 0 /\ Given(lease.req) /\ lease.host = lease.req
      BY <2>1, <2>2 DEF LeaseIsCoherent, BotIsOfMachine
    <3>2. QED
      BY <1>1, <1>3, <1>6, <1>7, <2>1, <2>2, <3>1 DEF JobIsSound, Given, LastSteps
  <2>3. CASE ~lease.expires /\ lease.req # 0 /\ step = "send"
    <3>1. seen.shape = lease.shape
      BY <1>3, <2>3 DEF LastSteps
    <3>2. seen.shape = IF mp[seen.req].state = "none" THEN lease.shape ELSE mp[seen.req].shape
      BY <1>3, <2>1, <2>3, <3>1 DEF LeaseIsCoherent
    <3>3. QED
      BY <1>1, <1>3, <1>6, <1>7, <2>1, <2>3, <3>2 DEF JobIsSound, WithMachine, WithHost, ByKey
  <2>4. CASE step \in {"delete", "new"}
    BY <1>1, <1>3, <1>6, <1>7, <2>1, <2>4 DEF JobIsSound, WithMachine, WithHost, ByKey
  <2>5. QED
    BY <1>4, <2>2, <2>3, <2>4
<1>10. QED
  BY <1>2, <1>7, <1>8, <1>9, TaskStep

\* A task looks at the events of its bot, or at the BotInfo.
LEMMA CheckStep ==
    ASSUME LeaseInv, NEW w \in Workers, CheckForConnection(w) \/ IsPresent(w)
    PROVE  LeaseInv'
<1>1. JobIsSound(w)
  BY DEF LeaseInv
<1>2. \E step \in {"idle", "connect", "absent", "active"} :
         Goes(w, step) /\ (step = "connect" => job[w].step = "check")
  BY DEF CheckForConnection, IsPresent
<1>3. PICK step \in {"idle", "connect", "absent", "active"} :
         Goes(w, step) /\ (step = "connect" => job[w].step = "check")
  BY <1>2
<1>4. UNCHANGED <<lease, type, machines, info, terms, crossed>> /\ UNCHANGED events
  BY DEF CheckForConnection, IsPresent
<1>5. job[w].step \in {"check", "absent"}
  BY DEF CheckForConnection, IsPresent
<1>6. LET r == job[w].seen.req
      IN  /\ r # 0 /\ Given(r) /\ job[w].seen.host = r
          /\ step \in ByKey /\ ~crossed => lease.expires /\ lease.req = r
  BY <1>1, <1>3, <1>5 DEF JobIsSound, WithMachine, WithHost, ByKey
<1>7. QED
  BY <1>3, <1>4, <1>6, GoesOnly DEF Steps

\* A task with a bot that is connected decides what to do last.
LEMMA ManageActiveStep ==
    ASSUME LeaseInv, NEW w \in Workers, ManageActive(w)
    PROVE  LeaseInv'
<1> DEFINE r == job[w].seen.req
<1>1. /\ JobIsSound(w) /\ job[w].step = "active"
      /\ UNCHANGED <<lease, type, machines, info, terms, crossed>> /\ UNCHANGED events
  BY DEF LeaseInv, ManageActive
<1>2. r # 0 /\ Given(r) /\ job[w].seen.host = r
  BY <1>1 DEF JobIsSound, WithHost
<1>3. \/ time[r] = "over" /\ Goes(w, "cleanup")
      \/ Goes(w, "forget") \/ Goes(w, "idle")
      \/ bot[r] = "gone" /\ Goes(w, "release")
  BY DEF ManageActive, Terminated, HasShutDown
<1>4. time[r] = "over" => Settled(r)
  BY <1>2 DEF Given, Settled
<1>5. CASE time[r] = "over" /\ Goes(w, "cleanup")
  BY <1>1, <1>2, <1>4, <1>5, GoesOnly DEF Steps, ByKey
<1>6. CASE Goes(w, "forget") \/ Goes(w, "idle")
  BY <1>1, <1>6, GoesOnly DEF Steps, LastSteps, WithMachine, WithHost, ByKey
<1>7. CASE bot[r] = "gone" /\ Goes(w, "release")
  BY <1>1, <1>2, <1>7, GoesOnly DEF Steps, ByKey
<1>8. QED
  BY <1>3, <1>5, <1>6, <1>7

-----------------------------------------------------------------------------
(* Steps that write the lease *)

\* The lease may be written if what it leaves is settled and its shape is not
\* changed while its request may be sent.
LEMMA LeaseWrite ==
    ASSUME LeaseInv, UNCHANGED <<mp, time, bot, terms>>, crossed => crossed',
           lease' \in MachineLease, lease.count <= lease'.count,
           \A r \in Requests : r <= lease'.count /\ lease'.req # r => Settled(r),
           \A r \in Requests : mp[r].state = "none" /\ lease.req = r
                                => lease'.shape = lease.shape
    PROVE  Evolves /\ RequestsAreSettled' /\ lease'.count \in Nat
<1>1. lease.count \in Nat /\ lease'.count \in Nat /\ \A r \in Requests : r \in Nat
  BY LeaseAssumption DEF LeaseInv, TypeOK, MachineLease, Requests
<1>2. Evolves
  BY DEF Evolves, Given, Settled
<1>3. \A r \in Requests : r > lease'.count => r > lease.count
  BY <1>1
<1>4. RequestsAreSettled'
  BY <1>3 DEF LeaseInv, RequestsAreSettled, Given, Settled
<1>5. QED
  BY <1>1, <1>2, <1>4

\* A task writes the lease and goes on.
LEMMA WriteGoes ==
    ASSUME LeaseInv, NEW w \in Workers, NEW step \in Steps \ {"send", "terminating"},
           Goes(w, step), Event \/ UNCHANGED events,
           UNCHANGED <<type, machines, terms>>, crossed => crossed', crossed' \in BOOLEAN,
           info' \in [Requests -> {"none", "alive", "dead"}],
           lease' \in MachineLease, lease'.req \in {0, lease'.count},
           LeaseIsCoherent', lease.count <= lease'.count,
           \A r \in Requests : r <= lease'.count /\ lease'.req # r => Settled(r),
           \A r \in Requests : mp[r].state = "none" /\ lease.req = r
                                => lease'.shape = lease.shape,
           \A v \in Workers \ {w} : Keeps(v),
           LET r == job[w].seen.req
           IN  /\ step \in WithMachine => r # 0 /\ Given(r)
               /\ step \in WithHost => job[w].seen.host = r
               /\ step \notin {"cleanup", "clear", "release"}
               /\ step \in ByKey /\ ~crossed' => lease'.expires /\ lease'.req = r
    PROVE  LeaseInv'
<1>0. TypeOK
  BY DEF LeaseInv
<1>1. UNCHANGED <<mp, time, bot, terms>>
  BY DEF machines
<1>2. Evolves /\ RequestsAreSettled' /\ lease'.count \in Nat
  BY <1>1, LeaseWrite
<1>3. TypeOK'
  <2>1. job' \in [Workers -> Job] /\ events' \in 0 .. MaxEvents
    BY <1>0, GoesTo, EventIsTyped
  <2>2. QED
    BY <1>0, <1>1, <2>1 DEF TypeOK, Job
<1>4. JobIsSound(w)'
  BY <1>1, <1>2, JobGoes DEF Given, GivenNext
<1>5. \A v \in Workers \ {w} : job'[v] = job[v]
  BY <1>0, GoesTo
<1>6. QED
  BY <1>2, <1>3, <1>4, <1>5, TaskStep

\* The fields that do not say what the lease is for.
SameRequest(l, m) ==
    /\ m.here = l.here /\ m.req = l.req /\ m.count = l.count /\ m.host = l.host
    /\ m.expires = l.expires /\ m.shape = l.shape

LEMMA FieldWrite ==
    ASSUME LeaseInv, UNCHANGED <<mp, time, bot, terms, crossed>>, lease' \in MachineLease,
           SameRequest(lease, lease'),
           \/ lease'.term \in {0, lease.term}
           \/ /\ lease'.term \in DOMAIN terms /\ lease.expires
              /\ terms[lease'.term].host = lease.host,
           ~crossed => /\ lease'.bot \in {0, lease.host}
                       /\ lease'.instructed \/ lease'.connected => lease.expires
    PROVE  /\ LeaseIsCoherent' /\ lease'.req \in {0, lease'.count} /\ lease.count <= lease'.count
           /\ \A r \in Requests : r <= lease'.count /\ lease'.req # r => Settled(r)
           /\ \A r \in Requests : mp[r].state = "none" /\ lease.req = r
                                   => lease'.shape = lease.shape
           /\ \A v \in Workers : Keeps(v)
<1>1. lease.req \in {0, lease.count} /\ lease.count \in Nat
  BY LeaseAssumption DEF LeaseInv, TypeOK, MachineLease
<1>2. LeaseIsCoherent'
  BY DEF SameRequest, LeaseInv, LeaseIsCoherent, BotIsOfMachine, Given
<1>3. \A r \in Requests : r <= lease'.count /\ lease'.req # r => Settled(r)
  BY DEF SameRequest, LeaseInv, RequestsAreSettled
<1>4. QED
  BY <1>1, <1>2, <1>3 DEF SameRequest, Keeps

\* A task numbers the next request.
LEMMA NewRequestStep ==
    ASSUME LeaseInv, NEW w \in Workers, UpdateClientRequestId(w)
    PROVE  LeaseInv'
<1>0. /\ TypeOK /\ LeaseIsCoherent /\ lease \in MachineLease /\ MaxRequests \in Nat
      /\ lease.count \in 0 .. MaxRequests
  BY LeaseAssumption DEF LeaseInv, TypeOK, MachineLease
<1>1. Goes(w, "idle") /\ UNCHANGED <<type, machines, info, terms, events, crossed>>
  BY DEF UpdateClientRequestId
<1>2. CASE lease.here /\ ~lease.drained /\ lease.req = 0 /\ lease.count < MaxRequests
  <2> DEFINE l == [lease EXCEPT !.req = lease.count + 1, !.count = lease.count + 1]
  <2>1. lease' = l
    BY <1>2 DEF UpdateClientRequestId, NextRequest
  <2>2. lease.count + 1 \in 1 .. MaxRequests /\ lease.count + 1 \in 0 .. MaxRequests
    BY <1>0, <1>2
  <2>3. /\ l \in MachineLease /\ l.req = lease.count + 1 /\ l.count = lease.count + 1
        /\ l.here = lease.here /\ l.expires = lease.expires /\ l.host = lease.host
        /\ l.bot = lease.bot /\ l.term = lease.term /\ l.shape = lease.shape
        /\ l.instructed = lease.instructed /\ l.connected = lease.connected
    BY <1>0, <2>2 DEF MachineLease
  <2> HIDE DEF l
  <2>4. mp[lease.count + 1].state = "none"
    BY <1>0, <2>2 DEF LeaseInv, RequestsAreSettled, Requests
  <2>5. ~lease.expires
    BY <1>0, <1>2 DEF LeaseIsCoherent
  <2>6. LeaseIsCoherent'
    BY <1>0, <1>1, <1>2, <2>1, <2>3, <2>4, <2>5 DEF LeaseIsCoherent, BotIsOfMachine, machines
  <2>7. \A r \in Requests : r <= lease'.count /\ lease'.req # r => Settled(r)
    <3>1. \A r \in Requests : r \in Nat /\ r # 0
      BY <1>0 DEF Requests
    <3>2. \A r \in Requests : r <= lease.count + 1 /\ r # lease.count + 1 => r <= lease.count
      BY <1>0, <3>1
    <3>3. QED
      BY <1>2, <2>1, <2>3, <3>1, <3>2 DEF LeaseInv, RequestsAreSettled
  <2>8. \A v \in Workers : Keeps(v)
    BY <2>5 DEF Keeps
  <2>9. lease' \in MachineLease /\ lease'.req \in {0, lease'.count} /\ lease.count <= lease'.count
        /\ lease'.shape = lease.shape
    BY <1>0, <2>1, <2>3
  <2>10. info' \in [Requests -> {"none", "alive", "dead"}] /\ crossed' \in BOOLEAN
         /\ (crossed => crossed') /\ UNCHANGED events /\ UNCHANGED <<type, machines, terms>>
    BY <1>0, <1>1 DEF TypeOK
  <2>11. QED
    BY <1>1, <2>6, <2>7, <2>8, <2>9, <2>10, WriteGoes DEF Steps, WithMachine, WithHost, ByKey
<1>3. CASE ~(lease.here /\ ~lease.drained /\ lease.req = 0 /\ lease.count < MaxRequests)
  BY <1>1, <1>3, GoesIdle DEF UpdateClientRequestId
<1>4. QED
  BY <1>2, <1>3

\* A task writes fields that do not say what the lease is for, and goes on.
LEMMA FieldStep ==
    ASSUME LeaseInv, NEW w \in Workers, NEW step \in Steps \ {"send", "terminating"},
           Goes(w, step), Event \/ UNCHANGED events,
           UNCHANGED <<type, machines, terms, crossed>>,
           info' \in [Requests -> {"none", "alive", "dead"}],
           lease' \in MachineLease, SameRequest(lease, lease'),
           \/ lease'.term \in {0, lease.term}
           \/ /\ lease'.term \in DOMAIN terms /\ lease.expires
              /\ terms[lease'.term].host = lease.host,
           ~crossed => /\ lease'.bot \in {0, lease.host}
                       /\ lease'.instructed \/ lease'.connected => lease.expires,
           LET r == job[w].seen.req
           IN  /\ step \in WithMachine => r # 0 /\ Given(r)
               /\ step \in WithHost => job[w].seen.host = r
               /\ step \notin {"cleanup", "clear", "release"}
               /\ step \in ByKey /\ ~crossed => lease.expires /\ lease.req = r
    PROVE  LeaseInv'
<1>1. UNCHANGED <<mp, time, bot, terms, crossed>> /\ crossed' \in BOOLEAN
  BY DEF machines, LeaseInv, TypeOK
<1>2. /\ LeaseIsCoherent' /\ lease'.req \in {0, lease'.count} /\ lease.count <= lease'.count
      /\ \A r \in Requests : r <= lease'.count /\ lease'.req # r => Settled(r)
      /\ \A r \in Requests : mp[r].state = "none" /\ lease.req = r
                              => lease'.shape = lease.shape
      /\ \A v \in Workers : Keeps(v)
  BY <1>1, FieldWrite
<1>3. lease'.expires = lease.expires /\ lease'.req = lease.req
  BY DEF SameRequest
<1>4. QED
  BY <1>1, <1>2, <1>3, WriteGoes

\* What the lease says of the bot, before a write.
LEMMA LeaseOfBot ==
    ASSUME LeaseInv
    PROVE  /\ lease \in MachineLease
           /\ ~crossed => /\ lease.bot \in {0, lease.host}
                          /\ lease.instructed \/ lease.connected => lease.expires
           /\ lease.host = IF lease.expires THEN lease.req ELSE 0
BY DEF LeaseInv, TypeOK, LeaseIsCoherent, BotIsOfMachine

\* A task stores the bot of the machine that it read.
LEMMA EnsureBotInfoStep ==
    ASSUME LeaseInv, NEW w \in Workers, EnsureBotInfo(w)
    PROVE  LeaseInv'
<1> DEFINE seen == job[w].seen
<1>1. /\ TypeOK /\ JobIsSound(w) /\ job[w].step = "botinfo"
      /\ seen.host \in 0 .. MaxRequests
  BY ReadRequest DEF LeaseInv, EnsureBotInfo
<1>2. /\ seen.req # 0 /\ Given(seen.req) /\ seen.host = seen.req
      /\ ~crossed => lease.expires /\ lease.req = seen.req
  BY <1>1 DEF JobIsSound, WithMachine, WithHost, ByKey
<1>3. PICK step \in {"instruct", "check", "active"} : Goes(w, step)
  BY DEF EnsureBotInfo, Connecting
<1>4. /\ UNCHANGED <<type, machines, terms, crossed>> /\ (Event \/ UNCHANGED events)
      /\ info' = info \/ info' = [info EXCEPT ![seen.host] = IF @ = "none" THEN "alive" ELSE @]
      /\ lease' = lease \/ lease' = [lease EXCEPT !.bot = seen.host]
  BY DEF EnsureBotInfo
<1>5. info' \in [Requests -> {"none", "alive", "dead"}]
  BY <1>1, <1>4 DEF TypeOK
<1>6. /\ lease' \in MachineLease /\ SameRequest(lease, lease') /\ lease'.term = lease.term
      /\ lease'.bot \in {lease.bot, seen.host} /\ lease'.instructed = lease.instructed
      /\ lease'.connected = lease.connected
  BY <1>1, <1>4, LeaseOfBot DEF MachineLease, SameRequest
<1>7. ~crossed => /\ lease'.bot \in {0, lease.host}
                  /\ lease'.instructed \/ lease'.connected => lease.expires
  BY <1>2, <1>6, LeaseOfBot
<1>8. QED
  BY <1>2, <1>3, <1>4, <1>5, <1>6, <1>7, FieldStep DEF Steps

\* A task notes that the bot was instructed, or that it connected.
LEMMA AssociateStep ==
    ASSUME LeaseInv, NEW w \in Workers, AssociateInstructionTs(w) \/ AssociateConnectionTs(w)
    PROVE  LeaseInv'
<1> DEFINE seen == job[w].seen
<1>1. /\ TypeOK /\ JobIsSound(w) /\ job[w].step \in {"instructed", "connect"}
      /\ job[w].step = "instructed" => Goes(w, "idle")
      /\ job[w].step = "connect" => Goes(w, "active")
  BY DEF LeaseInv, AssociateInstructionTs, AssociateConnectionTs
<1>2. /\ seen.req # 0 /\ Given(seen.req) /\ (job[w].step = "connect" => seen.host = seen.req)
      /\ ~crossed => lease.expires /\ lease.req = seen.req
  BY <1>1 DEF JobIsSound, WithMachine, WithHost, ByKey
<1>3. PICK step \in {"idle", "active"} :
         Goes(w, step) /\ (step = "active" => job[w].step = "connect")
  BY <1>1
<1>4. /\ UNCHANGED <<type, machines, info, terms, crossed>> /\ UNCHANGED events
      /\ \/ lease' = lease \/ lease' = [lease EXCEPT !.instructed = TRUE]
         \/ lease' = [lease EXCEPT !.connected = TRUE]
  BY DEF AssociateInstructionTs, AssociateConnectionTs
<1>5. info' \in [Requests -> {"none", "alive", "dead"}]
  BY <1>1, <1>4 DEF TypeOK
<1>6. /\ lease' \in MachineLease /\ SameRequest(lease, lease') /\ lease'.term = lease.term
      /\ lease'.bot = lease.bot
  BY <1>4, LeaseOfBot DEF MachineLease, SameRequest
<1>7. ~crossed => /\ lease'.bot \in {0, lease.host}
                  /\ lease'.instructed \/ lease'.connected => lease.expires
  BY <1>2, <1>6, LeaseOfBot
<1>8. QED
  BY <1>2, <1>3, <1>4, <1>5, <1>6, <1>7, FieldStep DEF Steps, WithMachine, WithHost, ByKey

\* A task notes the termination task, or forgets it.
LEMMA TerminationTaskStep ==
    ASSUME LeaseInv, NEW w \in Workers, AssociateTerminationTask(w) \/ ClearTerminationTask(w)
    PROVE  LeaseInv'
<1> DEFINE seen == job[w].seen
<1>1. /\ TypeOK /\ JobIsSound(w) /\ Goes(w, "idle")
      /\ UNCHANGED <<type, machines, info, terms, crossed>> /\ UNCHANGED events
      /\ \/ lease' = lease
         \/ lease' = [lease EXCEPT !.term = 0]
         \/ /\ lease' = [lease EXCEPT !.term = seen.term]
            /\ job[w].step = "terminating" /\ lease.host = seen.host
  BY DEF LeaseInv, AssociateTerminationTask, ClearTerminationTask, IsTheHost
<1>2. 0 \in 0 .. MaxTerms /\ seen.term \in 0 .. MaxTerms
  BY <1>1, LeaseAssumption DEF TypeOK, MachineLease
<1>3. /\ lease' \in MachineLease /\ SameRequest(lease, lease')
      /\ lease'.bot = lease.bot /\ lease'.instructed = lease.instructed
      /\ lease'.connected = lease.connected
      /\ \/ lease'.term \in {0, lease.term}
         \/ /\ lease'.term = seen.term /\ job[w].step = "terminating"
            /\ lease.host = seen.host
  BY <1>1, <1>2, LeaseOfBot DEF MachineLease, SameRequest
<1>4. \/ lease'.term \in {0, lease.term}
      \/ /\ lease'.term \in DOMAIN terms /\ lease.expires
         /\ terms[lease'.term].host = lease.host
  BY <1>1, <1>3, LeaseOfBot DEF JobIsSound
<1>5. info' \in [Requests -> {"none", "alive", "dead"}]
  BY <1>1 DEF TypeOK
<1>6. QED
  BY <1>1, <1>3, <1>4, <1>5, LeaseOfBot, FieldStep DEF Steps, WithMachine, WithHost, ByKey

\* A lease that is for nothing fits together.
LEMMA EmptyIsCoherent ==
    ASSUME lease'.req = 0, lease'.expires = FALSE, lease'.host = 0, lease'.bot = 0,
           lease'.instructed = FALSE, lease'.connected = FALSE, lease'.term = 0
    PROVE  LeaseIsCoherent'
BY DEF LeaseIsCoherent, BotIsOfMachine

\* A new lease, with or without its drained flag, and no lease.
LEMMA NewLeaseIs ==
    ASSUME NEW count \in 0 .. MaxRequests, NEW shape \in Shapes,
           NEW l \in {NewLease(count, shape), NoLease(count, shape),
                      [NewLease(count, shape) EXCEPT !.drained = lease.drained]},
           lease \in MachineLease
    PROVE  /\ l \in MachineLease /\ l.count = count /\ l.shape = shape
           /\ l.req = 0 /\ l.expires = FALSE /\ l.host = 0 /\ l.bot = 0
           /\ l.instructed = FALSE /\ l.connected = FALSE /\ l.term = 0
<1>1. NewLease(count, shape) \in MachineLease /\ NoLease(count, shape) \in MachineLease
  BY Defaults
<1>2. [NewLease(count, shape) EXCEPT !.drained = lease.drained] \in MachineLease
  BY <1>1 DEF MachineLease
<1>3. CASE l = NewLease(count, shape)
  BY <1>1, <1>3 DEF NewLease
<1>4. CASE l = NoLease(count, shape)
  BY <1>1, <1>4 DEF NewLease, NoLease
<1>5. CASE l = [NewLease(count, shape) EXCEPT !.drained = lease.drained]
  BY <1>2, <1>5 DEF NewLease
<1>6. QED
  BY <1>3, <1>4, <1>5

\* A task deletes a lease that is drained.
LEMMA DeleteStep ==
    ASSUME LeaseInv, NEW w \in Workers, DeleteMachineLease(w)
    PROVE  LeaseInv'
<1>0. /\ TypeOK /\ LeaseIsCoherent /\ lease \in MachineLease
      /\ lease.count \in 0 .. MaxRequests /\ lease.shape \in Shapes /\ MaxRequests \in Nat
  BY LeaseAssumption DEF LeaseInv, TypeOK, MachineLease
<1>1. Goes(w, "idle") /\ UNCHANGED <<type, machines, info, terms, events, crossed>>
  BY DEF DeleteMachineLease
<1>2. CASE lease.here /\ lease.drained /\ lease.req = 0
  <2>1. lease' = NoLease(lease.count, lease.shape)
    BY <1>2 DEF DeleteMachineLease
  <2>2. /\ lease' \in MachineLease /\ lease'.count = lease.count /\ lease'.shape = lease.shape
        /\ LeaseIsCoherent' /\ lease'.req = 0
    BY <1>0, <2>1, NewLeaseIs, EmptyIsCoherent
  <2>3. \A r \in Requests : r <= lease'.count /\ lease'.req # r => Settled(r)
    BY <1>2, <2>2 DEF LeaseInv, RequestsAreSettled
  <2>4. \A v \in Workers : Keeps(v)
    BY <1>0, <1>2 DEF Keeps, LeaseIsCoherent
  <2>5. lease.count <= lease'.count
    BY <1>0, <2>2
  <2>6. info' \in [Requests -> {"none", "alive", "dead"}] /\ crossed' \in BOOLEAN
        /\ (crossed => crossed') /\ UNCHANGED events /\ UNCHANGED <<type, machines, terms>>
    BY <1>0, <1>1 DEF TypeOK
  <2>7. QED
    BY <1>1, <2>2, <2>3, <2>4, <2>5, <2>6, WriteGoes DEF Steps, WithMachine, WithHost, ByKey
<1>3. CASE ~(lease.here /\ lease.drained /\ lease.req = 0)
  BY <1>1, <1>3, GoesIdle DEF DeleteMachineLease
<1>4. QED
  BY <1>2, <1>3

\* A task stores the machine that was given for the request.
LEMMA LogStep ==
    ASSUME LeaseInv, NEW w \in Workers, LogLeaseFulfillment(w)
    PROVE  LeaseInv'
<1> DEFINE r == job[w].seen.req
<1>0. /\ TypeOK /\ LeaseIsCoherent /\ lease \in MachineLease /\ JobIsSound(w)
      /\ r \in 0 .. MaxRequests /\ lease.count \in Nat
      /\ lease.req \in {0, lease.count}
  BY ReadRequest DEF LeaseInv, TypeOK
<1>1. Goes(w, "idle") /\ UNCHANGED <<type, machines, info, terms, events, crossed>>
  BY DEF LogLeaseFulfillment
<1>2. CASE lease.here /\ lease.req = r
  <2>1. lease' = [lease EXCEPT !.host = r, !.expires = TRUE]
    BY <1>2 DEF LogLeaseFulfillment
  <2>2. /\ lease' \in MachineLease /\ lease'.req = r /\ lease'.host = r /\ lease'.expires
        /\ lease'.here = lease.here /\ lease'.count = lease.count
        /\ lease'.shape = lease.shape /\ lease'.term = lease.term /\ lease'.bot = lease.bot
    BY <1>0, <1>2, <2>1 DEF MachineLease
  <2>3. r # 0 /\ Given(r)
    BY <1>0 DEF JobIsSound, WithMachine, LogLeaseFulfillment
  <2>4. LeaseIsCoherent'
    BY <1>0, <1>1, <1>2, <2>2, <2>3 DEF LeaseIsCoherent, BotIsOfMachine, Given, machines
  <2>5. \A q \in Requests : q <= lease'.count /\ lease'.req # q => Settled(q)
    BY <1>2, <2>2 DEF LeaseInv, RequestsAreSettled
  <2>6. \A v \in Workers : Keeps(v)
    BY <1>2, <2>2 DEF Keeps
  <2>7. lease.count <= lease'.count
    BY <1>0, <2>2
  <2>8. info' \in [Requests -> {"none", "alive", "dead"}] /\ crossed' \in BOOLEAN
        /\ (crossed => crossed') /\ UNCHANGED events /\ UNCHANGED <<type, machines, terms>>
    BY <1>0, <1>1 DEF TypeOK
  <2>9. lease'.req \in {0, lease'.count}
    BY <1>0, <1>2, <2>2
  <2>10. QED
    BY <1>1, <2>2, <2>4, <2>5, <2>6, <2>7, <2>8, <2>9, WriteGoes
       DEF Steps, WithMachine, WithHost, ByKey
<1>3. CASE ~(lease.here /\ lease.req = r)
  BY <1>1, <1>3, GoesIdle DEF LogLeaseFulfillment
<1>4. QED
  BY <1>2, <1>3

\* A task clears a request that is settled; it is on record if others rely on it.
LEMMA ClearStep ==
    ASSUME LeaseInv, NEW w \in Workers, ClearLeaseRequest(w)
    PROVE  LeaseInv'
<1> DEFINE r == job[w].seen.req
           then == job[w].then
<1>0. /\ TypeOK /\ LeaseIsCoherent /\ lease \in MachineLease /\ JobIsSound(w)
      /\ lease.count \in 0 .. MaxRequests /\ lease.shape \in Shapes /\ MaxRequests \in Nat
      /\ lease.req \in {0, lease.count} /\ then \in {"idle", "active"}
      /\ r # 0 => r \in Requests
  BY ReadRequest, LeaseAssumption DEF LeaseInv, TypeOK, MachineLease, Job
<1>1. /\ Goes(w, then) /\ UNCHANGED <<type, machines, info, terms>> /\ UNCHANGED events
      /\ crossed' = (crossed \/ \E v \in Workers \ {w} :
                                   job[v].step # "idle" /\ job[v].seen.req = r)
      /\ job[w].step = "clear"
  BY DEF ClearLeaseRequest
<1>2. r # 0 /\ Given(r) /\ Settled(r) /\ (then = "active" => job[w].seen.host = r)
  BY <1>0, <1>1 DEF JobIsSound, WithMachine
<1>3. /\ info' \in [Requests -> {"none", "alive", "dead"}] /\ crossed' \in BOOLEAN
      /\ (crossed => crossed') /\ UNCHANGED <<type, machines, terms>>
      /\ UNCHANGED <<mp, time, bot, terms>>
  BY <1>0, <1>1 DEF TypeOK, machines
<1>4. /\ lease' \in MachineLease /\ lease'.count = lease.count /\ lease'.shape = lease.shape
      /\ LeaseIsCoherent' /\ lease'.req \in {0, lease.req}
      /\ lease'.req # lease.req => lease.req = r
      /\ \A v \in Workers \ {w} : Keeps(v)
  <2>1. CASE IsTheRequest(w)
    <3>1. lease' = [NewLease(lease.count, lease.shape) EXCEPT !.drained = lease.drained]
      BY <2>1 DEF ClearLeaseRequest, Cleared
    <3>2. lease' \in MachineLease /\ lease'.count = lease.count /\ lease'.shape = lease.shape
          /\ LeaseIsCoherent' /\ lease'.req = 0
      BY <1>0, <3>1, NewLeaseIs, EmptyIsCoherent
    <3>3. lease.req = r
      BY <2>1 DEF IsTheRequest
    <3>4. \A v \in Workers \ {w} : Keeps(v)
      BY <1>1, <3>3 DEF Keeps
    <3>5. QED
      BY <3>2, <3>3, <3>4
  <2>2. CASE ~IsTheRequest(w)
    <3>1. lease' = lease
      BY <2>2 DEF ClearLeaseRequest
    <3>2. QED
      BY <1>0, <1>3, <3>1, SameEvolves
  <2>3. QED
    BY <2>1, <2>2
<1>5. \A q \in Requests : q <= lease'.count /\ lease'.req # q => Settled(q)
  BY <1>2, <1>4 DEF LeaseInv, RequestsAreSettled
<1>6. lease.count <= lease'.count /\ lease'.req \in {0, lease'.count}
  BY <1>0, <1>4
<1>7. QED
  BY <1>0, <1>1, <1>2, <1>3, <1>4, <1>5, <1>6, WriteGoes DEF Steps, WithMachine, WithHost, ByKey

\* The cron jobs create, update and drain the lease.
LEMMA CronStep ==
    ASSUME LeaseInv, Cron
    PROVE  LeaseInv'
<1>0. /\ TypeOK /\ LeaseIsCoherent /\ lease \in MachineLease
      /\ lease.count \in 0 .. MaxRequests /\ MaxRequests \in Nat
      /\ lease.req \in {0, lease.count} /\ type.shape \in Shapes
  BY LeaseAssumption DEF LeaseInv, TypeOK, MachineLease
<1>1. CASE ConfigChanges
  <2>1. /\ UNCHANGED <<lease, mp, time, bot, terms, job, info, crossed>> /\ Event
        /\ type' \in [shape : Shapes, wanted : BOOLEAN]
    BY <1>1 DEF ConfigChanges, machines
  <2>2. /\ Evolves /\ RequestsAreSettled' /\ LeaseIsCoherent'
        /\ \A v \in Workers : Keeps(v)
    BY <2>1, SameEvolves
  <2>3. TypeOK'
    BY <1>0, <2>1, EventIsTyped DEF TypeOK
  <2>4. QED
    BY <2>1, <2>2, <2>3, OtherStep
<1>2. CASE CreateLease
  <2>1. /\ UNCHANGED <<mp, time, bot, terms, job, info, crossed, type, events>>
        /\ lease' = NewLease(lease.count, type.shape) /\ ~lease.here
    BY <1>2 DEF CreateLease, machines
  <2>2. /\ lease' \in MachineLease /\ lease'.count = lease.count /\ LeaseIsCoherent'
        /\ lease'.req = 0
    BY <1>0, <2>1, NewLeaseIs, EmptyIsCoherent
  <2>3. lease.req = 0 /\ ~lease.expires
    BY <1>0, <2>1 DEF LeaseIsCoherent
  <2>4. \A r \in Requests : r <= lease'.count /\ lease'.req # r => Settled(r)
    BY <2>2, <2>3 DEF LeaseInv, RequestsAreSettled
  <2>5. lease.count <= lease'.count /\ lease'.req \in {0, lease'.count}
        /\ \A r \in Requests : r # 0
    BY <1>0, <2>2 DEF Requests
  <2>6. Evolves /\ RequestsAreSettled'
    BY <2>1, <2>2, <2>3, <2>4, <2>5, LeaseWrite
  <2>7. \A v \in Workers : Keeps(v)
    BY <2>3 DEF Keeps
  <2>8. TypeOK'
    BY <1>0, <2>1, <2>2, <2>5 DEF TypeOK
  <2>9. QED
    BY <2>1, <2>2, <2>6, <2>7, <2>8, OtherStep
<1>3. CASE UpdateLease
  <2>1. /\ UNCHANGED <<mp, time, bot, terms, job, info, crossed, type, events>>
        /\ lease' = [lease EXCEPT !.shape = type.shape] /\ lease.expires
    BY <1>3 DEF UpdateLease, ShapeMayChange, machines
  <2>2. /\ lease' \in MachineLease /\ lease'.count = lease.count /\ lease'.req = lease.req
        /\ lease'.expires = lease.expires /\ lease'.here = lease.here
        /\ lease'.host = lease.host /\ lease'.bot = lease.bot /\ lease'.term = lease.term
        /\ lease'.instructed = lease.instructed /\ lease'.connected = lease.connected
    BY <1>0, <2>1 DEF MachineLease
  <2>3. LeaseIsCoherent'
    BY <1>0, <2>1, <2>2 DEF LeaseIsCoherent, BotIsOfMachine, Given
  <2>4. \A r \in Requests : r <= lease'.count /\ lease'.req # r => Settled(r)
    BY <2>2 DEF LeaseInv, RequestsAreSettled
  <2>5. lease.count <= lease'.count /\ lease'.req \in {0, lease'.count}
    BY <1>0, <2>2
  <2>6. Evolves /\ RequestsAreSettled'
    BY <1>0, <2>1, <2>2, <2>4, <2>5, LeaseWrite DEF LeaseIsCoherent, Given
  <2>7. \A v \in Workers : Keeps(v)
    BY <2>2 DEF Keeps
  <2>8. TypeOK'
    BY <1>0, <2>1, <2>2, <2>5 DEF TypeOK
  <2>9. QED
    BY <2>1, <2>3, <2>6, <2>7, <2>8, OtherStep
<1>4. CASE DrainLease
  <2>1. /\ UNCHANGED <<mp, time, bot, terms, crossed>> /\ UNCHANGED <<job, info, type, events>>
        /\ lease' = [lease EXCEPT !.drained = TRUE]
    BY <1>4 DEF DrainLease, machines
  <2>2. /\ lease' \in MachineLease /\ SameRequest(lease, lease') /\ lease'.bot = lease.bot
        /\ lease'.term = lease.term /\ lease'.instructed = lease.instructed
        /\ lease'.connected = lease.connected
    BY <1>0, <2>1 DEF MachineLease, SameRequest
  <2>3. /\ LeaseIsCoherent' /\ lease'.req \in {0, lease'.count} /\ lease.count <= lease'.count
        /\ \A r \in Requests : r <= lease'.count /\ lease'.req # r => Settled(r)
        /\ \A r \in Requests : mp[r].state = "none" /\ lease.req = r
                                => lease'.shape = lease.shape
        /\ \A v \in Workers : Keeps(v)
    BY <2>1, <2>2, LeaseOfBot, FieldWrite
  <2>4. Evolves /\ RequestsAreSettled'
    BY <2>1, <2>2, <2>3, LeaseWrite
  <2>5. TypeOK'
    BY <1>0, <2>1, <2>2, <2>3 DEF TypeOK
  <2>6. QED
    BY <2>1, <2>3, <2>4, <2>5, OtherStep
<1>5. QED
  BY <1>1, <1>2, <1>3, <1>4 DEF Cron

-----------------------------------------------------------------------------
(* Steps of the Machine Provider, the bots and the termination tasks *)

\* What may become of the machine of a request.
MovesOn(r) ==
    /\ Given(r) => GivenNext(r)
    /\ Settled(r) => SettledNext(r)
    /\ bot[r] \in {"gone", "lost"} => bot'[r] \in {"gone", "lost"}
    /\ mp[r].state # "none" => mp'[r].state # "none" /\ mp'[r].shape = mp[r].shape
    /\ mp[r].state = "none" /\ mp'[r].state # "none"
         => r <= lease.count /\ (lease.req = r => mp'[r].shape = lease.shape)
    /\ ~GivenNext(r) => time'[r] = "running"

\* Termination tasks are added, and stay for their machine.
TermsGrow == \A i \in DOMAIN terms : i \in DOMAIN terms' /\ terms'[i].host = terms[i].host

\* What tasks rely on stays true while machines and termination tasks move on.
LEMMA WorldStep ==
    ASSUME LeaseInv, UNCHANGED <<lease, crossed>>, \A r \in Requests : MovesOn(r), TermsGrow
    PROVE  /\ Evolves /\ RequestsAreSettled' /\ LeaseIsCoherent'
           /\ \A v \in Workers : Keeps(v)
<1>1. lease.count \in Nat /\ lease.req \in 0 .. MaxRequests
      /\ (lease.req # 0 => lease.req \in Requests) /\ \A r \in Requests : r \in Nat
  BY LeaseAssumption DEF LeaseInv, TypeOK, MachineLease, Requests
<1>2. Evolves
  BY <1>1 DEF Evolves, MovesOn, TermsGrow, Given, GivenNext, Settled, SettledNext
<1>3. RequestsAreSettled'
  BY <1>1 DEF LeaseInv, RequestsAreSettled, MovesOn, Given, GivenNext, Settled, SettledNext
<1>4. LeaseIsCoherent'
  BY <1>1 DEF LeaseInv, LeaseIsCoherent, BotIsOfMachine, MovesOn, TermsGrow, Given, GivenNext
<1>5. QED
  BY <1>2, <1>3, <1>4 DEF Keeps

\* Machines that stay as they are move on.
LEMMA StaysAsItIs ==
    ASSUME LeaseInv, NEW r \in Requests,
           mp'[r] = mp[r], time'[r] = time[r],
           bot'[r] = bot[r] \/ bot[r] \notin {"gone", "lost"}
    PROVE  MovesOn(r)
BY DEF MovesOn, Given, GivenNext, Settled, SettledNext, LeaseInv, RequestsAreSettled

\* A task of the queue goes on while the rest moves on.
LEMMA WorldGoes ==
    ASSUME LeaseInv, UNCHANGED <<lease, type, crossed>>, \A r \in Requests : MovesOn(r),
           TermsGrow, NEW w \in Workers, NEW step \in Steps \ {"send", "terminating"},
           Goes(w, step), Event \/ UNCHANGED events,
           mp' \in [Requests -> Request],
           time' \in [Requests -> {"running", "early", "over"}],
           bot' \in [Requests -> {"off", "told"} \cup Connected \cup {"destroyed"}],
           info' \in [Requests -> {"none", "alive", "dead"}],
           terms' \in Seq(Term), Len(terms') <= MaxTerms,
           LET r == job[w].seen.req
           IN  /\ step \in WithMachine => r # 0 /\ GivenNext(r)
               /\ step \in WithHost => job[w].seen.host = r
               /\ step \in {"cleanup", "clear"} => SettledNext(r)
               /\ step = "release" => job[w].then = "active" \/ bot'[r] \in {"gone", "lost"}
               /\ step \in ByKey /\ ~crossed => lease.expires /\ lease.req = r
    PROVE  LeaseInv'
<1>0. TypeOK
  BY DEF LeaseInv
<1>1. /\ Evolves /\ RequestsAreSettled' /\ LeaseIsCoherent'
      /\ \A v \in Workers : Keeps(v)
  BY WorldStep
<1>2. TypeOK'
  <2>1. job' \in [Workers -> Job] /\ events' \in 0 .. MaxEvents
    BY <1>0, GoesTo, EventIsTyped
  <2>2. QED
    BY <1>0, <2>1 DEF TypeOK, Job, Request, Term
<1>3. lease'.count \in Nat
  BY <1>0, ReadRequest
<1>4. JobIsSound(w)'
  BY <1>1, <1>3, JobGoes
<1>5. \A v \in Workers \ {w} : job'[v] = job[v]
  BY <1>0, GoesTo
<1>6. QED
  BY <1>1, <1>2, <1>4, <1>5, TaskStep

\* What WorldGoes asks of the variables that do not change.
LEMMA TypesOf ==
    ASSUME LeaseInv
    PROVE  /\ mp \in [Requests -> Request]
           /\ time \in [Requests -> {"running", "early", "over"}]
           /\ bot \in [Requests -> {"off", "told"} \cup Connected \cup {"destroyed"}]
           /\ info \in [Requests -> {"none", "alive", "dead"}]
           /\ terms \in Seq(Term) /\ Len(terms) <= MaxTerms /\ DOMAIN terms = 1 .. Len(terms)
           /\ job \in [Workers -> Job] /\ lease \in MachineLease
BY DEF LeaseInv, TypeOK, Request, Term, Job

\* A task sends the request; the Machine Provider has it already, as it is sent.
LEMMA SendStep ==
    ASSUME LeaseInv, NEW w \in Workers, SendLeaseRequest(w)
    PROVE  LeaseInv'
<1> DEFINE r == job[w].seen.req
           shape == job[w].seen.shape
<1>0. /\ TypeOK /\ JobIsSound(w) /\ job[w].step = "send" /\ r \in 0 .. MaxRequests
      /\ (r # 0 => r \in Requests) /\ shape \in Shapes
  BY ReadRequest DEF LeaseInv, SendLeaseRequest, Job, MachineLease
<1>1. /\ r \in Requests /\ r <= lease.count
      /\ shape = IF mp[r].state = "none" THEN lease.shape ELSE mp[r].shape
  BY <1>0 DEF JobIsSound
<1>2. /\ UNCHANGED <<lease, type, time, bot, info, terms, crossed>>
      /\ mp' = IF mp[r].state = "none"
               THEN [mp EXCEPT ![r] = [state |-> "untriaged", shape |-> shape]] ELSE mp
      /\ Event \/ UNCHANGED events
      /\ Goes(w, AfterSend(r, shape)) \/ Goes(w, "idle")
  BY DEF SendLeaseRequest
<1>3. /\ \A q \in Requests : q # r => mp'[q] = mp[q]
      /\ mp[r].state # "none" => mp'[r] = mp[r]
      /\ mp[r].state = "none" => mp'[r] = [state |-> "untriaged", shape |-> shape]
      /\ mp' \in [Requests -> Request]
  BY <1>0, <1>1, <1>2, TypesOf DEF Request
<1>4. \A q \in Requests : MovesOn(q)
  <2> SUFFICES ASSUME NEW q \in Requests PROVE MovesOn(q)
    OBVIOUS
  <2>1. CASE q # r \/ mp[r].state # "none"
    BY <1>2, <1>3, <2>1, StaysAsItIs
  <2>2. CASE q = r /\ mp[r].state = "none"
    BY <1>1, <1>2, <1>3, <2>2
       DEF MovesOn, Given, GivenNext, Settled, SettledNext, LeaseInv, RequestsAreSettled
  <2>3. QED
    BY <2>1, <2>2
<1>5. \E step \in {"idle", "log", "clear"} :
         /\ Goes(w, step) /\ (step = "log" => Given(r))
         /\ step = "clear" => mp[r].state = "reclaimed"
  <2>1. mp[r].state \in {"none", "untriaged", "leased", "released", "reclaimed"}
    BY <1>1, TypesOf DEF Request
  <2>2. mp[r].state # "none" => mp[r].shape = shape
    BY <1>1
  <2>3. /\ AfterSend(r, shape) \in {"idle", "log", "clear"}
        /\ AfterSend(r, shape) = "log" => Given(r)
        /\ AfterSend(r, shape) = "clear" => mp[r].state = "reclaimed"
    BY <2>1, <2>2 DEF AfterSend, Given
  <2> HIDE DEF r, shape
  <2>4. QED
    BY <1>2, <2>3
<1>6. PICK step \in {"idle", "log", "clear"} :
         /\ Goes(w, step) /\ (step = "log" => Given(r))
         /\ step = "clear" => mp[r].state = "reclaimed"
  BY <1>5
<1>7. /\ step \in {"log", "clear"} => r # 0 /\ GivenNext(r)
      /\ step = "clear" => SettledNext(r)
  BY <1>1, <1>3, <1>6, LeaseAssumption DEF Given, GivenNext, SettledNext, Requests
<1>8. TermsGrow
  BY <1>2 DEF TermsGrow
<1>9. QED
  BY <1>2, <1>3, <1>4, <1>6, <1>7, <1>8, TypesOf, WorldGoes
     DEF Steps, LastSteps, WithMachine, WithHost, ByKey

\* A task tells the machine to connect, unless it is too late.
LEMMA InstructStep ==
    ASSUME LeaseInv, NEW w \in Workers, SendConnectionInstruction(w)
    PROVE  LeaseInv'
<1> DEFINE r == job[w].seen.req
           over == mp[r].state = "reclaimed" \/ time[r] = "over"
<1>0. /\ TypeOK /\ JobIsSound(w) /\ job[w].step = "instruct" /\ (r # 0 => r \in Requests)
  BY ReadRequest DEF LeaseInv, SendConnectionInstruction
<1>1. /\ r \in Requests /\ r # 0 /\ Given(r)
      /\ ~crossed => lease.expires /\ lease.req = r
  BY <1>0 DEF JobIsSound, WithMachine, ByKey
<1>2. /\ UNCHANGED <<lease, type, mp, time, info, terms, crossed>>
      /\ bot' = IF over \/ bot[r] # "off" THEN bot ELSE [bot EXCEPT ![r] = "told"]
      /\ Event \/ UNCHANGED events
      /\ Goes(w, IF over THEN "clear" ELSE "instructed") \/ Goes(w, "idle")
  BY DEF SendConnectionInstruction
<1>3. bot' \in [Requests -> {"off", "told"} \cup Connected \cup {"destroyed"}]
      /\ \A q \in Requests : bot'[q] = bot[q] \/ bot[q] = "off"
  BY <1>1, <1>2, TypesOf
<1>4. \A q \in Requests : MovesOn(q)
  BY <1>2, <1>3, StaysAsItIs
<1>5. PICK step \in {"idle", "clear", "instructed"} : Goes(w, step) /\ (step = "clear" => over)
  BY <1>2
<1>6. GivenNext(r) /\ (over => SettledNext(r))
  BY <1>1, <1>2 DEF Given, GivenNext, SettledNext
<1>7. TermsGrow
  BY <1>2 DEF TermsGrow
<1>8. QED
  BY <1>1, <1>2, <1>3, <1>4, <1>5, <1>6, <1>7, TypesOf, WorldGoes
     DEF Steps, LastSteps, WithMachine, WithHost, ByKey

\* A task releases the machine of its request.
LEMMA ReleaseStep ==
    ASSUME LeaseInv, NEW w \in Workers, Release(w)
    PROVE  LeaseInv'
<1> DEFINE r == job[w].seen.req
           then == job[w].then
<1>0. /\ TypeOK /\ JobIsSound(w) /\ job[w].step = "release" /\ (r # 0 => r \in Requests)
      /\ then \in {"idle", "active"}
  BY ReadRequest DEF LeaseInv, Release, Job
<1>1. r \in Requests /\ r # 0 /\ Given(r) /\ job[w].seen.host = r
  BY <1>0 DEF JobIsSound, WithMachine, WithHost
<1> DEFINE released == [mp EXCEPT ![r].state = "released"]
<1>2. /\ UNCHANGED <<lease, type, time, bot, info, terms, crossed>>
      /\ Event \/ UNCHANGED events
      /\ \/ mp' = mp /\ Goes(w, then)
         \/ /\ mp' = IF mp[r].state = "leased" THEN released ELSE mp
            /\ Goes(w, "clear") \/ Goes(w, "cleanup")
  <2>1. CASE Event /\ Goes(w, then) /\ UNCHANGED mp
    BY <2>1 DEF Release
  <2>2. CASE /\ mp' = IF mp[r].state = "leased" THEN released ELSE mp
             /\ Goes(w, IF then = "active" /\ info[r] = "none" THEN "clear" ELSE "cleanup")
             /\ UNCHANGED events
    <3> HIDE DEF released
    <3>1. QED
      BY <2>2 DEF Release
  <2>3. QED
    BY <2>1, <2>2 DEF Release
<1>3. /\ mp' \in [Requests -> Request]
      /\ \A q \in Requests : \/ mp'[q] = mp[q]
                             \/ /\ mp[q].state = "leased" /\ mp'[q].state = "released"
                                /\ mp'[q].shape = mp[q].shape
      /\ mp' = released => mp'[r].state = "released"
  <2>1. /\ released \in [Requests -> Request] /\ released[r].state = "released"
        /\ released[r].shape = mp[r].shape /\ \A q \in Requests \ {r} : released[q] = mp[q]
    BY <1>1, TypesOf DEF Request
  <2> HIDE DEF released
  <2>2. QED
    BY <1>2, <2>1, TypesOf
<1> HIDE DEF released
<1>4. \A q \in Requests : MovesOn(q)
  <2> SUFFICES ASSUME NEW q \in Requests PROVE MovesOn(q)
    OBVIOUS
  <2>1. CASE mp'[q] = mp[q]
    BY <1>2, <2>1, StaysAsItIs
  <2>2. CASE mp'[q] # mp[q]
    BY <1>2, <1>3, <2>2 DEF MovesOn, Given, GivenNext, Settled, SettledNext
  <2>3. QED
    BY <2>1, <2>2
<1>5. PICK step \in {"idle", "active", "clear", "cleanup"} :
         /\ Goes(w, step)
         /\ step \in {"clear", "cleanup"} /\ mp[r].state = "leased"
              => mp' = released
  BY <1>0, <1>2
<1>6. GivenNext(r)
  BY <1>1, <1>4 DEF MovesOn
<1>7. step \in {"clear", "cleanup"} => SettledNext(r)
  BY <1>1, <1>2, <1>3, <1>5, TypesOf DEF Given, SettledNext, Request
<1>8. TermsGrow
  BY <1>2 DEF TermsGrow
<1>9. QED
  BY <1>1, <1>2, <1>3, <1>4, <1>5, <1>6, <1>7, <1>8, TypesOf, WorldGoes
     DEF Steps, LastSteps, WithMachine, WithHost, ByKey

\* A task forgets the bot.
LEMMA CleanupStep ==
    ASSUME LeaseInv, NEW w \in Workers, CleanupBot(w)
    PROVE  LeaseInv'
<1> DEFINE r == job[w].seen.req
<1>1. /\ JobIsSound(w) /\ job[w].step = "cleanup" /\ Goes(w, "clear")
      /\ UNCHANGED <<lease, type, mp, time, bot, terms, crossed>> /\ UNCHANGED events
      /\ info' = [info EXCEPT ![job[w].seen.host] = "none"]
  BY DEF LeaseInv, CleanupBot, machines
<1>2. r # 0 /\ Given(r) /\ Settled(r)
  BY <1>1 DEF JobIsSound, WithMachine
<1>3. info' \in [Requests -> {"none", "alive", "dead"}]
  BY <1>1, TypesOf
<1>4. TermsGrow /\ \A q \in Requests : MovesOn(q)
  BY <1>1, StaysAsItIs DEF TermsGrow
<1>5. GivenNext(r) /\ SettledNext(r)
  BY <1>1, <1>2 DEF Given, GivenNext, Settled, SettledNext
<1>6. QED
  BY <1>1, <1>2, <1>3, <1>4, <1>5, TypesOf, WorldGoes
     DEF Steps, LastSteps, WithMachine, WithHost, ByKey

\* A termination task that is added is the last, and the others stay.
LEMMA SchedulesOne ==
    ASSUME LeaseInv, NEW r \in Requests, Schedules(r)
    PROVE  /\ terms' \in Seq(Term) /\ Len(terms') <= MaxTerms /\ TermsGrow
           /\ Len(terms) + 1 \in DOMAIN terms' /\ terms'[Len(terms) + 1].host = r
           /\ Len(terms) + 1 \in 0 .. MaxTerms
<1> DEFINE term == [host |-> r, state |-> "pending"]
<1>1. terms \in Seq(Term) /\ MaxTerms \in Nat /\ Len(terms) \in Nat
  BY TypesOf, LeaseAssumption
<1>2. terms' = Append(terms, term) /\ Len(terms) < MaxTerms
  BY DEF Schedules
<1>3. term \in Term /\ term.host = r
  BY DEF Term
<1> HIDE DEF term
<1>4. /\ terms' \in Seq(Term) /\ Len(terms') = Len(terms) + 1
      /\ \A i \in 1 .. Len(terms) : terms'[i] = terms[i]
      /\ terms'[Len(terms) + 1] = term
  BY <1>1, <1>2, <1>3
<1>5. DOMAIN terms' = 1 .. Len(terms) + 1 /\ DOMAIN terms = 1 .. Len(terms)
  BY <1>1, <1>4
<1>6. TermsGrow
  BY <1>1, <1>4, <1>5 DEF TermsGrow
<1>7. QED
  BY <1>1, <1>2, <1>3, <1>4, <1>5, <1>6

\* A task that adds a termination task goes on with j.
LEMMA SchedulesGoes ==
    ASSUME LeaseInv, NEW w \in Workers,
           UNCHANGED <<lease, type, machines, info, events, crossed>>,
           terms' \in Seq(Term), Len(terms') <= MaxTerms, TermsGrow,
           job' \in [Workers -> Job], \A v \in Workers \ {w} : job'[v] = job[v],
           JobIsSound(w)'
    PROVE  LeaseInv'
<1>1. UNCHANGED <<lease, type, mp, time, bot, info, events, crossed>>
  BY DEF machines
<1>2. \A r \in Requests : MovesOn(r)
  BY <1>1, StaysAsItIs
<1>3. /\ Evolves /\ RequestsAreSettled' /\ LeaseIsCoherent'
      /\ \A v \in Workers : Keeps(v)
  BY <1>1, <1>2, WorldStep
<1>4. TypeOK'
  BY <1>1 DEF LeaseInv, TypeOK, Job, Term
<1>5. QED
  BY <1>3, <1>4, TaskStep

\* A task adds a termination task for a machine whose bot is absent.
LEMMA TerminateAbsentStep ==
    ASSUME LeaseInv, NEW w \in Workers, TerminateAbsent(w)
    PROVE  LeaseInv'
<1> DEFINE j == job[w]
           r == job[w].seen.req
           n == [[j EXCEPT !.step = "release"] EXCEPT !.then = "active"]
<1>0. /\ TypeOK /\ JobIsSound(w) /\ j.step = "absent" /\ (r # 0 => r \in Requests)
      /\ j \in Job
  BY ReadRequest DEF LeaseInv, TerminateAbsent
<1>1. r \in Requests /\ r # 0 /\ Given(r) /\ j.seen.host = r /\ r <= lease.count
  BY <1>0 DEF JobIsSound, WithMachine, WithHost
<1>2. /\ UNCHANGED <<lease, type, machines, info, events, crossed>>
      /\ Schedules(r) \/ UNCHANGED terms
      /\ job' = [job EXCEPT ![w] = n]
  <2>1. job' = [job EXCEPT ![w].step = "release", ![w].then = "active"]
    BY DEF TerminateAbsent
  <2>2. job' = [job EXCEPT ![w] = n]
    BY <2>1, TypesOf
  <2>3. QED
    BY <1>1, <2>2 DEF TerminateAbsent, SchedulesForAbsent
<1>3. terms' \in Seq(Term) /\ Len(terms') <= MaxTerms /\ TermsGrow
  <2>1. CASE Schedules(r)
    BY <1>1, <2>1, SchedulesOne
  <2>2. CASE UNCHANGED terms
    BY <2>2, TypesOf DEF TermsGrow
  <2>3. QED
    BY <1>2, <2>1, <2>2
<1>4. n \in Job /\ n.step = "release" /\ n.then = "active" /\ n.seen = j.seen
  BY <1>0 DEF Job, Steps
<1> HIDE DEF n
<1>5. job' \in [Workers -> Job] /\ job'[w] = n /\ \A v \in Workers \ {w} : job'[v] = job[v]
  BY <1>2, <1>4, TypesOf
<1>6. JobIsSound(w)'
  BY <1>1, <1>2, <1>4, <1>5 DEF JobIsSound, machines, Given, ByKey
<1>7. QED
  BY <1>2, <1>3, <1>5, <1>6, SchedulesGoes

\* A task adds the termination task that ends the lease early.
LEMMA ScheduleStep ==
    ASSUME LeaseInv, NEW w \in Workers, ScheduleTermination(w)
    PROVE  LeaseInv'
<1> DEFINE seen == job[w].seen
           r == seen.req
           term == Len(terms) + 1
           keys == [Keys(seen) EXCEPT !.term = term]
           n == [step |-> "terminating", then |-> "idle", seen |-> keys]
<1>0. /\ TypeOK /\ JobIsSound(w) /\ job[w].step = "active" /\ (r # 0 => r \in Requests)
      /\ seen \in MachineLease
  BY ReadRequest, TypesOf DEF LeaseInv, ScheduleTermination, Job
<1>1. r \in Requests /\ r # 0 /\ Given(r) /\ seen.host = r /\ r <= lease.count
  BY <1>0 DEF JobIsSound, WithHost
<1>2. /\ UNCHANGED <<lease, type, machines, info, events, crossed>>
      /\ Schedules(r) /\ job' = [job EXCEPT ![w] = n]
  BY <1>1 DEF ScheduleTermination
<1>3. /\ terms' \in Seq(Term) /\ Len(terms') <= MaxTerms /\ TermsGrow
      /\ term \in DOMAIN terms' /\ terms'[term].host = r /\ term \in 0 .. MaxTerms
  BY <1>1, <1>2, SchedulesOne
<1> HIDE DEF term
<1>4. keys \in MachineLease /\ keys.req = r /\ keys.host = r /\ keys.term = term
  BY <1>0, <1>1, <1>3, KeysOf DEF MachineLease
<1> HIDE DEF keys
<1>5. n \in Job /\ n.step = "terminating" /\ n.then = "idle" /\ n.seen = keys
  BY <1>4 DEF Job, Steps, LastSteps
<1> HIDE DEF n
<1>6. job' \in [Workers -> Job] /\ job'[w] = n /\ \A v \in Workers \ {w} : job'[v] = job[v]
  BY <1>2, <1>5, TypesOf
<1>7. JobIsSound(w)'
  BY <1>1, <1>2, <1>3, <1>4, <1>5, <1>6 DEF JobIsSound, WithMachine, WithHost, ByKey
<1>8. QED
  BY <1>2, <1>3, <1>6, <1>7, SchedulesGoes

\* What goes on outside of the tasks of the queue.
LEMMA OutsideStep ==
    ASSUME LeaseInv, UNCHANGED <<lease, type, job, crossed>>, Event \/ UNCHANGED events,
           \A r \in Requests : MovesOn(r), TermsGrow,
           mp' \in [Requests -> Request],
           time' \in [Requests -> {"running", "early", "over"}],
           bot' \in [Requests -> {"off", "told"} \cup Connected \cup {"destroyed"}],
           info' \in [Requests -> {"none", "alive", "dead"}],
           terms' \in Seq(Term), Len(terms') <= MaxTerms
    PROVE  LeaseInv'
<1>1. /\ Evolves /\ RequestsAreSettled' /\ LeaseIsCoherent'
      /\ \A v \in Workers : Keeps(v)
  BY WorldStep
<1>2. TypeOK'
  <2>1. events' \in 0 .. MaxEvents /\ TypeOK
    BY EventIsTyped DEF LeaseInv
  <2>2. QED
    BY <2>1 DEF TypeOK, Request, Term
<1>3. QED
  BY <1>1, <1>2, OtherStep

\* A bot that is destroyed.
LEMMA DestroyedIs ==
    ASSUME NEW step \in {"off", "told"} \cup Connected \cup {"destroyed"}
    PROVE  /\ Destroyed(step) \in {"off", "told"} \cup Connected \cup {"destroyed"}
           /\ step \in {"gone", "lost"} => Destroyed(step) \in {"gone", "lost"}
BY DEF Destroyed, Connected

\* The Machine Provider gives a machine, the time of the lease goes on, and the
\* machine is taken back.
LEMMA ProviderStep ==
    ASSUME LeaseInv, NEW r \in Requests, Fulfill(r) \/ LeaseAges(r) \/ Reclaim(r)
    PROVE  LeaseInv'
<1>1. /\ UNCHANGED <<lease, type, job, info, terms, events, crossed>>
      /\ TermsGrow
  BY DEF Fulfill, LeaseAges, Reclaim, TermsGrow
<1>2. CASE Fulfill(r)
  <2>1. /\ mp[r].state = "untriaged" /\ mp' = [mp EXCEPT ![r].state = "leased"]
        /\ UNCHANGED <<time, bot>>
    BY <1>2 DEF Fulfill
  <2>2. /\ mp' \in [Requests -> Request]
        /\ mp'[r].state = "leased" /\ mp'[r].shape = mp[r].shape
        /\ \A q \in Requests \ {r} : mp'[q] = mp[q]
    BY <2>1, TypesOf DEF Request
  <2>3. MovesOn(r)
    BY <2>1, <2>2 DEF MovesOn, Given, GivenNext, Settled, SettledNext
  <2>4. \A q \in Requests \ {r} : MovesOn(q)
    BY <2>1, <2>2, StaysAsItIs
  <2>5. QED
    BY <1>1, <2>1, <2>2, <2>3, <2>4, TypesOf, OutsideStep
<1>3. CASE LeaseAges(r)
  <2>1. /\ mp[r].state \notin {"none", "untriaged"} /\ time[r] # "over" /\ UNCHANGED <<mp, bot>>
        /\ time' = [time EXCEPT ![r] = IF EarlyRelease /\ @ = "running" THEN "early" ELSE "over"]
    BY <1>3 DEF LeaseAges
  <2>2. /\ time' \in [Requests -> {"running", "early", "over"}]
        /\ \A q \in Requests \ {r} : time'[q] = time[q]
    BY <2>1, TypesOf
  <2>3. mp[r].state \in {"leased", "released", "reclaimed"}
    BY <2>1, TypesOf DEF Request
  <2>4. MovesOn(r)
    BY <2>1, <2>3 DEF MovesOn, Given, GivenNext, Settled, SettledNext
  <2>5. \A q \in Requests \ {r} : MovesOn(q)
    BY <2>1, <2>2, StaysAsItIs
  <2>6. QED
    BY <1>1, <2>1, <2>2, <2>4, <2>5, TypesOf, OutsideStep
<1>4. CASE Reclaim(r)
  <2>1. /\ mp[r].state \in {"leased", "released"} /\ mp' = [mp EXCEPT ![r].state = "reclaimed"]
        /\ bot' = [bot EXCEPT ![r] = Destroyed(bot[r])] /\ UNCHANGED time
    BY <1>4 DEF Reclaim
  <2>2. /\ mp' \in [Requests -> Request]
        /\ mp'[r].state = "reclaimed" /\ mp'[r].shape = mp[r].shape
        /\ \A q \in Requests \ {r} : mp'[q] = mp[q]
    BY <2>1, TypesOf DEF Request
  <2>3. /\ bot' \in [Requests -> {"off", "told"} \cup Connected \cup {"destroyed"}]
        /\ bot[r] \in {"gone", "lost"} => bot'[r] \in {"gone", "lost"}
        /\ \A q \in Requests \ {r} : bot'[q] = bot[q]
    BY <2>1, TypesOf, DestroyedIs
  <2>4. MovesOn(r)
    BY <2>1, <2>2, <2>3 DEF MovesOn, Given, GivenNext, Settled, SettledNext
  <2>5. \A q \in Requests \ {r} : MovesOn(q)
    BY <2>1, <2>2, <2>3, StaysAsItIs
  <2>6. QED
    BY <1>1, <2>1, <2>2, <2>3, <2>4, <2>5, TypesOf, OutsideStep
<1>5. QED
  BY <1>2, <1>3, <1>4

\* The state of a termination task changes.
LEMMA TermEnds ==
    ASSUME LeaseInv, NEW i \in DOMAIN terms, NEW state \in {"completed", "failed"},
           terms' = [terms EXCEPT ![i].state = state]
    PROVE  terms' \in Seq(Term) /\ Len(terms') <= MaxTerms /\ TermsGrow
<1>1. terms \in Seq(Term) /\ i \in 1 .. Len(terms) /\ Len(terms) <= MaxTerms
  BY TypesOf
<1>2. terms[i] \in Term
  BY <1>1
<1> DEFINE term == [terms[i] EXCEPT !.state = state]
<1>3. terms' = [terms EXCEPT ![i] = term] /\ term \in Term /\ term.host = terms[i].host
  BY <1>1, <1>2 DEF Term
<1> HIDE DEF term
<1>4. terms' \in Seq(Term) /\ Len(terms') = Len(terms)
  BY <1>1, <1>3
<1>5. TermsGrow
  BY <1>1, <1>3, <1>4 DEF TermsGrow
<1>6. QED
  BY <1>1, <1>4, <1>5

\* The bot of a machine goes on, or dies.
LEMMA BotStep ==
    ASSUME LeaseInv, NEW r \in Requests, Bot(r)
    PROVE  LeaseInv'
<1>1. UNCHANGED <<lease, type, job, mp, time, crossed>> /\ (Event \/ UNCHANGED events)
  BY DEF Bot, BotConnects, RunsTermination, Exits, Dies, IsDead, Moves, machines
<1>2. /\ bot' \in [Requests -> {"off", "told"} \cup Connected \cup {"destroyed"}]
      /\ \A q \in Requests : bot'[q] = bot[q] \/ bot[q] \notin {"gone", "lost"}
  <2>1. \/ bot' = bot
        \/ /\ bot' = [bot EXCEPT ![r] = Destroyed(bot[r])]
           /\ bot[r] \in {"told", "running", "terminating"}
        \/ /\ bot[r] \in {"told", "running", "terminating"}
           /\ \E to \in Connected : bot' = [bot EXCEPT ![r] = to]
    BY DEF Bot, BotConnects, RunsTermination, Exits, Dies, IsDead, Moves, machines, Connected
  <2>2. CASE bot' = bot
    BY <2>2, TypesOf
  <2>3. CASE /\ bot' = [bot EXCEPT ![r] = Destroyed(bot[r])]
             /\ bot[r] \in {"told", "running", "terminating"}
    BY <2>3, TypesOf, DestroyedIs
  <2>4. CASE /\ bot[r] \in {"told", "running", "terminating"}
             /\ \E to \in Connected : bot' = [bot EXCEPT ![r] = to]
    BY <2>4, TypesOf
  <2>5. QED
    BY <2>1, <2>2, <2>3, <2>4
<1>3. \A q \in Requests : MovesOn(q)
  BY <1>1, <1>2, StaysAsItIs
<1>4. info' \in [Requests -> {"none", "alive", "dead"}]
  <2>1. info' = info \/ \E i \in {"alive", "dead"} : info' = [info EXCEPT ![r] = i]
    BY DEF Bot, BotConnects, RunsTermination, Exits, Dies, IsDead
  <2>2. QED
    BY <2>1, TypesOf
<1>5. terms' \in Seq(Term) /\ Len(terms') <= MaxTerms /\ TermsGrow
  <2>1. \/ terms' = terms
        \/ \E i \in DOMAIN terms : terms' = [terms EXCEPT ![i].state = "completed"]
    BY DEF Bot, BotConnects, RunsTermination, Exits, Dies, IsDead
  <2>2. CASE terms' = terms
    BY <2>2, TypesOf DEF TermsGrow
  <2>3. QED
    BY <2>1, <2>2, TermEnds
<1>6. QED
  BY <1>1, <1>2, <1>3, <1>4, <1>5, TypesOf, OutsideStep

\* A termination task is canceled or expires.
LEMMA ExpiresStep ==
    ASSUME LeaseInv, TerminationExpires
    PROVE  LeaseInv'
<1>1. /\ UNCHANGED <<lease, type, job, mp, time, bot, info, crossed>> /\ Event
      /\ \E i \in DOMAIN terms : terms' = [terms EXCEPT ![i].state = "failed"]
  BY DEF TerminationExpires, machines
<1>2. terms' \in Seq(Term) /\ Len(terms') <= MaxTerms /\ TermsGrow
  BY <1>1, TermEnds
<1>3. \A q \in Requests : MovesOn(q)
  BY <1>1, StaysAsItIs
<1>4. QED
  BY <1>1, <1>2, <1>3, TypesOf, OutsideStep

-----------------------------------------------------------------------------
(* The theorems *)

\* The invariant holds at first.
LEMMA InitLease ==
    ASSUME Init
    PROVE  LeaseInv
<1> DEFINE shape == CHOOSE s \in Shapes : TRUE
<1>0. shape \in Shapes /\ 0 \in 0 .. MaxRequests /\ 0 \in 0 .. MaxEvents /\ 0 <= MaxTerms
  BY Defaults, LeaseAssumption
<1> HIDE DEF shape
<1>1. /\ type = [shape |-> shape, wanted |-> TRUE] /\ type.shape = shape
      /\ lease = NoLease(0, shape)
      /\ mp = [r \in Requests |-> [state |-> "none", shape |-> shape]]
  BY DEF Init, shape
<1>2. /\ lease \in MachineLease /\ lease.count = 0 /\ lease.req = 0 /\ lease.expires = FALSE
      /\ lease.host = 0 /\ lease.bot = 0 /\ lease.instructed = FALSE
      /\ lease.connected = FALSE /\ lease.term = 0
  <2>1. NoLease(0, shape) \in MachineLease
    BY <1>0, Defaults
  <2>2. QED
    BY <1>1, <2>1 DEF NoLease, NewLease
<1>3. TypeOK
  <2>1. job \in [Workers -> Job]
    BY Defaults DEF Init
  <2>2. mp \in [Requests -> Request]
    BY <1>0, <1>1 DEF Request
  <2>3. terms \in Seq(Term) /\ Len(terms) = 0
    BY DEF Init
  <2>4. type \in [shape : Shapes, wanted : BOOLEAN]
    BY <1>0, <1>1
  <2>5. QED
    BY <1>0, <1>2, <2>1, <2>2, <2>3, <2>4 DEF TypeOK, Init, Job, Request, Term
<1>4. RequestsAreSettled
  <2>1. \A r \in Requests : r \in Nat /\ r > 0
    BY LeaseAssumption DEF Requests
  <2>2. \A r \in Requests : mp[r].state = "none" /\ time[r] = "running"
    BY <1>1 DEF Init
  <2>3. QED
    BY <1>2, <2>1, <2>2 DEF RequestsAreSettled
<1>5. LeaseIsCoherent
  BY <1>2 DEF LeaseIsCoherent, BotIsOfMachine
<1>6. \A w \in Workers : JobIsSound(w)
  <2>1. \A w \in Workers : job[w] = Idle
    BY DEF Init
  <2>2. QED
    BY <1>2, <2>1, Defaults DEF JobIsSound, WithMachine, WithHost, ByKey
<1>7. QED
  BY <1>3, <1>4, <1>5, <1>6 DEF LeaseInv

\* The invariant is inductive.
THEOREM LeaseInvHolds == Spec => []LeaseInv
<1>1. Init => LeaseInv
  BY InitLease
<1>2. LeaseInv /\ [Next]_vars => LeaseInv'
  <2> SUFFICES ASSUME LeaseInv, [Next]_vars PROVE LeaseInv'
    OBVIOUS
  <2>1. CASE Cron
    BY <2>1, CronStep
  <2>2. ASSUME NEW w \in Workers, Manage(w) PROVE LeaseInv'
    <3>1. CASE ManageLease(w)
      BY <3>1, ManageLeaseStep
    <3>2. CASE UpdateClientRequestId(w)
      BY <3>2, NewRequestStep
    <3>3. CASE DeleteMachineLease(w)
      BY <3>3, DeleteStep
    <3>4. CASE SendLeaseRequest(w)
      BY <3>4, SendStep
    <3>5. CASE LogLeaseFulfillment(w)
      BY <3>5, LogStep
    <3>6. CASE EnsureBotInfo(w)
      BY <3>6, EnsureBotInfoStep
    <3>7. CASE SendConnectionInstruction(w)
      BY <3>7, InstructStep
    <3>8. CASE AssociateInstructionTs(w) \/ AssociateConnectionTs(w)
      BY <3>8, AssociateStep
    <3>9. CASE CheckForConnection(w) \/ IsPresent(w)
      BY <3>9, CheckStep
    <3>10. CASE TerminateAbsent(w)
      BY <3>10, TerminateAbsentStep
    <3>11. CASE TerminationFails(w)
      BY <3>11, GoesIdle DEF TerminationFails
    <3>12. CASE Release(w)
      BY <3>12, ReleaseStep
    <3>13. CASE CleanupBot(w)
      BY <3>13, CleanupStep
    <3>14. CASE ClearLeaseRequest(w)
      BY <3>14, ClearStep
    <3>15. CASE ManageActive(w)
      BY <3>15, ManageActiveStep
    <3>16. CASE ScheduleTermination(w)
      BY <3>16, ScheduleStep
    <3>17. CASE AssociateTerminationTask(w) \/ ClearTerminationTask(w)
      BY <3>17, TerminationTaskStep
    <3>18. QED
      BY <2>2, <3>1, <3>2, <3>3, <3>4, <3>5, <3>6, <3>7, <3>8, <3>9, <3>10, <3>11, <3>12,
         <3>13, <3>14, <3>15, <3>16, <3>17 DEF Manage
  <2>3. ASSUME NEW w \in Workers, TaskDies(w) PROVE LeaseInv'
    BY <2>3, GoesIdle DEF TaskDies
  <2>4. ASSUME NEW r \in Requests, Fulfill(r) \/ LeaseAges(r) \/ Reclaim(r) PROVE LeaseInv'
    BY <2>4, ProviderStep
  <2>5. ASSUME NEW r \in Requests, Bot(r) PROVE LeaseInv'
    BY <2>5, BotStep
  <2>6. CASE TerminationExpires
    BY <2>6, ExpiresStep
  <2>7. CASE UNCHANGED vars
    <3>1. UNCHANGED <<lease, type, job, mp, time, bot, info, terms, events, crossed>>
      BY <2>7 DEF vars, machines
    <3>2. \A q \in Requests : MovesOn(q)
      BY <3>1, StaysAsItIs
    <3>3. TermsGrow
      BY <3>1 DEF TermsGrow
    <3>4. QED
      BY <3>1, <3>2, <3>3, TypesOf, OutsideStep
  <2>8. QED
    BY <2>1, <2>2, <2>3, <2>4, <2>5, <2>6, <2>7 DEF Next
<1>3. QED
  BY <1>1, <1>2, PTL DEF Spec

\* Every field keeps the type of the entity of the code.
THEOREM TypeCorrect == Spec => []TypeOK
<1>1. LeaseInv => TypeOK
  BY DEF LeaseInv
<1>2. QED
  BY <1>1, LeaseInvHolds, PTL

\* A machine that the Machine Provider holds for a request is never forgotten:
\* the lease only moves on from requests that are settled.
THEOREM MachineIsRememberedHolds == Spec => []MachineIsRemembered
<1>1. LeaseInv => MachineIsRemembered
  <2> SUFFICES ASSUME LeaseInv, NEW r \in Requests,
                      mp[r].state \in {"untriaged", "leased"}, time[r] # "over"
               PROVE  lease.here /\ lease.req = r
    BY DEF MachineIsRemembered
  <2>1. r \in Nat /\ r # 0 /\ lease.count \in Nat
    BY LeaseAssumption DEF LeaseInv, TypeOK, MachineLease, Requests
  <2>2. lease.req = r
    BY <2>1 DEF LeaseInv, RequestsAreSettled, Settled
  <2>3. QED
    BY <2>1, <2>2 DEF LeaseInv, LeaseIsCoherent
<1>2. QED
  BY <1>1, LeaseInvHolds, PTL

\* A request that is sent again is the one that was sent before, although tasks
\* send what they read long ago.
THEOREM RequestIsStableHolds == Spec => []RequestIsStable
<1>1. LeaseInv => RequestIsStable
  BY DEF LeaseInv, JobIsSound, RequestIsStable
<1>2. QED
  BY <1>1, LeaseInvHolds, PTL

\* What is stored about a bot is about the bot of the machine, whatever tasks
\* overlap.
THEOREM BotIsOfMachineHolds == Spec => []BotIsOfMachine
<1>1. LeaseInv => BotIsOfMachine
  BY DEF LeaseInv, LeaseIsCoherent
<1>2. QED
  BY <1>1, LeaseInvHolds, PTL

\* A machine is released before its time only when its bot has shut down.
THEOREM ReleasedWhenShutDownHolds == Spec => []ReleasedWhenShutDown
<1>1. LeaseInv => ReleasedWhenShutDown
  BY DEF LeaseInv, JobIsSound, ReleasedWhenShutDown
<1>2. QED
  BY <1>1, LeaseInvHolds, PTL

=============================================================================
