------------------------ MODULE IsolateServerProofs ------------------------
(***************************************************************************)
(* Theorems about IsolateServer for every set of clients, contents and     *)
(* workers, and any number of faults.                                      *)
(*                                                                         *)
(* A task puts a copy of the entry it read before, and a handler finalizes *)
(* an upload it looked at before: the invariant says of these copies, not  *)
(* only of the entry, that what they hold is right, and that whoever holds *)
(* one while a deletion runs is known to overlap with it.                  *)
(***************************************************************************)
EXTENDS IsolateServer, TLAPS

-----------------------------------------------------------------------------
(* The invariant *)

Job ==
    [step : Steps, kind : Kinds, seen : ContentEntry,
     content : Contents \cup {NoContent}, overlapped : BOOLEAN]

\* No copy of the content has another digest, neither what is served nor what a
\* task is about to put or to cache.
CopiesAreRight ==
    /\ AnswerIsRight
    /\ \A w \in Workers : /\ job[w].seen.content \in Good \cup {NoContent}
                          /\ job[w].content \in Good \cup {NoContent}

\* Whoever runs while a task deletes is marked.
OverlapIsSeen ==
    \A w \in Workers : Deletes(w) =>
        /\ \A h \in storing : h.overlapped
        /\ \A v \in Workers \ {w} : job[v].step # "idle" => job[v].overlapped

\* An entry whose content is in Google Storage, put without overlap.
Stored(e) == e.here /\ e.content = NoContent /\ ~e.overlapped

\* Between the two deletions of a task there is no such entry.
UnlinkedIsNotStored ==
    (\E w \in Workers : job[w].step = "unlink") => ~Stored(entry)

\* The task j may put the entry that it has seen.
MayPut(j) == j.step \in {"stat", "read", "put", "retag"}

\* Once the file is gone nobody is about to put such an entry.
NothingIsStored ==
    file = NoFile =>
        /\ \A h \in storing : h.overlapped
        /\ \A w \in Workers : MayPut(job[w]) /\ Stored(job[w].seen) => job[w].overlapped

ServerInv ==
    /\ TypeOK
    /\ CopiesAreRight
    /\ OverlapIsSeen
    /\ UnlinkedIsNotStored
    /\ NothingIsStored
    /\ DanglingOnlyByRace

-----------------------------------------------------------------------------
(* A step of a task *)

\* What exists by default has its type and nothing in it.
LEMMA Defaults ==
    /\ NoEntry \in ContentEntry /\ ~NoEntry.here /\ NoEntry.content = NoContent
    /\ Idle \in Job /\ Idle.step = "idle" /\ Idle.seen = NoEntry
    /\ Idle.content = NoContent
    /\ NoFile.content = NoContent /\ NoFile.recent = FALSE
BY DEF NoEntry, ContentEntry, Ages, Idle, Job, Steps, Kinds, NoFile

\* When w goes on to n, the other tasks and the handlers only get marked; all of
\* them are when w starts to delete.
LEMMA GoesMarks ==
    ASSUME TypeOK, NEW w \in Workers, NEW n \in Job, Goes(w, n)
    PROVE  /\ job' \in [Workers -> Job] /\ job'[w] = n
           /\ storing' \subseteq [client : Clients, size : Nat, overlapped : BOOLEAN]
           /\ \A v \in Workers \ {w} :
                 /\ job'[v].step = job[v].step /\ job'[v].seen = job[v].seen
                 /\ job'[v].content = job[v].content
                 /\ job[v].overlapped => job'[v].overlapped
                 /\ job[v] = Idle => job'[v] = Idle
           /\ (\A h \in storing : h.overlapped) => \A h \in storing' : h.overlapped
           /\ n.step \in {"purge", "unlink"} /\ ~Deletes(w) =>
                 /\ \A h \in storing' : h.overlapped
                 /\ \A v \in Workers \ {w} : job[v].step # "idle" => job'[v].overlapped
<1>1. job \in [Workers -> Job]
  BY DEF TypeOK, Job
<1>2. CASE n.step \in {"purge", "unlink"} /\ ~Deletes(w)
  <2>1. /\ job' = [v \in Workers |-> IF v = w THEN n
                                      ELSE IF job[v].step = "idle" THEN job[v]
                                      ELSE [job[v] EXCEPT !.overlapped = TRUE]]
        /\ storing' = {[h EXCEPT !.overlapped = TRUE] : h \in storing}
    BY <1>2 DEF Goes
  <2>2. \A j \in Job : /\ [j EXCEPT !.overlapped = TRUE] \in Job
                       /\ [j EXCEPT !.overlapped = TRUE].step = j.step
                       /\ [j EXCEPT !.overlapped = TRUE].seen = j.seen
                       /\ [j EXCEPT !.overlapped = TRUE].content = j.content
                       /\ [j EXCEPT !.overlapped = TRUE].overlapped
    BY DEF Job
  <2>3. /\ job' \in [Workers -> Job] /\ job'[w] = n
        /\ \A v \in Workers \ {w} :
              /\ job'[v].step = job[v].step /\ job'[v].seen = job[v].seen
              /\ job'[v].content = job[v].content
              /\ job[v].overlapped => job'[v].overlapped
              /\ job[v].step # "idle" => job'[v].overlapped
              /\ job[v] = Idle => job'[v] = Idle
    BY <1>1, <2>1, <2>2, Defaults
  <2>4. /\ \A h \in storing' : h.overlapped
        /\ storing' \subseteq [client : Clients, size : Nat, overlapped : BOOLEAN]
    <3> DEFINE Handler == [client : Clients, size : Nat, overlapped : BOOLEAN]
    <3>1. \A h \in Handler : /\ [h EXCEPT !.overlapped = TRUE] \in Handler
                             /\ [h EXCEPT !.overlapped = TRUE].overlapped
      OBVIOUS
    <3>2. storing \subseteq Handler
      BY DEF TypeOK
    <3>3. \A g \in storing' : \E h \in storing : g = [h EXCEPT !.overlapped = TRUE]
      BY <2>1
    <3> HIDE DEF Handler
    <3>4. \A g \in storing' : g \in Handler /\ g.overlapped
      BY <3>1, <3>2, <3>3
    <3>5. QED
      BY <3>4 DEF Handler
  <2>5. QED
    BY <2>3, <2>4
<1>3. CASE ~(n.step \in {"purge", "unlink"} /\ ~Deletes(w))
  <2>1. job' = [job EXCEPT ![w] = n] /\ storing' = storing
    BY <1>3 DEF Goes
  <2>2. job' \in [Workers -> Job] /\ job'[w] = n /\ \A v \in Workers \ {w} : job'[v] = job[v]
    BY <1>1, <2>1
  <2>3. QED
    BY <1>3, <2>1, <2>2 DEF TypeOK
<1>4. QED
  BY <1>2, <1>3

\* The variables that Goes does not change.
StateIsTyped ==
    /\ entry \in ContentEntry
    /\ file \in [content : Contents \cup {NoContent}, recent : BOOLEAN]
    /\ file.content = NoContent => file = NoFile
    /\ cached \in Contents \cup {NoContent}
    /\ client \in [Clients -> {"idle", "present", "push", "pushed", "done", "failed"}]
    /\ verifyTq \in Nat /\ tagTq \in Nat
    /\ faults \in 0 .. MaxFaults /\ lost \in BOOLEAN

\* A task may go on to n if n is marked when others delete, if what it leaves of
\* the entry and of the file fits together, and if it then no longer relies on a
\* file that it deleted.
LEMMA TaskStep ==
    ASSUME ServerInv, NEW w \in Workers, NEW n \in Job, Goes(w, n),
           n.step = "idle" => n = Idle,
           n.seen.content \in Good \cup {NoContent}, n.content \in Good \cup {NoContent},
           StateIsTyped', AnswerIsRight',
           n.step # "idle" /\ (\E u \in Workers \ {w} : Deletes(u)) => n.overlapped,
           n.step = "flush" => Deletes(w),
           (n.step = "unlink" \/ \E u \in Workers \ {w} : job[u].step = "unlink")
              => ~Stored(entry'),
           file' = NoFile => \/ file = NoFile /\ (MayPut(n) /\ Stored(n.seen) => n.overlapped)
                             \/ Deletes(w) /\ ~MayPut(n),
           Stored(entry') => file' # NoFile
    PROVE  ServerInv'
<1>0. TypeOK
  BY DEF ServerInv
<1>1. /\ job'[w] = n
      /\ \A v \in Workers \ {w} :
            /\ job'[v].step = job[v].step /\ job'[v].seen = job[v].seen
            /\ job'[v].content = job[v].content
            /\ job[v].overlapped => job'[v].overlapped
      /\ (\A h \in storing : h.overlapped) => \A h \in storing' : h.overlapped
      /\ n.step \in {"purge", "unlink"} /\ ~Deletes(w) =>
            /\ \A h \in storing' : h.overlapped
            /\ \A v \in Workers \ {w} : job[v].step # "idle" => job'[v].overlapped
  BY <1>0, GoesMarks
<1>a. TypeOK'
  <2>1. \A v \in Workers : job'[v].step = "idle" => job'[v] = Idle
    BY <1>0, GoesMarks DEF TypeOK
  <2>2. job' \in [Workers -> Job]
    BY <1>0, GoesMarks
  <2>3. storing' \subseteq [client : Clients, size : Nat, overlapped : BOOLEAN]
    BY <1>0, GoesMarks
  <2>4. QED
    BY <2>1, <2>2, <2>3 DEF TypeOK, StateIsTyped, Job
<1>2. CopiesAreRight'
  BY <1>1 DEF ServerInv, CopiesAreRight
<1>3. OverlapIsSeen'
  <2> SUFFICES ASSUME NEW u \in Workers, Deletes(u)'
               PROVE  /\ \A h \in storing' : h.overlapped
                      /\ \A v \in Workers \ {u} : job'[v].step # "idle" => job'[v].overlapped
    BY DEF OverlapIsSeen
  <2>1. CASE u = w
    <3>1. n.step \in {"purge", "unlink", "flush"}
      BY <1>1, <2>1 DEF Deletes
    <3>2. CASE Deletes(w)
      BY <1>1, <2>1, <3>2 DEF ServerInv, OverlapIsSeen
    <3>3. CASE ~Deletes(w)
      BY <1>1, <2>1, <3>1, <3>3
    <3>4. QED
      BY <3>2, <3>3
  <2>2. CASE u # w
    <3>1. Deletes(u)
      BY <1>1, <2>2 DEF Deletes
    <3>2. n.step # "idle" => n.overlapped
      BY <2>2, <3>1
    <3>3. QED
      BY <1>1, <2>2, <3>1, <3>2 DEF ServerInv, OverlapIsSeen
  <2>3. QED
    BY <2>1, <2>2
<1>4. UnlinkedIsNotStored'
  BY <1>1 DEF UnlinkedIsNotStored, Stored
<1>5. NothingIsStored'
  <2> SUFFICES ASSUME file' = NoFile
               PROVE  /\ \A h \in storing' : h.overlapped
                      /\ \A v \in Workers : MayPut(job'[v]) /\ Stored(job'[v].seen)
                                               => job'[v].overlapped
    BY DEF NothingIsStored
  <2>1. CASE file = NoFile /\ (MayPut(n) /\ Stored(n.seen) => n.overlapped)
    BY <1>1, <2>1 DEF ServerInv, NothingIsStored, MayPut
  <2>2. CASE Deletes(w) /\ ~MayPut(n)
    BY <1>1, <2>2 DEF ServerInv, OverlapIsSeen, MayPut
  <2>3. QED
    BY <2>1, <2>2
<1>6. DanglingOnlyByRace'
  BY DEF DanglingOnlyByRace, InStorage, Stored
<1>7. QED
  BY <1>a, <1>2, <1>3, <1>4, <1>5, <1>6 DEF ServerInv

\* A step in which no task moves: a new handler knows whether a task deletes and
\* has seen a file, and what is put was there or comes from a handler.
LEMMA QuietStep ==
    ASSUME ServerInv, TypeOK', AnswerIsRight', job' = job,
           \A h \in storing' : h \in storing \/ (h.overlapped = SomeDelete /\ file' # NoFile),
           Stored(entry') => Stored(entry) \/ \E h \in storing : ~h.overlapped,
           file' = NoFile => file = NoFile
    PROVE  ServerInv'
<1>1. CopiesAreRight'
  BY DEF ServerInv, CopiesAreRight
<1>2. OverlapIsSeen'
  BY DEF ServerInv, OverlapIsSeen, Deletes, SomeDelete
<1>3. UnlinkedIsNotStored'
  BY DEF ServerInv, UnlinkedIsNotStored, OverlapIsSeen, Deletes
<1>4. NothingIsStored'
  BY DEF ServerInv, NothingIsStored
<1>5. DanglingOnlyByRace'
  BY DEF ServerInv, DanglingOnlyByRace, NothingIsStored, Stored, InStorage
<1>6. QED
  BY <1>1, <1>2, <1>3, <1>4, <1>5 DEF ServerInv

-----------------------------------------------------------------------------
(* The invariant holds *)

\* The contents that have the digest may be sent; an answer is typed.
LEMMA GoodIsContent == Good \subseteq Contents /\ NoContent \notin Contents
BY IsolateAssumption

LEMMA AnsweredIsTyped ==
    ASSUME TypeOK, NEW c \in Clients,
           NEW next \in {"idle", "present", "push", "pushed", "done", "failed"},
           Answered(c, next)
    PROVE  /\ client' \in [Clients -> {"idle", "present", "push", "pushed", "done", "failed"}]
           /\ faults' \in 0 .. MaxFaults
BY IsolateAssumption DEF TypeOK, Answered, Fault

\* At first there is nothing.
LEMMA InitServer == Init => ServerInv
<1> SUFFICES ASSUME Init
             PROVE  ServerInv
  OBVIOUS
<1>1. TypeOK
  <2>1. /\ Idle \in [step : Steps, kind : Kinds, seen : ContentEntry,
                    content : Contents \cup {NoContent}, overlapped : BOOLEAN]
        /\ NoFile \in [content : Contents \cup {NoContent}, recent : BOOLEAN]
    BY Defaults DEF Job, NoFile
  <2>2. 0 \in 0 .. MaxFaults
    BY IsolateAssumption
  <2>3. QED
    BY <2>1, <2>2, Defaults DEF Init, TypeOK
<1>2. QED
  BY <1>1, Defaults DEF Init, ServerInv, CopiesAreRight, AnswerIsRight, OverlapIsSeen,
     UnlinkedIsNotStored, NothingIsStored, DanglingOnlyByRace, InStorage, Stored, Deletes, MayPut

\* Clients.
LEMMA ClientStep ==
    ASSUME ServerInv, NEW c \in Clients, Client(c)
    PROVE  ServerInv'
<1>0. TypeOK /\ AnswerIsRight
  BY DEF ServerInv, CopiesAreRight
<1>1. CASE Preupload(c) \/ GiveUp(c)
  <2>1. TypeOK'
    BY <1>0, <1>1 DEF Preupload, GiveUp, TypeOK
  <2>2. QED
    BY <1>0, <1>1, <2>1, QuietStep DEF Preupload, GiveUp, AnswerIsRight
<1>2. CASE FinalizeStart(c)
  <2>1. SizeOf[file.content] \in Nat
    BY <1>0, <1>2, IsolateAssumption DEF FinalizeStart, TypeOK
  <2>2. SomeDelete \in BOOLEAN
    BY DEF SomeDelete
  <2> DEFINE g == [client |-> c, size |-> SizeOf[file.content], overlapped |-> SomeDelete]
  <2>3. g \in [client : Clients, size : Nat, overlapped : BOOLEAN] /\ g.overlapped = SomeDelete
    BY <2>1, <2>2
  <2>4. storing' = storing \cup {g}
    BY <1>2 DEF FinalizeStart
  <2> HIDE DEF g
  <2>5. TypeOK'
    BY <1>0, <1>2, <2>3, <2>4 DEF FinalizeStart, TypeOK
  <2>6. QED
    BY <1>0, <1>2, <2>3, <2>4, <2>5, QuietStep DEF FinalizeStart, AnswerIsRight
<1>3. ASSUME NEW content \in Contents, StoreInline(c, content)
      PROVE  ServerInv'
  <2>1. /\ entry' \in ContentEntry /\ entry'.content = content /\ content \in Good
    BY <1>3, IsolateAssumption DEF StoreInline, NewContentEntry, ContentEntry, Ages, MatchesDigest
  <2>2. TypeOK'
    BY <1>0, <1>3, <2>1, AnsweredIsTyped DEF StoreInline, TypeOK
  <2>3. ~Stored(entry')
    BY <2>1, GoodIsContent DEF Stored
  <2>4. QED
    BY <1>0, <1>3, <2>1, <2>2, <2>3, QuietStep DEF StoreInline, AnswerIsRight
<1>4. ASSUME NEW content \in Contents, UploadFile(c, content)
      PROVE  ServerInv'
  <2>1. /\ file' # NoFile /\ file'.content \in Contents
        /\ file' \in [content : Contents \cup {NoContent}, recent : BOOLEAN]
    BY <1>4 DEF UploadFile, NoFile
  <2>2. TypeOK'
    BY <1>0, <1>4, <2>1, AnsweredIsTyped, GoodIsContent DEF UploadFile, TypeOK
  <2>3. QED
    BY <1>0, <1>4, <2>1, <2>2, QuietStep DEF UploadFile, AnswerIsRight
<1>5. QED
  BY <1>1, <1>2, <1>3, <1>4 DEF Client

\* Handlers that finalize.
LEMMA FinalizeStep ==
    ASSUME ServerInv, NEW h \in storing, Finalize(h)
    PROVE  ServerInv'
<1>0. TypeOK /\ AnswerIsRight /\ h \in [client : Clients, size : Nat, overlapped : BOOLEAN]
  BY DEF ServerInv, CopiesAreRight, TypeOK
<1>1. CASE FinalizeTxn(h)
  <2>1. /\ entry' \in ContentEntry /\ entry'.content = NoContent
        /\ entry'.overlapped = h.overlapped
    BY <1>0, <1>1 DEF FinalizeTxn, NewContentEntry, ContentEntry, Ages
  <2>2. /\ client' \in [Clients -> {"idle", "present", "push", "pushed", "done", "failed"}]
        /\ faults' \in 0 .. MaxFaults
    BY <1>0, <1>1, AnsweredIsTyped DEF FinalizeTxn, TypeOK
  <2>3. TypeOK'
    <3>1. /\ storing' = storing \ {h} /\ verifyTq' = verifyTq + 1
          /\ UNCHANGED <<file, cached, tagTq, job, lost>>
      BY <1>1 DEF FinalizeTxn, EnqueueVerify
    <3>2. QED
      BY <1>0, <2>1, <2>2, <3>1 DEF TypeOK
  <2>4. QED
    BY <1>0, <1>1, <2>1, <2>3, QuietStep DEF FinalizeTxn, AnswerIsRight, Stored
<1>2. CASE FinalizeFails(h)
  <2>1. TypeOK'
    BY <1>0, <1>2, IsolateAssumption DEF FinalizeFails, Fault, TypeOK
  <2>2. QED
    BY <1>0, <1>2, <2>1, QuietStep DEF FinalizeFails, AnswerIsRight
<1>3. QED
  BY <1>1, <1>2 DEF Finalize

\* Time.
LEMMA TimeStep ==
    ASSUME ServerInv, Time
    PROVE  ServerInv'
<1>0. TypeOK /\ AnswerIsRight
  BY DEF ServerInv, CopiesAreRight
<1>1. CASE EntryAges
  <2>1. /\ entry' \in ContentEntry /\ entry'.content = entry.content
        /\ Stored(entry') => Stored(entry)
    BY <1>0, <1>1 DEF EntryAges, TypeOK, ContentEntry, Ages, Stored
  <2>2. TypeOK'
    BY <1>0, <1>1, <2>1 DEF EntryAges, TypeOK
  <2>3. QED
    BY <1>0, <1>1, <2>1, <2>2, QuietStep DEF EntryAges, AnswerIsRight
<1>2. CASE FileAges
  <2>1. file.content # NoContent
    BY <1>0, <1>2, Defaults DEF FileAges, TypeOK
  <2>2. /\ file' \in [content : Contents \cup {NoContent}, recent : BOOLEAN]
        /\ file'.content = file.content
    BY <1>0, <1>2 DEF FileAges, TypeOK
  <2>3. TypeOK'
    BY <1>0, <1>2, <2>1, <2>2 DEF FileAges, TypeOK
  <2>4. QED
    BY <1>0, <1>2, <2>1, <2>2, <2>3, Defaults, QuietStep DEF FileAges, AnswerIsRight
<1>3. CASE MemcacheEvicts
  <2>1. TypeOK'
    BY <1>0, <1>3 DEF MemcacheEvicts, TypeOK
  <2>2. QED
    BY <1>0, <1>3, <2>1, QuietStep DEF MemcacheEvicts, AnswerIsRight
<1>4. QED
  BY <1>1, <1>2, <1>3 DEF Time

\* A task goes on, and leaves the entry and the file alone.
LEMMA TaskReads ==
    ASSUME ServerInv, NEW w \in Workers, NEW n \in Job, Goes(w, n),
           n.step = "idle" => n = Idle,
           n.seen.content \in Good \cup {NoContent}, n.content \in Good \cup {NoContent},
           StateIsTyped', entry' = entry, file' = file, cached' = cached,
           n.step # "idle" /\ (\E u \in Workers \ {w} : Deletes(u)) => n.overlapped,
           n.step # "flush", n.step = "unlink" => ~entry.here,
           file = NoFile /\ MayPut(n) /\ Stored(n.seen) => n.overlapped
    PROVE  ServerInv'
<1>1. AnswerIsRight'
  BY DEF ServerInv, CopiesAreRight, AnswerIsRight
<1>2. (n.step = "unlink" \/ \E u \in Workers \ {w} : job[u].step = "unlink")
         => ~Stored(entry')
  BY DEF ServerInv, UnlinkedIsNotStored, Stored
<1>3. Stored(entry') => file' # NoFile
  BY DEF ServerInv, DanglingOnlyByRace, InStorage, Stored
<1>4. file' = NoFile => file = NoFile /\ (MayPut(n) /\ Stored(n.seen) => n.overlapped)
  OBVIOUS
<1>5. QED
  BY <1>1, <1>2, <1>3, <1>4, TaskStep

\* What a task holds, and that it is marked when others delete.
LEMMA JobOf ==
    ASSUME ServerInv, NEW w \in Workers
    PROVE  /\ TypeOK /\ AnswerIsRight /\ job[w] \in Job
           /\ job[w].seen.content \in Good \cup {NoContent}
           /\ job[w].content \in Good \cup {NoContent}
           /\ job[w].step # "idle" /\ (\E u \in Workers \ {w} : Deletes(u))
                 => job[w].overlapped
           /\ file = NoFile /\ MayPut(job[w]) /\ Stored(job[w].seen) => job[w].overlapped
BY DEF ServerInv, CopiesAreRight, TypeOK, Job, OverlapIsSeen, NothingIsStored

\* A task that starts has seen the entry that there is, or none.
LEMMA NewTask ==
    ASSUME ServerInv, NEW w \in Workers, NEW kind \in Kinds, NEW step \in Steps,
           NEW seen \in {entry, NoEntry}, StateIsTyped',
           Goes(w, Task(kind, step, seen)), UNCHANGED <<entry, file, cached>>,
           step \notin {"idle", "unlink", "flush"}
    PROVE  ServerInv'
<1> DEFINE n == Task(kind, step, seen)
<1>1. SomeDelete \in BOOLEAN
  BY DEF SomeDelete
<1>2. seen \in ContentEntry /\ seen.content \in Good \cup {NoContent}
  BY Defaults DEF ServerInv, TypeOK, CopiesAreRight, AnswerIsRight
<1>3. /\ n \in Job /\ n.step = step /\ n.seen = seen /\ n.content = NoContent
      /\ n.overlapped = SomeDelete
  BY <1>1, <1>2 DEF Task, Job
<1>4. file = NoFile => ~Stored(seen)
  BY Defaults DEF ServerInv, DanglingOnlyByRace, InStorage, Stored
<1>5. (\E u \in Workers \ {w} : Deletes(u)) => SomeDelete
  BY DEF SomeDelete
<1> HIDE DEF n
<1>6. Goes(w, n)
  BY DEF n
<1>7. QED
  BY <1>2, <1>3, <1>4, <1>5, <1>6, TaskReads

\* No task to start: the item of the queue is used up.
LEMMA NothingStarts ==
    ASSUME ServerInv, StateIsTyped', UNCHANGED <<entry, file, cached, job, storing>>
    PROVE  ServerInv'
<1>1. TypeOK'
  BY DEF ServerInv, TypeOK, StateIsTyped
<1>2. AnswerIsRight'
  BY DEF ServerInv, CopiesAreRight, AnswerIsRight
<1>3. QED
  BY <1>1, <1>2, QuietStep

\* A task starts.
LEMMA StartStep ==
    ASSUME ServerInv, NEW w \in Workers, Start(w)
    PROVE  ServerInv'
<1>0. TypeOK
  BY DEF ServerInv
<1>1. CASE StartVerify(w)
  <2>1. StateIsTyped' /\ UNCHANGED <<entry, file, cached>>
    BY <1>0, <1>1 DEF StartVerify, TypeOK, StateIsTyped
  <2>2. CASE ToVerify
    BY <1>1, <2>1, <2>2, NewTask DEF StartVerify, Kinds, Steps
  <2>3. CASE ~ToVerify
    BY <1>1, <2>1, <2>3, NothingStarts DEF StartVerify
  <2>4. QED
    BY <2>2, <2>3
<1>2. CASE StartTag(w)
  <2>1. StateIsTyped' /\ UNCHANGED <<entry, file, cached>>
    BY <1>0, <1>2 DEF StartTag, TypeOK, StateIsTyped
  <2>2. CASE entry.here /\ entry.age # "fresh"
    BY <1>2, <2>1, <2>2, NewTask DEF StartTag, Kinds, Steps
  <2>3. CASE ~(entry.here /\ entry.age # "fresh")
    BY <1>2, <2>1, <2>3, NothingStarts DEF StartTag
  <2>4. QED
    BY <2>2, <2>3
<1>3. CASE StartCleanup(w) \/ StartTrim(w) \/ StartObliterate(w)
  <2>1. StateIsTyped' /\ UNCHANGED <<entry, file, cached>>
    BY <1>0, <1>3 DEF StartCleanup, StartTrim, StartObliterate, TypeOK, StateIsTyped
  <2>2. \E kind \in Kinds, step \in Steps \ {"idle", "unlink", "flush"} :
           Goes(w, Task(kind, step, NoEntry))
    BY <1>3 DEF StartCleanup, StartTrim, StartObliterate, Kinds, Steps
  <2>3. QED
    BY <2>1, <2>2, NewTask
<1>4. QED
  BY <1>1, <1>2, <1>3 DEF Start

\* A task takes its next step and leaves the entry and the file alone.
LEMMA StepReads ==
    ASSUME ServerInv, NEW w \in Workers, NEW step \in Steps \ {"idle", "flush"},
           Step(w, step), job[w].step # "idle", step = "unlink" => ~entry.here,
           step \in {"stat", "read", "put", "retag"} => MayPut(job[w]),
           StateIsTyped', UNCHANGED <<entry, file, cached>>
    PROVE  ServerInv'
<1> DEFINE n == [job[w] EXCEPT !.step = step]
<1>0. /\ TypeOK /\ AnswerIsRight /\ job[w] \in Job
      /\ job[w].seen.content \in Good \cup {NoContent}
      /\ job[w].content \in Good \cup {NoContent}
      /\ job[w].step # "idle" /\ (\E u \in Workers \ {w} : Deletes(u))
            => job[w].overlapped
      /\ file = NoFile /\ MayPut(job[w]) /\ Stored(job[w].seen) => job[w].overlapped
  BY JobOf
<1>1. /\ n \in Job /\ n.step = step /\ n.seen = job[w].seen
      /\ n.content = job[w].content /\ n.overlapped = job[w].overlapped
  BY <1>0 DEF Job
<1>2. Goes(w, n)
  BY DEF Step
<1> HIDE DEF n
<1>3. n.step # "idle" /\ (\E u \in Workers \ {w} : Deletes(u)) => n.overlapped
  BY <1>0, <1>1
<1>4. file = NoFile /\ MayPut(n) /\ Stored(n.seen) => n.overlapped
  BY <1>0, <1>1 DEF MayPut
<1>5. QED
  BY <1>0, <1>1, <1>2, <1>3, <1>4, TaskReads

\* A task is over.
LEMMA TaskEnds ==
    ASSUME ServerInv, NEW w \in Workers, Goes(w, Idle), StateIsTyped', AnswerIsRight',
           (\E u \in Workers \ {w} : job[u].step = "unlink") => ~Stored(entry'),
           file' = NoFile => file = NoFile \/ Deletes(w),
           Stored(entry') => file' # NoFile
    PROVE  ServerInv'
<1>1. ~MayPut(Idle) /\ Idle.step # "flush" /\ Idle.step # "unlink"
  BY Defaults DEF MayPut
<1>2. QED
  BY <1>1, Defaults, TaskStep

\* Two copies of the entry that a task has seen are put.
LEMMA PutStep ==
    ASSUME ServerInv, NEW w \in Workers, Goes(w, Idle), StateIsTyped',
           job[w].step \in {"put", "retag"}, file' = file,
           entry'.here = job[w].seen.here, entry'.content = job[w].seen.content,
           entry'.overlapped = (job[w].seen.overlapped \/ job[w].overlapped),
           cached' \in {cached, job[w].content}
    PROVE  ServerInv'
<1>0. /\ TypeOK /\ AnswerIsRight /\ job[w] \in Job
      /\ job[w].seen.content \in Good \cup {NoContent}
      /\ job[w].content \in Good \cup {NoContent}
      /\ job[w].step # "idle" /\ (\E u \in Workers \ {w} : Deletes(u))
            => job[w].overlapped
      /\ file = NoFile /\ MayPut(job[w]) /\ Stored(job[w].seen) => job[w].overlapped
  BY JobOf
<1>1. AnswerIsRight'
  BY <1>0 DEF AnswerIsRight
<1>2. Stored(entry') => Stored(job[w].seen) /\ ~job[w].overlapped
  BY DEF Stored
<1>3. MayPut(job[w])
  BY DEF MayPut
<1>4. Stored(entry') => file' # NoFile
  BY <1>0, <1>2, <1>3
<1>5. (\E u \in Workers \ {w} : job[u].step = "unlink") => ~Stored(entry')
  BY <1>0, <1>2 DEF Deletes
<1>6. QED
  BY <1>1, <1>4, <1>5, TaskEnds

\* A task goes on.
LEMMA RunStep ==
    ASSUME ServerInv, NEW w \in Workers, Run(w)
    PROVE  ServerInv'
<1>0. /\ TypeOK /\ AnswerIsRight /\ job[w] \in Job
      /\ job[w].seen.content \in Good \cup {NoContent}
      /\ job[w].content \in Good \cup {NoContent}
      /\ job[w].step # "idle" /\ (\E u \in Workers \ {w} : Deletes(u))
            => job[w].overlapped
      /\ file = NoFile /\ MayPut(job[w]) /\ Stored(job[w].seen) => job[w].overlapped
  BY JobOf
<1>1. CASE StatFile(w)
  <2>1. StateIsTyped' /\ UNCHANGED <<entry, file, cached>> /\ job[w].step = "stat"
    BY <1>0, <1>1 DEF StatFile, TypeOK, StateIsTyped
  <2>2. Step(w, "read") \/ Step(w, "purge")
    BY <1>1 DEF StatFile
  <2>3. QED
    BY <2>1, <2>2, StepReads DEF Steps, MayPut
<1>2. CASE ReadFile(w)
  <2>1. StateIsTyped' /\ UNCHANGED <<entry, file, cached>> /\ job[w].step = "read"
    BY <1>0, <1>2 DEF ReadFile, TypeOK, StateIsTyped
  <2>2. CASE ReadIsRight
    <3> DEFINE n == [job[w] EXCEPT !.step = "put", !.content = file.content]
    <3>1. Goes(w, n) /\ file.content \in Good
      BY <1>2, <2>2 DEF ReadFile, ReadIsRight
    <3>2. /\ n \in Job /\ n.step = "put" /\ n.seen = job[w].seen
          /\ n.content = file.content /\ n.overlapped = job[w].overlapped
      BY <1>0, <3>1, GoodIsContent DEF Job, Steps
    <3> HIDE DEF n
    <3>3. file # NoFile
      BY <3>1, GoodIsContent, Defaults
    <3>4. QED
      BY <1>0, <2>1, <3>1, <3>2, <3>3, TaskReads
  <2>3. CASE ~ReadIsRight
    <3>1. Step(w, "purge")
      BY <1>2, <2>3 DEF ReadFile
    <3>2. QED
      BY <2>1, <3>1, StepReads DEF Steps
  <2>4. QED
    BY <2>2, <2>3
<1>3. CASE PutVerified(w)
  <2> DEFINE e == [job[w].seen EXCEPT !.verified = TRUE, !.overlapped = @ \/ job[w].overlapped]
  <2>1. /\ e \in ContentEntry /\ e.here = job[w].seen.here
        /\ e.content = job[w].seen.content
        /\ e.overlapped = (job[w].seen.overlapped \/ job[w].overlapped)
    BY <1>0 DEF Job, ContentEntry
  <2>2. /\ entry' = e /\ cached' \in {cached, job[w].content} /\ Goes(w, Idle)
        /\ job[w].step = "put"
        /\ UNCHANGED <<file, client, verifyTq, tagTq, faults, lost>>
    BY <1>3 DEF PutVerified
  <2> HIDE DEF e
  <2>3. StateIsTyped'
    BY <1>0, <2>1, <2>2 DEF TypeOK, StateIsTyped, Job
  <2>4. QED
    BY <2>1, <2>2, <2>3, PutStep
<1>4. CASE Retag(w)
  <2> DEFINE e == [job[w].seen EXCEPT !.age = "fresh", !.overlapped = @ \/ job[w].overlapped]
  <2>1. /\ e \in ContentEntry /\ e.here = job[w].seen.here
        /\ e.content = job[w].seen.content
        /\ e.overlapped = (job[w].seen.overlapped \/ job[w].overlapped)
    BY <1>0 DEF Job, ContentEntry, Ages
  <2>2. /\ entry' = e /\ Goes(w, Idle) /\ job[w].step = "retag"
        /\ UNCHANGED <<file, cached, client, verifyTq, tagTq, faults, lost>>
    BY <1>4 DEF Retag
  <2> HIDE DEF e
  <2>3. StateIsTyped'
    BY <1>0, <2>1, <2>2 DEF TypeOK, StateIsTyped
  <2>4. QED
    BY <2>1, <2>2, <2>3, PutStep
<1>5. CASE LookupEntry(w)
  <2>1. StateIsTyped' /\ UNCHANGED <<entry, file, cached>> /\ job[w].step = "lookup"
    BY <1>0, <1>5 DEF LookupEntry, TypeOK, StateIsTyped
  <2>2. CASE entry.here
    <3>1. Goes(w, Idle)
      BY <1>5, <2>2 DEF LookupEntry
    <3>2. QED
      BY <2>1, <3>1, TaskEnds DEF ServerInv, CopiesAreRight, AnswerIsRight,
         UnlinkedIsNotStored, DanglingOnlyByRace, InStorage, Stored
  <2>3. CASE ~entry.here
    <3>1. Step(w, "unlink")
      BY <1>5, <2>3 DEF LookupEntry
    <3>2. QED
      BY <2>1, <2>3, <3>1, StepReads DEF Steps
  <2>4. QED
    BY <2>2, <2>3
<1>6. CASE PurgeEntry(w)
  <2> DEFINE n == [job[w] EXCEPT !.step = "unlink"]
  <2>1. /\ job[w].step = "purge" /\ entry' = NoEntry /\ Goes(w, n)
        /\ UNCHANGED <<file, cached, client, verifyTq, tagTq, faults, lost>>
    BY <1>6 DEF PurgeEntry, Delete, Step
  <2>2. /\ n \in Job /\ n.step = "unlink" /\ n.seen = job[w].seen
        /\ n.content = job[w].content /\ n.overlapped = job[w].overlapped
    BY <1>0 DEF Job, Steps
  <2> HIDE DEF n
  <2>3. StateIsTyped' /\ AnswerIsRight' /\ ~Stored(entry') /\ ~MayPut(n)
    BY <1>0, <2>1, <2>2, Defaults DEF TypeOK, StateIsTyped, AnswerIsRight, Stored, MayPut
  <2>4. QED
    BY <1>0, <2>1, <2>2, <2>3, TaskStep
<1>7. CASE UnlinkFile(w)
  <2>1. /\ job[w].step = "unlink" /\ file' = NoFile
        /\ UNCHANGED <<entry, cached, client, verifyTq, tagTq, faults, lost>>
    BY <1>7 DEF UnlinkFile, Delete
  <2>2. StateIsTyped' /\ AnswerIsRight' /\ ~Stored(entry') /\ Deletes(w)
    BY <1>0, <2>1, Defaults DEF TypeOK, StateIsTyped, AnswerIsRight, Deletes, ServerInv,
       UnlinkedIsNotStored, NoFile
  <2>3. CASE job[w].kind = "obliterate"
    <3> DEFINE n == [job[w] EXCEPT !.step = "flush"]
    <3>1. Goes(w, n)
      BY <1>7, <2>3 DEF UnlinkFile
    <3>2. /\ n \in Job /\ n.step = "flush" /\ n.seen = job[w].seen
          /\ n.content = job[w].content /\ n.overlapped = job[w].overlapped
      BY <1>0 DEF Job, Steps
    <3> HIDE DEF n
    <3>3. ~MayPut(n)
      BY <3>2 DEF MayPut
    <3>4. QED
      BY <1>0, <2>1, <2>2, <3>1, <3>2, <3>3, TaskStep
  <2>4. CASE job[w].kind # "obliterate"
    <3>1. Goes(w, Idle)
      BY <1>7, <2>4 DEF UnlinkFile
    <3>2. QED
      BY <2>1, <2>2, <3>1, TaskEnds
  <2>5. QED
    BY <2>3, <2>4
<1>8. CASE FlushMemcache(w)
  <2>1. /\ cached' = NoContent /\ Goes(w, Idle)
        /\ UNCHANGED <<entry, file, client, verifyTq, tagTq, faults, lost>>
    BY <1>8 DEF FlushMemcache
  <2>2. StateIsTyped' /\ AnswerIsRight'
    BY <1>0, <2>1 DEF TypeOK, StateIsTyped, AnswerIsRight
  <2>3. QED
    BY <2>1, <2>2, TaskEnds DEF ServerInv, UnlinkedIsNotStored, DanglingOnlyByRace,
       InStorage, Stored
<1>9. QED
  BY <1>1, <1>2, <1>3, <1>4, <1>5, <1>6, <1>7, <1>8 DEF Run

\* A task dies.
LEMMA DieStep ==
    ASSUME ServerInv, NEW w \in Workers, TaskDies(w)
    PROVE  ServerInv'
<1>0. TypeOK /\ AnswerIsRight
  BY JobOf
<1>1. /\ Goes(w, Idle) /\ UNCHANGED <<entry, file, cached, client>>
  BY DEF TaskDies
<1>2. /\ verifyTq' \in {verifyTq, verifyTq + 1} /\ tagTq' \in {tagTq, tagTq + 1}
      /\ lost' \in {lost, TRUE} /\ faults' = faults + 1 /\ faults < MaxFaults
  BY DEF TaskDies, Fault
<1>3. StateIsTyped' /\ AnswerIsRight'
  <2>1. verifyTq' \in Nat /\ tagTq' \in Nat /\ faults' \in 0 .. MaxFaults /\ lost' \in BOOLEAN
    <3>1. verifyTq \in Nat /\ tagTq \in Nat /\ faults \in 0 .. MaxFaults /\ lost \in BOOLEAN
      BY <1>0 DEF TypeOK
    <3>2. MaxFaults \in Nat
      BY IsolateAssumption
    <3>3. faults' \in 0 .. MaxFaults
      BY <1>2, <3>1, <3>2
    <3>4. verifyTq' \in Nat /\ tagTq' \in Nat
      BY <1>2, <3>1
    <3>5. lost' \in BOOLEAN
      BY <1>2, <3>1
    <3>6. QED
      BY <3>3, <3>4, <3>5
  <2>2. QED
    BY <1>0, <1>1, <2>1 DEF TypeOK, StateIsTyped, AnswerIsRight
<1>4. QED
  BY <1>1, <1>3, TaskEnds DEF ServerInv, UnlinkedIsNotStored, DanglingOnlyByRace,
     InStorage, Stored

\* The invariant holds whatever clients, handlers and tasks interleave.
THEOREM ServerInvHolds == Spec => []ServerInv
<1>1. Init => ServerInv
  BY InitServer
<1>2. ServerInv /\ [Next]_vars => ServerInv'
  <2> SUFFICES ASSUME ServerInv, [Next]_vars
               PROVE  ServerInv'
    OBVIOUS
  <2>1. CASE UNCHANGED vars
    <3>1. TypeOK' /\ AnswerIsRight'
      BY <2>1 DEF ServerInv, CopiesAreRight, AnswerIsRight, TypeOK, vars
    <3>2. QED
      BY <2>1, <3>1, QuietStep DEF vars
  <2>2. QED
    BY <2>1, ClientStep, FinalizeStep, StartStep, RunStep, DieStep, TimeStep DEF Next
<1>3. QED
  BY <1>1, <1>2, PTL DEF Spec

\* Every variable keeps its type.
THEOREM TypeCorrect == Spec => []TypeOK
<1>1. ServerInv => TypeOK
  BY DEF ServerInv
<1>2. QED
  BY <1>1, ServerInvHolds, PTL

\* What the server answers itself has the digest.
THEOREM AnswerIsRightHolds == Spec => []AnswerIsRight
<1>1. ServerInv => AnswerIsRight
  BY DEF ServerInv, CopiesAreRight
<1>2. QED
  BY <1>1, ServerInvHolds, PTL

\* An entry without its file was put by someone who overlapped with a deletion.
THEOREM DanglingOnlyByRaceHolds == Spec => []DanglingOnlyByRace
<1>1. ServerInv => DanglingOnlyByRace
  BY DEF ServerInv
<1>2. QED
  BY <1>1, ServerInvHolds, PTL

=============================================================================
