---------------------------- MODULE IsolateFetch ----------------------------
(***************************************************************************)
(* The client of the isolate server that fetches a tree: the .isolated     *)
(* file and what it includes are parsed as they arrive, and their data     *)
(* files mapped, from a cache on disk that other trees left behind.  The   *)
(* main thread asks a pool of threads for what the cache does not have.    *)
(* The threads write to the cache, which drops what was used least         *)
(* recently when the disk is full, whatever the main thread thinks of it.  *)
(*                                                                         *)
(* A process may die between two steps.  The next one loads the state of   *)
(* the cache that was saved last, and finds the files as they are.         *)
(***************************************************************************)
EXTENDS Integers, SequencesExt

CONSTANTS
    Isolateds, Files,   \* digests of .isolated files, and of data files
    NoDigest,
    Root,               \* the .isolated file to fetch
    Includes,           \* the includes of each, left to right
    Holds,              \* the digest of each path that an .isolated file has
    Size,               \* sizes of the digests
    Disk,               \* what is free on the disk when the cache is empty
    MinFree, MaxSize,   \* min_free_space and max_cache_size
    Threads,            \* MAX_WORKERS
    Retries,            \* RETRIES
    MaxErrors,          \* bound: fetches that fail, files that are damaged
    MaxRuns             \* bound: processes, one after the other

Digests == Isolateds \cup Files

ASSUME FetchAssumption ==
    /\ NoDigest \notin Digests /\ IsFiniteSet(Digests) /\ Root \in Isolateds
    /\ Includes \in [Isolateds -> Seq(Isolateds)]
    /\ \A i \in Isolateds : Range(Holds[i]) \subseteq Files
    /\ \A d \in Digests : Size[d] \in Nat
    /\ {Disk, MinFree, MaxSize, Threads, Retries, MaxErrors, MaxRuns} \subseteq Nat

VARIABLES
    file,       \* the files of the cache directory
    saved,      \* state.json
    lru,        \* DiskCache._lru, the oldest first
    free,       \* DiskCache._free_disk
    protected,  \* DiskCache._protected
    pending, fetched, accessed,     \* FetchQueue
    channel,    \* FetchQueue._channel
    task,       \* the tasks of the thread pool
    unfinished, \* Queue.unfinished_tasks of the thread pool
    ending,     \* threads between the end of a task and task_done()
    at, on,     \* the main thread: where it is, and with which digest
    children, paths,    \* what it is about to add to the fetch queue
    seen, loaded,       \* .isolated files that were asked for, and were parsed
    mapped,     \* the paths that were mapped
    outcome,
    runs, errors,
    read,       \* history: what was read from the cache
    used,       \* history: what this process touched or added
    dropped     \* history: what this process dropped to make room

cacheVars == <<file, lru, free, protected, used, dropped>>
queueVars == <<pending, fetched, accessed>>
poolVars == <<channel, task, unfinished, ending>>
mainVars == <<at, on, children, paths, seen, loaded, mapped, outcome, read>>
bounds == <<runs, errors>>
vars == <<cacheVars, saved, queueVars, poolVars, mainVars, bounds>>

-----------------------------------------------------------------------------
(* The tree.                                                               *)

\* walk_includes(): the root first, then its children, left to right.
Walk[i \in Isolateds] == <<i>> \o FlattenSeq([k \in DOMAIN Includes[i] |-> Walk[Includes[i][k]]])

Order == Walk[Root]

\* Files are asked for in this order, up to the first that is not parsed yet.
Processed(parsed) == {Order[k] : k \in {n \in DOMAIN Order : \A m \in 1 .. n : Order[m] \in parsed}}

PathsOf(nodes) == UNION {DOMAIN Holds[i] : i \in nodes}

\* The first file of the walk that has a path decides what it holds.
DigestOf == FoldLeft(LAMBDA known, i : known @@ Holds[i], <<>>, Order)

\* A digest is that of what it includes, so that the walk of the includes ends.
ASSUME TreeAssumption ==
    /\ \E height \in [Isolateds -> 0 .. Cardinality(Isolateds)] :
          \A i \in Isolateds : \A k \in DOMAIN Includes[i] : height[Includes[i][k]] < height[i]
    /\ \A k \in DOMAIN Order : \A p \in DOMAIN Holds[Order[k]] : DigestOf[p] \in Files

-----------------------------------------------------------------------------
(* The cache on disk.                                                      *)

\* The items of a list that are in a set (SelectSeq, which has no definition for
\* the provers).
Filtered(l, ds) ==
    LET first[k \in 0 .. Len(l)] ==
            IF k = 0 THEN <<>>
            ELSE IF l[k] \in ds THEN Append(first[k - 1], l[k]) ELSE first[k - 1]
    IN  first[Len(l)]

Total(ds) ==
    LET sum[k \in 0 .. Len(ds)] == IF k = 0 THEN 0 ELSE sum[k - 1] + Size[ds[k]] IN sum[Len(ds)]
Oldest(l, k) == SubSeq(l, 1, k)
Newest(l, k) == SubSeq(l, k + 1, Len(l))
Without(files, gone) == [d \in Digests |-> IF d \in gone THEN "none" ELSE files[d]]

\* get_free_space(): a file that is being written, or that was cut, is empty.
AllDigests == SetToSeq(Digests)
RealFree(files) == Disk - Total(SelectSeq(AllDigests, LAMBDA d : files[d] = "whole"))

\* How many of the oldest are to go, k of which are gone, for enough free space.
Drops(l, k, left) ==
    Min({n \in k .. Len(l) : n = Len(l) \/ left + Total(SubSeq(l, k + 1, n)) >= MinFree})

\* _trim()
Trimmed(l, files) ==
    LET small == Min({n \in 0 .. Len(l) : Total(Newest(l, n)) =< MaxSize})
        left == RealFree(Without(files, ToSet(Oldest(l, small))))
        gone == Drops(l, small, left) IN
    [lru |-> Newest(l, gone), gone |-> ToSet(Oldest(l, gone)),
     free |-> left + Total(SubSeq(l, small + 1, gone))]

\* Mutant of IsValidFile: the file is there.
IsFile(d) == file[d] # "none"

\* is_valid_file(): the size of an .isolated file is not known.
IsValidFile(d) == file[d] = "whole" \/ (d \in Isolateds /\ file[d] # "none")

\* Mutant of MoveToEnd: the item keeps its place.
MoveToEndIfNew(l, d) == IF d \in ToSet(l) THEN l ELSE Append(l, d)

\* LRUDict.touch(), LRUDict.add()
MoveToEnd(l, d) == Append(Filtered(l, Digests \ {d}), d)

-----------------------------------------------------------------------------
(* A process starts.                                                       *)

NoTask == [at |-> "none", tries |-> 0]

Start ==
    /\ protected' = NoDigest /\ used' = {} /\ dropped' = {} /\ read' = {}
    /\ pending' = {} /\ fetched' = ToSet(lru') /\ accessed' = {} /\ channel' = <<>>
    /\ task' = [d \in Digests |-> NoTask] /\ unfinished' = 0 /\ ending' = 0
    /\ at' = "next" /\ on' = NoDigest /\ children' = <<Root>> /\ paths' = {}
    /\ seen' = {} /\ loaded' = {} /\ mapped' = {} /\ outcome' = "none"

\* What other trees left in the cache: anything that fits.
Init ==
    \E l \in UNION {[1 .. n -> Digests] : n \in 0 .. Cardinality(Digests)} :
        /\ IsInjective(l) /\ Total(l) =< MaxSize /\ Disk - Total(l) >= MinFree
        /\ lru = l /\ saved = l /\ free = Disk - Total(l)
        /\ file = [d \in Digests |-> IF d \in ToSet(l) THEN "whole" ELSE "none"]
        /\ protected = NoDigest /\ used = {} /\ dropped = {} /\ read = {}
        /\ pending = {} /\ fetched = ToSet(l) /\ accessed = {} /\ channel = <<>>
        /\ task = [d \in Digests |-> NoTask] /\ unfinished = 0 /\ ending = 0
        /\ at = "next" /\ on = NoDigest /\ children = <<Root>> /\ paths = {}
        /\ seen = {} /\ loaded = {} /\ mapped = {} /\ outcome = "none"
        /\ runs = 1 /\ errors = 0

\* The process ended, or dies now.  The next one loads the cache, trims it, saves
\* it, and removes what it does not know: _load(), clean_caches(), cleanup().
Restart ==
    /\ runs < MaxRuns /\ runs' = runs + 1
    /\ LET trimmed == Trimmed(saved, file)
           files == Without(file, trimmed.gone) IN
        /\ lru' = Filtered(trimmed.lru, {d \in Digests : files[d] # "none"})
        /\ saved' = lru'
        /\ file' = [d \in Digests |-> IF d \in ToSet(lru') THEN files[d] ELSE "none"]
        /\ free' = trimmed.free
    /\ Start
    /\ UNCHANGED errors

\* A task writes to a data file that was mapped from the cache by a hard link.
Damage(d) ==
    /\ d \in Files /\ file[d] = "whole" /\ d \in ToSet(lru)
    /\ at = "next" /\ children = <<Root>>
    /\ errors < MaxErrors /\ errors' = errors + 1
    /\ file' = [file EXCEPT ![d] = "broken"]
    /\ UNCHANGED <<lru, free, protected, used, dropped, saved, queueVars, poolVars, mainVars, runs>>

-----------------------------------------------------------------------------
(* The threads of the pool.                                                *)

Busy == Cardinality({d \in Digests : task[d].at \in {"fetching", "writing", "written"}}) + ending

\* PRIORITY_HIGH and PRIORITY_MED, lower at each retry.
Rank(d) == task[d].tries + IF d \in Isolateds THEN 0 ELSE Retries + 1

Goes(d, where) == task' = [task EXCEPT ![d].at = where]

Begin(d) ==
    /\ task[d].at = "queued" /\ Busy < Threads
    /\ \A o \in Digests : task[o].at = "queued" => Rank(d) =< Rank(o)
    /\ Goes(d, "fetching")
    /\ UNCHANGED <<cacheVars, saved, queueVars, channel, unfinished, ending, mainVars, bounds>>

\* DiskCache.write(), up to the first chunk.
StartWriting(d) ==
    /\ task[d].at = "fetching"
    /\ Goes(d, "writing")
    /\ protected' = IF protected = NoDigest THEN d ELSE protected
    /\ file' = [file EXCEPT ![d] = "broken"]
    /\ UNCHANGED <<lru, free, used, dropped, saved, queueVars, channel, unfinished, ending, mainVars, bounds>>

\* FetchStreamVerifier has seen the whole stream.
FinishWriting(d) ==
    /\ task[d].at = "writing"
    /\ Goes(d, "written")
    /\ file' = [file EXCEPT ![d] = "whole"]
    /\ UNCHANGED <<lru, free, protected, used, dropped, saved, queueVars, channel, unfinished, ending,
                   mainVars, bounds>>

\* Mutant of Answers: the exception is raised in the thread.
AnswersIfDone(d, ok) ==
    /\ task' = [task EXCEPT ![d] = NoTask]
    /\ channel' = IF ok THEN Append(channel, [digest |-> d, ok |-> TRUE]) ELSE channel
    /\ ending' = ending + 1 /\ UNCHANGED unfinished

\* The task is over: its result, or its exception, is sent to the channel.
Answers(d, ok) ==
    /\ task' = [task EXCEPT ![d] = NoTask]
    /\ channel' = Append(channel, [digest |-> d, ok |-> ok])
    /\ ending' = ending + 1 /\ UNCHANGED unfinished

\* _add(), which drops the oldest items until there is enough free space, but not
\* the protected one.
AddToCache(d) ==
    /\ task[d].at = "written"
    /\ LET l == MoveToEnd(lru, d)
           wanted == Drops(l, 0, free - Size[d])
           kept == SelectInSeq(l, LAMBDA o : o = protected)
           gone == IF kept = 0 THEN wanted ELSE Min({wanted, kept - 1}) IN
        /\ lru' = Newest(l, gone)
        /\ free' = free - Size[d] + Total(Oldest(l, gone))
        /\ file' = Without(file, ToSet(Oldest(l, gone)))
        /\ dropped' = dropped \cup ToSet(Oldest(l, gone))
        /\ Answers(d, gone = wanted)
    /\ used' = used \cup {d}
    /\ UNCHANGED <<protected, saved, queueVars, mainVars, bounds>>

\* The server, the stream or the disk fails: what was written is removed.  An
\* IOError is tried again some times: the thread puts the task again before it is
\* done with it.
TaskFails(d, again) ==
    /\ task[d].at \in {"fetching", "writing"}
    /\ errors < MaxErrors /\ errors' = errors + 1
    /\ file' = IF task[d].at = "writing" THEN [file EXCEPT ![d] = "none"] ELSE file
    /\ IF again /\ task[d].tries < Retries
       THEN /\ task' = [task EXCEPT ![d] = [at |-> "queued", tries |-> @.tries + 1]]
            /\ unfinished' = unfinished + 1 /\ ending' = ending + 1 /\ UNCHANGED channel
       ELSE Answers(d, FALSE)
    /\ UNCHANGED <<lru, free, protected, used, dropped, saved, queueVars, mainVars, runs>>

TaskDone ==
    /\ ending > 0 /\ ending' = ending - 1
    /\ unfinished' = unfinished - 1
    /\ UNCHANGED <<cacheVars, saved, queueVars, channel, task, mainVars, bounds>>

-----------------------------------------------------------------------------
(* The main thread.                                                        *)

MoveTo(where, d) == at' = where /\ on' = d

\* An exception goes through the end of "with cache".
Fails == MoveTo("exit", NoDigest) /\ outcome' = "error"

\* retrieve_async() refuses a file that was asked for before.
Retrieve ==
    /\ at = "next" /\ children # <<>>
    /\ LET h == Head(children) IN
       IF h \in seen
       THEN Fails /\ UNCHANGED <<seen, children>>
       ELSE /\ seen' = seen \cup {h} /\ children' = Tail(children)
            /\ MoveTo("add", h) /\ UNCHANGED outcome
    /\ UNCHANGED <<cacheVars, saved, queueVars, poolVars, paths, loaded, mapped, read, bounds>>

PickPath ==
    /\ at = "next" /\ children = <<>>
    /\ \E p \in paths :
        /\ paths' = paths \ {p}
        /\ MoveTo("add", DigestOf[p])
    /\ UNCHANGED <<cacheVars, saved, queueVars, poolVars, children, seen, loaded, mapped, outcome, read, bounds>>

\* async_fetch()
Fetch(d) ==
    /\ pending' = pending \cup {d}
    /\ task' = [task EXCEPT ![d] = [at |-> "queued", tries |-> 0]]
    /\ unfinished' = unfinished + 1 /\ UNCHANGED <<channel, ending>>

\* FetchQueue.add().  The file is looked at without the lock.
Add ==
    /\ at = "add"
    /\ accessed' = IF on \in pending THEN accessed ELSE accessed \cup {on}
    /\ IF on \in pending \/ on \notin fetched THEN MoveTo("next", NoDigest)
       ELSE MoveTo(IF IsValidFile(on) THEN "touch" ELSE "evict", on)
    /\ IF on \in pending \cup fetched
       THEN UNCHANGED <<pending, poolVars>>
       ELSE Fetch(on)
    /\ UNCHANGED <<cacheVars, saved, fetched, children, paths, seen, loaded, mapped, outcome, read, bounds>>

Touch ==
    /\ at = "touch"
    /\ IF on \in ToSet(lru)
       THEN /\ lru' = MoveToEnd(lru, on) /\ used' = used \cup {on}
            /\ protected' = IF protected = NoDigest THEN on ELSE protected
            /\ MoveTo("next", NoDigest)
       ELSE MoveTo("evict", on) /\ UNCHANGED <<lru, used, protected>>
    /\ UNCHANGED <<file, free, dropped, saved, queueVars, poolVars, children, paths, seen, loaded, mapped,
                   outcome, read, bounds>>

\* What is not in the cache any more cannot be evicted: a KeyError.
Evict ==
    /\ at = "evict"
    /\ fetched' = fetched \ {on}
    /\ IF on \in ToSet(lru)
       THEN /\ lru' = Filtered(lru, Digests \ {on})
            /\ file' = [file EXCEPT ![on] = "none"]
            /\ free' = free + IF file[on] = "whole" THEN Size[on] ELSE 0
            /\ Fetch(on)
            /\ MoveTo("next", NoDigest) /\ UNCHANGED outcome
       ELSE Fails /\ UNCHANGED <<lru, file, free, pending, poolVars>>
    /\ UNCHANGED <<protected, used, dropped, saved, accessed, children, paths, seen, loaded, mapped, read, bounds>>

\* What bundle.fetch(), and then fetch_isolated(), wait for.
Waited ==
    IF seen # loaded THEN seen \ loaded
    ELSE {DigestOf[p] : p \in PathsOf(loaded) \ mapped}

Settled == at = "next" /\ children = <<>> /\ paths = {}

\* FetchQueue.wait()
Wait ==
    /\ Settled /\ Waited # {}
    /\ \E d \in Waited \cap fetched : MoveTo(IF seen # loaded THEN "load" ELSE "map", d)
    /\ UNCHANGED <<cacheVars, saved, queueVars, poolVars, children, paths, seen, loaded, mapped, outcome, read, bounds>>

Pull ==
    /\ Settled /\ Waited # {} /\ Waited \cap fetched = {} /\ channel # <<>>
    /\ channel' = Tail(channel)
    /\ LET answer == Head(channel) IN
       IF answer.ok
       THEN /\ pending' = pending \ {answer.digest} /\ fetched' = fetched \cup {answer.digest}
            /\ UNCHANGED <<at, on, outcome>>
       ELSE Fails /\ UNCHANGED <<pending, fetched>>
    /\ UNCHANGED <<cacheVars, saved, accessed, task, unfinished, ending, children, paths, seen, loaded, mapped,
                   read, bounds>>

\* getfileobj()
IsCached(d) == file[d] # "none" /\ d \in ToSet(lru)
Reads(d) == read' = read \cup {file[d]}

\* Its includes and, as far as the walk goes, the files are asked for next.
Load ==
    /\ at = "load"
    /\ IF IsCached(on) /\ file[on] = "whole"
       THEN /\ loaded' = loaded \cup {on} /\ children' = Includes[on]
            /\ paths' = PathsOf(Processed(loaded')) \ PathsOf(Processed(loaded))
            /\ MoveTo("next", NoDigest) /\ UNCHANGED outcome
       ELSE Fails /\ UNCHANGED <<loaded, children, paths>>
    /\ IF IsCached(on) THEN Reads(on) ELSE UNCHANGED read
    /\ UNCHANGED <<cacheVars, saved, queueVars, poolVars, seen, mapped, bounds>>

Map ==
    /\ at = "map"
    /\ LET left == {p \in PathsOf(loaded) \ mapped : DigestOf[p] = on} IN
       \/ /\ left = {} /\ MoveTo("next", NoDigest)
          /\ UNCHANGED <<mapped, outcome, read>>
       \/ /\ left # {} /\ ~IsCached(on) /\ Fails
          /\ UNCHANGED <<mapped, read>>
       \/ /\ IsCached(on) /\ Reads(on)
          /\ \E p \in left : mapped' = mapped \cup {p}
          /\ UNCHANGED <<at, on, outcome>>
    /\ UNCHANGED <<cacheVars, saved, queueVars, poolVars, children, paths, seen, loaded, bounds>>

\* The end of "with cache", and verify_all_cached().
Exit ==
    /\ at = "exit" \/ (Settled /\ Waited = {})
    /\ LET trimmed == Trimmed(lru, file) IN
        /\ lru' = trimmed.lru /\ saved' = trimmed.lru /\ free' = trimmed.free
        /\ file' = Without(file, trimmed.gone)
        /\ dropped' = dropped \cup trimmed.gone
        /\ outcome' = IF outcome = "none" /\ accessed \subseteq ToSet(trimmed.lru) THEN "done" ELSE "error"
    /\ MoveTo("close", NoDigest)
    /\ UNCHANGED <<protected, used, queueVars, poolVars, children, paths, seen, loaded, mapped, read, bounds>>

\* Mutant of Joined: nothing is in the queue, or about to be done with.
QueueIsEmpty == (\A d \in Digests : task[d].at # "queued") /\ ending = 0

\* Queue.join()
Joined == unfinished = 0

\* Storage.close()
Close ==
    /\ at = "close" /\ Joined
    /\ MoveTo("closed", NoDigest)
    /\ UNCHANGED <<cacheVars, saved, queueVars, poolVars, children, paths, seen, loaded, mapped, outcome, read, bounds>>

-----------------------------------------------------------------------------
MainStep ==
    \/ Retrieve \/ PickPath \/ Add \/ Touch \/ Evict \/ Wait \/ Pull \/ Load \/ Map \/ Exit \/ Close

TaskStep(d) == Begin(d) \/ StartWriting(d) \/ FinishWriting(d) \/ AddToCache(d)

Process == MainStep \/ TaskDone \/ \E d \in Digests : TaskStep(d)

Next ==
    \/ Process \/ Restart
    \/ \E d \in Digests : Damage(d) \/ \E again \in BOOLEAN : TaskFails(d, again)

Spec == Init /\ [][Next]_vars

\* One thread at least runs as long as one can, and the server answers in the end.
FairSpec == Spec /\ WF_vars(Process)

-----------------------------------------------------------------------------
(* Properties.                                                             *)

\* What is parsed or mapped is what the server sent, whichever process died while
\* it wrote to the cache, and whatever was done to the data files since.
WhatIsReadIsWhole == read \subseteq {"whole"}

\* What this process uses is dropped from the cache, if at all, after everything
\* it does not use.
UsedGoLast == dropped \cap used # {} => ToSet(lru) \subseteq used

\* The thread pool is closed when nothing is left for it to do: no retry is put
\* behind its back.
ClosedIsOver == at = "closed" => \A d \in Digests : task[d].at = "none"

\* Every fetch ends, with the tree or with an error.
FetchEnds == []<>(at = "closed")
=============================================================================
