--------------------------- MODULE IsolateServer ---------------------------
(***************************************************************************)
(* One digest of one namespace of the Isolate server: its ContentEntry in  *)
(* the datastore, its file in Google Storage and its value in memcache.    *)
(*                                                                         *)
(* Clients look the digest up, send what is missing, in the request or to  *)
(* Google Storage, and finalize.  Tasks verify what was stored, tag what   *)
(* was looked up and clean up what has expired or is lost.  None of them   *)
(* reads and writes in one transaction: each is split at its accesses.     *)
(***************************************************************************)
EXTENDS Naturals

CONSTANTS
    Clients,        \* uploads of the item, one each
    InlineClients,  \* those for which the item is small enough for the datastore
    Contents,       \* what may be sent
    Good,           \* the contents that have the digest
    SizeOf,         \* their sizes, compressed
    NoContent,
    Workers,        \* tasks of the task queues that may run at a time
    MaxFaults       \* bound: lost answers, tasks that die

ASSUME IsolateAssumption ==
    /\ InlineClients \subseteq Clients
    /\ Good \subseteq Contents
    /\ SizeOf \in [Contents -> Nat \ {0}]
    /\ NoContent \notin Contents
    /\ MaxFaults \in Nat

VARIABLES
    entry,      \* ContentEntry
    file,       \* the file in Google Storage
    cached,     \* the value in memcache
    client,     \* Storage.upload_items(): where each client is
    storing,    \* finalize_gs_upload(): the handlers that run
    verifyTq,   \* how many tasks there are in the queues "verify" and "tag"
    tagTq,
    job,        \* the tasks that run
    faults,
    lost        \* history: a verify task was given up (task_age_limit)

vars == <<entry, file, cached, client, storing, verifyTq, tagTq, job, faults, lost>>

\* Where now is: before next_tag_ts, before expiration_ts, after it.
Ages == {"fresh", "due", "expired"}

\* overlapped is history: the handler that put the entry, or the copy of it that
\* was put again, ran while another one was deleting.
ContentEntry ==
    [here : BOOLEAN, content : Contents \cup {NoContent}, size : Nat,
     verified : BOOLEAN, age : Ages, overlapped : BOOLEAN]

NoEntry ==
    [here |-> FALSE, content |-> NoContent, size |-> 0,
     verified |-> FALSE, age |-> "fresh", overlapped |-> FALSE]

NewContentEntry(content, size, verified, overlapped) ==
    [here |-> TRUE, content |-> content, size |-> size,
     verified |-> verified, age |-> "fresh", overlapped |-> overlapped]

\* recent: uploaded in the last hour.
NoFile == [content |-> NoContent, recent |-> FALSE]

\* seen: the entry that the task read; content: the file that it read.
Idle == [step |-> "idle", kind |-> "none", seen |-> NoEntry, content |-> NoContent,
         overlapped |-> FALSE]

InStorage == entry.here /\ entry.content = NoContent

Init ==
    /\ entry = NoEntry /\ file = NoFile /\ cached = NoContent
    /\ client = [c \in Clients |-> "idle"]
    /\ storing = {}
    /\ verifyTq = 0 /\ tagTq = 0
    /\ job = [w \in Workers |-> Idle]
    /\ faults = 0
    /\ lost = FALSE

Fault == faults < MaxFaults /\ faults' = faults + 1

\* The answer to a request of c is lost, and c sends it again.
Answered(c, next) ==
    \/ client' = [client EXCEPT ![c] = next] /\ UNCHANGED faults
    \/ Fault /\ UNCHANGED client

-----------------------------------------------------------------------------
(* Clients: preupload, store_inline, the PUT to Google Storage, finalize.  *)

\* preupload() answers with a ticket if the entry is missing, otherwise it
\* enqueues a task that tags the entry.
Preupload(c) ==
    /\ client[c] = "idle"
    /\ client' = [client EXCEPT ![c] = IF entry.here THEN "present" ELSE "push"]
    /\ tagTq' = IF entry.here THEN tagTq + 1 ELSE tagTq
    /\ UNCHANGED <<entry, file, cached, storing, verifyTq, job, faults, lost>>

\* Mutant: only the size of what was sent is checked.
MatchesSize(content) == \E good \in Good : SizeOf[content] = SizeOf[good]

MatchesDigest(content) == content \in Good

\* The content is refused, or hashed and stored.
StoreInline(c, content) ==
    /\ client[c] = "push" /\ c \in InlineClients
    /\ MatchesDigest(content)
    /\ entry' = NewContentEntry(content, SizeOf[content], TRUE, FALSE)
    /\ Answered(c, "done")
    /\ UNCHANGED <<file, cached, storing, verifyTq, tagTq, job, lost>>

\* The file may have changed since it was hashed.
UploadFile(c, content) ==
    /\ client[c] = "push" /\ c \notin InlineClients
    /\ file' = [content |-> content, recent |-> TRUE]
    /\ Answered(c, "pushed")
    /\ UNCHANGED <<entry, cached, storing, verifyTq, tagTq, job, lost>>

\* A task deletes the entry, the file or both.
Deletes(w) == job[w].step \in {"purge", "unlink", "flush"}
SomeDelete == \E w \in Workers : Deletes(w)

\* The file must be there.
FinalizeStart(c) ==
    /\ client[c] = "pushed"
    /\ file # NoFile
    /\ \A h \in storing : h.client # c
    /\ storing' = storing \cup
          {[client |-> c, size |-> SizeOf[file.content], overlapped |-> SomeDelete]}
    /\ UNCHANGED <<entry, file, cached, client, verifyTq, tagTq, job, faults, lost>>

\* Mutant: the task is added after the transaction, which may be the last thing
\* that the handler does.
EnqueueVerifyPerhaps == verifyTq' \in {verifyTq, verifyTq + 1}

EnqueueVerify == verifyTq' = verifyTq + 1

\* store_and_enqueue_verify_task(): whatever is there is overwritten.
FinalizeTxn(h) ==
    /\ h \in storing
    /\ storing' = storing \ {h}
    /\ entry' = NewContentEntry(NoContent, h.size, FALSE, h.overlapped)
    /\ EnqueueVerify
    /\ IF client[h.client] = "pushed" THEN Answered(h.client, "done")
       ELSE UNCHANGED <<client, faults>>
    /\ UNCHANGED <<file, cached, tagTq, job, lost>>

\* The transaction fails, or the handler stops.
FinalizeFails(h) ==
    /\ h \in storing
    /\ Fault
    /\ storing' = storing \ {h}
    /\ UNCHANGED <<entry, file, cached, client, verifyTq, tagTq, job, lost>>

\* The thread pool retries a push a few times.
GiveUp(c) ==
    /\ client[c] \in {"push", "pushed"}
    /\ client' = [client EXCEPT ![c] = "failed"]
    /\ UNCHANGED <<entry, file, cached, storing, verifyTq, tagTq, job, faults, lost>>

-----------------------------------------------------------------------------
(* Tasks.                                                                  *)

\* A task goes on; when it starts to delete, every handler that runs overlaps
\* with it.
Goes(w, next) ==
    IF next.step \in {"purge", "unlink"} /\ ~Deletes(w)
    THEN /\ job' = [v \in Workers |-> IF v = w THEN next
                                      ELSE IF job[v].step = "idle" THEN job[v]
                                      ELSE [job[v] EXCEPT !.overlapped = TRUE]]
         /\ storing' = {[h EXCEPT !.overlapped = TRUE] : h \in storing}
    ELSE job' = [job EXCEPT ![w] = next] /\ UNCHANGED storing

Task(kind, step, seen) ==
    [step |-> step, kind |-> kind, seen |-> seen, content |-> NoContent,
     overlapped |-> SomeDelete]

Step(w, step) == Goes(w, [job[w] EXCEPT !.step = step])

\* InternalVerifyWorkerHandler: there is something to verify.
ToVerify == InStorage /\ ~entry.verified

StartVerify(w) ==
    /\ job[w].step = "idle" /\ verifyTq > 0
    /\ verifyTq' = verifyTq - 1
    /\ IF ToVerify THEN Goes(w, Task("verify", "stat", entry)) ELSE UNCHANGED <<job, storing>>
    /\ UNCHANGED <<entry, file, cached, client, tagTq, faults, lost>>

\* The file is missing, or has another size than the entry.
StatFile(w) ==
    /\ job[w].step = "stat"
    /\ IF file # NoFile /\ SizeOf[file.content] = job[w].seen.size
       THEN Step(w, "read") ELSE Step(w, "purge")
    /\ UNCHANGED <<entry, file, cached, client, verifyTq, tagTq, faults, lost>>

\* Mutant: only that the file is still there is checked.
ReadIsThere == file # NoFile

ReadIsRight == file.content \in Good

ReadFile(w) ==
    /\ job[w].step = "read"
    /\ IF ReadIsRight
       THEN Goes(w, [job[w] EXCEPT !.step = "put", !.content = file.content])
       ELSE Step(w, "purge")
    /\ UNCHANGED <<entry, file, cached, client, verifyTq, tagTq, faults, lost>>

\* The entry that was read is put, verified; the content of a small isolated
\* file is cached.
PutVerified(w) ==
    /\ job[w].step = "put"
    /\ entry' = [job[w].seen EXCEPT !.verified = TRUE, !.overlapped = @ \/ job[w].overlapped]
    /\ cached' \in {cached, job[w].content}
    /\ Goes(w, Idle)
    /\ UNCHANGED <<file, client, verifyTq, tagTq, faults, lost>>

\* InternalTagWorkerHandler: next_tag_ts is past.
StartTag(w) ==
    /\ job[w].step = "idle" /\ tagTq > 0
    /\ tagTq' = tagTq - 1
    /\ IF entry.here /\ entry.age # "fresh"
       THEN Goes(w, Task("tag", "retag", entry)) ELSE UNCHANGED <<job, storing>>
    /\ UNCHANGED <<entry, file, cached, client, verifyTq, faults, lost>>

\* The entry that was read is put, with other dates.
Retag(w) ==
    /\ job[w].step = "retag"
    /\ entry' = [job[w].seen EXCEPT !.age = "fresh", !.overlapped = @ \/ job[w].overlapped]
    /\ Goes(w, Idle)
    /\ UNCHANGED <<file, cached, client, verifyTq, tagTq, faults, lost>>

\* Mutant: entries that are not verified are left alone.
IsExpiredAndVerified == entry.verified /\ entry.age = "expired"

IsExpired == entry.here /\ entry.age = "expired"

\* InternalCleanupOldEntriesWorkerHandler: keys only, the dates are not read
\* again.
StartCleanup(w) ==
    /\ job[w].step = "idle"
    /\ IsExpired
    /\ Goes(w, Task("old", "purge", NoEntry))
    /\ UNCHANGED <<entry, file, cached, client, verifyTq, tagTq, faults, lost>>

\* InternalCleanupTrimLostWorkerHandler lists a file, and looks up its entry.
StartTrim(w) ==
    /\ job[w].step = "idle"
    /\ file # NoFile /\ ~file.recent
    /\ Goes(w, Task("trim", "lookup", NoEntry))
    /\ UNCHANGED <<entry, file, cached, client, verifyTq, tagTq, faults, lost>>

LookupEntry(w) ==
    /\ job[w].step = "lookup"
    /\ IF entry.here THEN Goes(w, Idle) ELSE Step(w, "unlink")
    /\ UNCHANGED <<entry, file, cached, client, verifyTq, tagTq, faults, lost>>

\* InternalObliterateWorkerHandler: all entries, all files, memcache.
StartObliterate(w) ==
    /\ job[w].step = "idle"
    /\ entry.here \/ file # NoFile
    /\ Goes(w, Task("obliterate", "purge", NoEntry))
    /\ UNCHANGED <<entry, file, cached, client, verifyTq, tagTq, faults, lost>>

\* Mutant: the file first, then the entry.
FileFirst(step) ==
    IF step = "purge" THEN file' = NoFile /\ UNCHANGED entry
                      ELSE entry' = NoEntry /\ UNCHANGED file

\* delete_entry_and_gs_entry(): the entry first, then the file.
Delete(step) ==
    IF step = "purge" THEN entry' = NoEntry /\ UNCHANGED file
                      ELSE file' = NoFile /\ UNCHANGED entry

PurgeEntry(w) ==
    /\ job[w].step = "purge"
    /\ Delete("purge")
    /\ Step(w, "unlink")
    /\ UNCHANGED <<cached, client, verifyTq, tagTq, faults, lost>>

UnlinkFile(w) ==
    /\ job[w].step = "unlink"
    /\ Delete("unlink")
    /\ Goes(w, IF job[w].kind = "obliterate" THEN [job[w] EXCEPT !.step = "flush"] ELSE Idle)
    /\ UNCHANGED <<cached, client, verifyTq, tagTq, faults, lost>>

FlushMemcache(w) ==
    /\ job[w].step = "flush"
    /\ cached' = NoContent
    /\ Goes(w, Idle)
    /\ UNCHANGED <<entry, file, client, verifyTq, tagTq, faults, lost>>

\* A task fails.  The queue runs it again, unless it is too old; cleanup tasks
\* are added by a cron job.
TaskDies(w) ==
    /\ job[w].step # "idle"
    /\ Fault
    /\ Goes(w, Idle)
    /\ \/ verifyTq' = (IF job[w].kind = "verify" THEN verifyTq + 1 ELSE verifyTq) /\ UNCHANGED lost
       \/ job[w].kind = "verify" /\ lost' = TRUE /\ UNCHANGED verifyTq
    /\ tagTq' \in {tagTq, IF job[w].kind = "tag" THEN tagTq + 1 ELSE tagTq}
    /\ UNCHANGED <<entry, file, cached, client>>

-----------------------------------------------------------------------------
(* Time.                                                                   *)

VerifyGoesOn == verifyTq > 0 \/ \E w \in Workers : job[w].kind = "verify"

\* next_tag_ts is a tenth of the default expiration of 30 days away, a verify
\* task is given up after one.
EntryAges ==
    /\ entry.here
    /\ \/ entry.age = "fresh" /\ ~VerifyGoesOn /\ entry' = [entry EXCEPT !.age = "due"]
       \/ entry.age = "due" /\ entry' = [entry EXCEPT !.age = "expired"]
    /\ UNCHANGED <<file, cached, client, storing, verifyTq, tagTq, job, faults, lost>>

FileAges ==
    /\ file.recent
    /\ file' = [file EXCEPT !.recent = FALSE]
    /\ UNCHANGED <<entry, cached, client, storing, verifyTq, tagTq, job, faults, lost>>

MemcacheEvicts ==
    /\ cached # NoContent
    /\ cached' = NoContent
    /\ UNCHANGED <<entry, file, client, storing, verifyTq, tagTq, job, faults, lost>>

-----------------------------------------------------------------------------
Client(c) ==
    \/ Preupload(c) \/ FinalizeStart(c) \/ GiveUp(c)
    \/ \E content \in Contents : StoreInline(c, content) \/ UploadFile(c, content)
Finalize(h) == FinalizeTxn(h) \/ FinalizeFails(h)
Start(w) ==
    \/ StartVerify(w) \/ StartTag(w)
    \/ StartCleanup(w) \/ StartTrim(w) \/ StartObliterate(w)
Run(w) ==
    \/ StatFile(w) \/ ReadFile(w) \/ PutVerified(w) \/ Retag(w)
    \/ LookupEntry(w) \/ PurgeEntry(w) \/ UnlinkFile(w) \/ FlushMemcache(w)
Time == EntryAges \/ FileAges \/ MemcacheEvicts

Next ==
    \/ \E c \in Clients : Client(c)
    \/ \E h \in storing : Finalize(h)
    \/ \E w \in Workers : Start(w) \/ Run(w) \/ TaskDies(w)
    \/ Time

Spec == Init /\ [][Next]_vars

\* Each queue runs its tasks, whatever there is in the others; a cron job adds
\* a cleanup task every few minutes.  Clients may stop anywhere.
Fairness ==
    /\ \A w \in Workers : WF_vars(Run(w))
    /\ SF_vars(\E w \in Workers : StartVerify(w))
    /\ SF_vars(\E w \in Workers : StartCleanup(w))
FairSpec == Spec /\ Fairness

-----------------------------------------------------------------------------
(* Properties.                                                             *)

Steps == {"idle", "stat", "read", "put", "retag", "lookup", "purge", "unlink", "flush"}
Kinds == {"none", "verify", "tag", "old", "trim", "obliterate"}

\* Every variable has the type of the code's entity or field.
TypeOK ==
    /\ entry \in ContentEntry
    /\ file \in [content : Contents \cup {NoContent}, recent : BOOLEAN]
    /\ file.content = NoContent => file = NoFile
    /\ cached \in Contents \cup {NoContent}
    /\ client \in [Clients -> {"idle", "present", "push", "pushed", "done", "failed"}]
    /\ storing \subseteq [client : Clients, size : Nat, overlapped : BOOLEAN]
    /\ verifyTq \in Nat /\ tagTq \in Nat
    /\ job \in [Workers -> [step : Steps, kind : Kinds, seen : ContentEntry,
                            content : Contents \cup {NoContent}, overlapped : BOOLEAN]]
    /\ \A w \in Workers : job[w].step = "idle" => job[w] = Idle
    /\ faults \in 0 .. MaxFaults /\ lost \in BOOLEAN

\* What the server answers itself, from memcache or from the entry, has the
\* digest, whatever the clients sent and whichever copy of an entry was put
\* last (retrieve).
AnswerIsRight ==
    /\ entry.content \in Good \cup {NoContent}
    /\ cached \in Good \cup {NoContent}

\* An entry whose file is gone was put by a handler that ran while another one
\* was deleting: a deletion by itself, even one that stops half way, leaves no
\* such entry (delete_entry_and_gs_entry).
DanglingOnlyByRace == InStorage /\ ~entry.overlapped => file # NoFile

\* Clients get what is not verified, but not for ever: it is verified, replaced
\* or purged (InternalVerifyWorkerHandler).
VerifiedInTheEnd == ToVerify /\ ~lost ~> ~ToVerify \/ lost

\* An entry that has expired is deleted, unless it is tagged again
\* (InternalCleanupOldEntriesWorkerHandler).
Expired == entry.here /\ entry.age = "expired"
ExpiredGoes == Expired ~> ~Expired
=============================================================================
