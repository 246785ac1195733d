--------------------------- MODULE TaskOwnership ---------------------------
(***************************************************************************)
(* What the Swarming server promises about who runs a task, with none of   *)
(* the entities, handlers and caches it keeps the promise with.            *)
(*                                                                         *)
(* A task is offered to the bots, granted to one of them at a time, and    *)
(* taken back at most once: the second bot is never the first one again,   *)
(* there is no third, and a task that is neither offered nor owned stays   *)
(* so.  TaskScheduler implements this specification.                       *)
(***************************************************************************)
EXTENDS FiniteSets, Naturals

CONSTANTS Tasks,     \* the tasks a client may request
          Bots,      \* the bots that poll for them
          NoBot      \* "nobody", not a bot

VARIABLES created,   \* the tasks that were requested
          offered,   \* the tasks a bot may be granted
          owner,     \* the bot that runs each task, or NoBot
          tried      \* the bots each task was ever granted to

vars == <<created, offered, owner, tried>>

Init ==
    /\ created = {}
    /\ offered = {}
    /\ owner = [t \in Tasks |-> NoBot]
    /\ tried = [t \in Tasks |-> {}]

\* A client requests a task.  It is offered, unless an earlier result is reused.
Create(t) ==
    /\ t \notin created
    /\ created' = created \cup {t}
    /\ offered' \in {offered, offered \cup {t}}
    /\ UNCHANGED <<owner, tried>>

\* A bot that never had the task gets it, and nobody else may until it is
\* offered again.
Grant(t, b) ==
    /\ t \in offered
    /\ b \notin tried[t]
    /\ \A c \in tried[t], d \in tried[t] : c = d
    /\ offered' = offered \ {t}
    /\ owner' = [owner EXCEPT ![t] = b]
    /\ tried' = [tried EXCEPT ![t] = @ \cup {b}]
    /\ UNCHANGED created

\* The owner finishes, or is declared dead with no retry left.
Close(t) ==
    /\ owner[t] # NoBot
    /\ owner' = [owner EXCEPT ![t] = NoBot]
    /\ UNCHANGED <<created, offered, tried>>

\* The first owner is declared dead and the task is offered once more.
OfferAgain(t) ==
    /\ owner[t] # NoBot
    /\ tried[t] = {owner[t]}
    /\ owner' = [owner EXCEPT ![t] = NoBot]
    /\ offered' = offered \cup {t}
    /\ UNCHANGED <<created, tried>>

\* Nobody took the offer in time, or the client withdrew it.
Withdraw(t) ==
    /\ t \in offered
    /\ offered' = offered \ {t}
    /\ UNCHANGED <<created, owner, tried>>

Next ==
    \E t \in Tasks :
        \/ Create(t)
        \/ \E b \in Bots : Grant(t, b)
        \/ Close(t)
        \/ OfferAgain(t)
        \/ Withdraw(t)

Spec == Init /\ [][Next]_vars

=============================================================================
