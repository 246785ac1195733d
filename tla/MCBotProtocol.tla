---------------------------- MODULE MCBotProtocol ----------------------------
(* Instances of BotProtocol for TLC. *)
EXTENDS BotProtocol, TLC

BotSymmetry == Permutations(Bots)

\* The notifications of the topic influence nothing else: the runs that do not
\* ask about them leave them out of the state.
ViewBots ==
    <<entities, expired, negCache, handlers, botVars>>

\* Cancelation only closes tasks that no bot has, and is checked with the
\* scheduler alone.
NotCanceled == canceling = {}
=============================================================================
