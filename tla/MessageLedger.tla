---------------------------- MODULE MessageLedger ----------------------------
(* What the queue of a session promises for each message of a user, whatever    *)
(* slots, locks, queues and records it is made of.  TurnQueue implements it.    *)
(*                                                                              *)
(*   unsent    not sent yet                                                     *)
(*   held      taken over, but only in memory: a stop, a failure or a crash may *)
(*             lose it                                                          *)
(*   promised  moved from the queue into a running turn: written to disk        *)
(*   recorded  in the history of the session, once and for ever                 *)
(*   lost      refused, removed, stopped or lost in a crash: never comes back   *)

CONSTANT Msg

VARIABLE status

LedgerStatus == {"unsent", "held", "promised", "recorded", "lost"}

LInit == status = [m \in Msg |-> "unsent"]

\* The messages of S get status t.
Put(S, t) == status' = [m \in Msg |-> IF m \in S THEN t ELSE status[m]]

\* The messages with one of the statuses T.
In(T) == {m \in Msg : status[m] \in T}

LSend    == \E m \in In({"unsent"}) : Put({m}, "held")
LPromise == \E m \in In({"held"}) : Put({m}, "promised")

\* A turn that ends records every message it was given on the way.
LRecord == \E S \in SUBSET In({"held", "promised"}) : Put(S, "recorded")

\* Only messages that were never promised can be lost.
LLose == \E S \in SUBSET In({"held"}) : Put(S, "lost")

LNext == LSend \/ LPromise \/ LRecord \/ LLose

LSpec == LInit /\ [][LNext]_status
==============================================================================
