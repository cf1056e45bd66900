------------------------------ MODULE Delivery ------------------------------
(***************************************************************************)
(* What the outbox promises of one message, without workers, claims, locks   *)
(* and clocks: it is delivered at least once to every endpoint that must     *)
(* have it, or given up after enough failed attempts, and what is settled    *)
(* stays so unless the message was taken back.                               *)
(***************************************************************************)
EXTENDS Naturals

CONSTANTS
  Messages,
  Endpoints,
  Must,     \* Must[m]: the endpoints that message m has to reach
  Attempts  \* failed deliveries before a message may be given up

VARIABLES
  unsent,   \* messages nobody has sent yet
  done,     \* messages that are delivered
  dead,     \* messages that are given up
  got,      \* got[m]: endpoints that acknowledged m
  missed,   \* missed[m]: deliveries of m that failed
  taken     \* messages that were taken back

deliveryVars == <<unsent, done, dead, got, missed, taken>>

Sent == Messages \ unsent
Unsettled == Sent \ (done \cup dead)

Init ==
  /\ unsent \subseteq Messages /\ done = {} /\ dead = {}
  /\ got = [m \in Messages |-> {}] /\ missed = [m \in Messages |-> 0]
  /\ taken = {}

Send(m) ==
  /\ m \in unsent /\ unsent' = unsent \ {m}
  /\ UNCHANGED <<done, dead, got, missed, taken>>

Reach(m, h) ==
  /\ got' = [got EXCEPT ![m] = @ \cup {h}]
  /\ UNCHANGED <<unsent, done, dead, missed, taken>>

Miss(m) ==
  /\ missed' = [missed EXCEPT ![m] = @ + 1]
  /\ UNCHANGED <<unsent, done, dead, got, taken>>

Deliver(m) ==
  /\ done' = done \cup {m} /\ dead' = dead \ {m}
  /\ Must[m] \subseteq got[m]
  /\ UNCHANGED <<unsent, got, missed, taken>>

GiveUp(m) ==
  /\ dead' = dead \cup {m} /\ done' = done \ {m}
  /\ missed[m] >= Attempts
  /\ UNCHANGED <<unsent, got, missed, taken>>

\* back in the queue
Reopen(m) ==
  /\ done' = done \ {m} /\ dead' = dead \ {m}
  /\ UNCHANGED <<unsent, got, missed, taken>>

\* somebody calls the settlement of some messages in question
TakeBack(M) ==
  /\ taken' = taken \cup M
  /\ done' = done \ M /\ dead' = dead \ M
  /\ UNCHANGED <<unsent, got, missed>>

Next ==
  \/ \E m \in unsent : Send(m)
  \/ \E m \in Sent : Miss(m) \/ \E h \in Endpoints : Reach(m, h)
  \/ \E m \in Unsettled \cup (Sent \cap taken) : Deliver(m) \/ GiveUp(m) \/ Reopen(m)
  \/ \E M \in SUBSET Sent : TakeBack(M)

Spec == Init /\ [][Next]_deliveryVars
=============================================================================
