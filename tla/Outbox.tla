------------------------------- MODULE Outbox -------------------------------
(***************************************************************************)
(* The transactional outbox of one tenant: rows of outbox_event written by *)
(* the business services, claimed and delivered by kabipay-outbox-worker   *)
(* processes, and put back by HR (requeue_outbox_event).                   *)
(*                                                                         *)
(* Every database transaction or autocommitted statement is one action;    *)
(* every POST is one action.  Ticks of Tick make a claim stale.  Variables *)
(* named in historyVars are not in the program: they record what happened  *)
(* so that properties can speak of it.                                     *)
(***************************************************************************)
EXTENDS Integers, FiniteSets

CONSTANTS
  Events,        \* outbox rows; their order is the order of created_at
  Workers,       \* worker processes polling this tenant
  NSubs,         \* webhook subscriptions 1..NSubs, in order of created_at
  GlobalHook,    \* is OUTBOX_WEBHOOK_URL set?
  AlwaysOn,      \* subscriptions that stay active throughout
  Filter,        \* Filter[s]: the events whose type subscription s matches
  Known,         \* events whose aggregate type outbox_aggregates() can name
  Entitled,      \* known events whose module stays entitled throughout
  Legacy,        \* rows PROCESSING with claimed_at NULL since before 0034
  Cap,           \* OUTBOX_MAX_RETRIES
  PostTicks,     \* HTTP client timeout, in ticks
  StaleTicks,    \* OUTBOX_STALE_PROCESSING_SEC, in ticks
  MaxFailures,   \* bound: failed deliveries per event
  MaxAbandons,   \* bound: crashes and aborted sweeps
  MaxRequeues,   \* bound: manual requeues
  NoWorker       \* the holder of an unlocked row

Subs == 1..NSubs
Global == NSubs + 1
Hooks == 1..(NSubs + 1)

ASSUME OutboxAssumption ==
  /\ Events \subseteq Nat /\ Events # {}
  /\ NSubs \in Nat /\ GlobalHook \in BOOLEAN
  /\ AlwaysOn \subseteq Subs
  /\ Filter \in [Subs -> SUBSET Events]
  /\ Known \subseteq Events /\ Entitled \subseteq Known /\ Legacy \subseteq Events
  /\ Cap \in Nat \ {0} /\ PostTicks \in Nat /\ StaleTicks \in Nat
  /\ MaxFailures \in Nat /\ MaxAbandons \in Nat /\ MaxRequeues \in Nat
  /\ NoWorker \notin Workers

VARIABLES
  status,      \* outbox_event.status; NONE before the producer commits
  retry,       \* outbox_event.retry_count
  claimAge,    \* ticks since claimed_at, saturating
  rowLock,     \* the worker whose claim transaction holds FOR UPDATE
  active,      \* subscriptions with is_active
  available,   \* events whose aggregate type the tenant is entitled to
  pc,          \* where each worker is in its sweep
  allowed,     \* the entitlements the worker loaded before this claim
  ev,          \* the row the worker picked
  prevRetry,   \* its retry_count when it was claimed
  todo,        \* endpoints the delivery has still to POST to
  spent,       \* ticks the current POST has taken
  requeue,     \* rows that passed the status check of requeue_outbox_event
  abandons, requeues,
  failures,    \* history: failed deliveries of each event
  acked,       \* history: endpoints that answered 2xx
  reset        \* history: rows ever taken back by a reclaim or by HR

rowVars     == <<status, retry, claimAge, rowLock>>
configVars  == <<active, available>>
workerVars  == <<pc, allowed, ev, prevRetry, todo, spent>>
hrVars      == <<requeue, requeues>>
historyVars == <<failures, acked, reset>>
vars == <<rowVars, configVars, workerVars, hrVars, abandons, historyVars>>

Status == {"NONE", "PENDING", "PROCESSING", "PROCESSED", "FAILED"}
Delivering == {"subs", "post", "okRead", "okWrite", "failRead", "failWrite"}
PC == Delivering \cup {"idle", "load", "claim", "commit"}

AnyEvent == CHOOSE e \in Events : TRUE

Holds(w, e) == pc[w] \in Delivering /\ ev[w] = e
MaxAge == StaleTicks + 1

TypeOK ==
  /\ status \in [Events -> Status]
  /\ retry \in [Events -> Nat]
  /\ claimAge \in [Events -> 0..MaxAge]
  /\ rowLock \in [Events -> Workers \cup {NoWorker}]
  /\ active \in SUBSET Subs /\ available \in SUBSET Known
  /\ pc \in [Workers -> PC]
  /\ allowed \in [Workers -> SUBSET Known]
  /\ ev \in [Workers -> Events]
  /\ prevRetry \in [Workers -> Nat]
  /\ todo \in [Workers -> SUBSET Hooks]
  /\ spent \in [Workers -> Nat]
  /\ requeue \in SUBSET Events
  /\ requeues \in Nat /\ abandons \in Nat
  /\ failures \in [Events -> Nat]
  /\ acked \in [Events -> SUBSET Hooks]
  /\ reset \in SUBSET Events

Init ==
  /\ status = [e \in Events |-> IF e \in Legacy THEN "PROCESSING" ELSE "NONE"]
  /\ retry = [e \in Events |-> 0]
  /\ claimAge = [e \in Events |-> IF e \in Legacy THEN MaxAge ELSE 0]
  /\ rowLock = [e \in Events |-> NoWorker]
  /\ active = AlwaysOn /\ available = Known
  /\ pc = [w \in Workers |-> "idle"]
  /\ allowed = [w \in Workers |-> {}]
  /\ ev = [w \in Workers |-> AnyEvent]
  /\ prevRetry = [w \in Workers |-> 0]
  /\ todo = [w \in Workers |-> {}]
  /\ spent = [w \in Workers |-> 0]
  /\ requeue = {} /\ requeues = 0 /\ abandons = 0
  /\ failures = [e \in Events |-> 0]
  /\ acked = [e \in Events |-> {}]
  /\ reset = {}

-----------------------------------------------------------------------------
(* Producers and configuration *)

\* A business transaction commits with its event.  created_at is taken before
\* the commit, so rows may become visible in another order than Events'.
Publish(e) ==
  /\ status[e] = "NONE"
  /\ status' = [status EXCEPT ![e] = "PENDING"]
  /\ UNCHANGED <<retry, claimAge, rowLock, configVars, workerVars, hrVars,
                 abandons, historyVars>>

\* register_webhook_subscription and set_webhook_subscription_active
SetSubscription(s) ==
  /\ s \notin AlwaysOn
  /\ active' = IF s \in active THEN active \ {s} ELSE active \cup {s}
  /\ UNCHANGED <<rowVars, available, workerVars, hrVars, abandons, historyVars>>

\* The control plane sells or suspends a module: its events come and go.
SetEntitlement(e) ==
  /\ e \in Known \ Entitled
  /\ available' = IF e \in available THEN available \ {e}
                                     ELSE available \cup {e}
  /\ UNCHANGED <<rowVars, active, workerVars, hrVars, abandons, historyVars>>

-----------------------------------------------------------------------------
(* One worker's sweep of the tenant: process_tenant_outbox *)

\* bug: stale claims are never taken back
NeverStale(e) == FALSE

Stale(e) == status[e] = "PROCESSING" /\ claimAge[e] > StaleTicks

\* reclaim_stale_processing: one UPDATE over every stale claim
BeginSweep(w) ==
  /\ pc[w] = "idle"
  /\ status' = [e \in Events |-> IF Stale(e) THEN "PENDING" ELSE status[e]]
  /\ claimAge' = [e \in Events |-> IF Stale(e) THEN 0 ELSE claimAge[e]]
  /\ reset' = reset \cup {e \in Events : Stale(e)}
  /\ pc' = [pc EXCEPT ![w] = "load"]
  /\ UNCHANGED <<retry, rowLock, configVars, allowed, ev, prevRetry, todo,
                 spent, hrVars, abandons, failures, acked>>

\* Entitlements::load, repeated before every claim
LoadEntitlements(w) ==
  /\ pc[w] = "load"
  /\ allowed' = [allowed EXCEPT ![w] = available]
  /\ pc' = [pc EXCEPT ![w] = "claim"]
  /\ UNCHANGED <<rowVars, configVars, ev, prevRetry, todo, spent, hrVars,
                 abandons, historyVars>>

\* bug: the pick does not lock
ClaimableUnlocked(w) == {e \in allowed[w] : status[e] = "PENDING"}

Claimable(w) == {e \in allowed[w] : status[e] = "PENDING" /\ rowLock[e] = NoWorker}

\* SELECT ... FOR UPDATE SKIP LOCKED LIMIT 1, oldest first
ClaimPick(w) ==
  /\ pc[w] = "claim"
  /\ \E e \in Claimable(w) :
       /\ \A f \in Claimable(w) : e <= f
       /\ rowLock' = [rowLock EXCEPT ![e] = w]
       /\ ev' = [ev EXCEPT ![w] = e]
  /\ pc' = [pc EXCEPT ![w] = "commit"]
  /\ UNCHANGED <<status, retry, claimAge, configVars, allowed, prevRetry, todo,
                 spent, hrVars, abandons, historyVars>>

\* Nothing to claim: the sweep ends and the worker sleeps
ClaimNone(w) ==
  /\ pc[w] = "claim" /\ Claimable(w) = {}
  /\ pc' = [pc EXCEPT ![w] = "idle"]
  /\ UNCHANGED <<rowVars, configVars, allowed, ev, prevRetry, todo, spent,
                 hrVars, abandons, historyVars>>

\* The claim transaction stores PROCESSING and commits
ClaimCommit(w) ==
  /\ pc[w] = "commit"
  /\ status' = [status EXCEPT ![ev[w]] = "PROCESSING"]
  /\ claimAge' = [claimAge EXCEPT ![ev[w]] = 0]
  /\ rowLock' = [rowLock EXCEPT ![ev[w]] = NoWorker]
  /\ prevRetry' = [prevRetry EXCEPT ![w] = retry[ev[w]]]
  /\ pc' = [pc EXCEPT ![w] = "subs"]
  /\ UNCHANGED <<retry, configVars, allowed, ev, todo, spent, hrVars, abandons,
                 historyVars>>

Targets(e) == {s \in active : e \in Filter[s]}
                \cup (IF GlobalHook THEN {Global} ELSE {})

\* deliver_event lists the active subscriptions once, before the first POST
LoadSubs(w) ==
  /\ pc[w] = "subs"
  /\ todo' = [todo EXCEPT ![w] = Targets(ev[w])]
  /\ spent' = [spent EXCEPT ![w] = 0]
  /\ pc' = [pc EXCEPT ![w] = IF Targets(ev[w]) = {} THEN "okRead" ELSE "post"]
  /\ UNCHANGED <<rowVars, configVars, allowed, ev, prevRetry, hrVars, abandons,
                 historyVars>>

\* The endpoint answers 2xx in time; the delivery goes on with the next one
PostAcked(w) ==
  /\ pc[w] = "post"
  /\ \E s \in todo[w] :
       /\ \A t \in todo[w] : s <= t
       /\ acked' = [acked EXCEPT ![ev[w]] = @ \cup {s}]
       /\ todo' = [todo EXCEPT ![w] = @ \ {s}]
       /\ pc' = [pc EXCEPT ![w] = IF todo[w] = {s} THEN "okRead" ELSE "post"]
  /\ spent' = [spent EXCEPT ![w] = 0]
  /\ UNCHANGED <<rowVars, configVars, allowed, ev, prevRetry, hrVars, abandons,
                 failures, reset>>

\* bug: a delivery that failed is marked as if it had succeeded
DeliveryFailsSilently(w) ==
  /\ pc[w] \in {"subs", "post"}
  /\ pc' = [pc EXCEPT ![w] = "okRead"]
  /\ todo' = [todo EXCEPT ![w] = {}]
  /\ UNCHANGED <<rowVars, configVars, allowed, ev, prevRetry, spent, hrVars,
                 abandons, historyVars>>

\* The list query fails, or a POST fails, times out or is refused: the endpoints
\* after it are not tried
DeliveryFails(w) ==
  /\ pc[w] \in {"subs", "post"}
  /\ failures[ev[w]] < MaxFailures
  /\ failures' = [failures EXCEPT ![ev[w]] = @ + 1]
  /\ todo' = [todo EXCEPT ![w] = {}]
  /\ spent' = [spent EXCEPT ![w] = 0]
  /\ pc' = [pc EXCEPT ![w] = "failRead"]
  /\ UNCHANGED <<rowVars, configVars, allowed, ev, prevRetry, hrVars, abandons,
                 acked, reset>>

\* the claimed row goes out of the worker's scope
Forget(w) ==
  /\ ev' = [ev EXCEPT ![w] = AnyEvent]
  /\ prevRetry' = [prevRetry EXCEPT ![w] = 0]

\* mark_processed and mark_failure first read the row, without a lock ...
MarkRead(w) ==
  /\ pc[w] \in {"okRead", "failRead"}
  /\ IF status[ev[w]] = "PROCESSING"
       THEN /\ pc' = [pc EXCEPT ![w] = IF @ = "okRead" THEN "okWrite" ELSE "failWrite"]
            /\ UNCHANGED <<ev, prevRetry>>
       ELSE pc' = [pc EXCEPT ![w] = "load"] /\ Forget(w)
  /\ UNCHANGED <<rowVars, configVars, allowed, todo, spent, hrVars, abandons,
                 historyVars>>

\* ... and then UPDATE it by id, whatever its status is by then.
MarkProcessed(w) ==
  /\ pc[w] = "okWrite" /\ rowLock[ev[w]] = NoWorker
  /\ status' = [status EXCEPT ![ev[w]] = "PROCESSED"]
  /\ claimAge' = [claimAge EXCEPT ![ev[w]] = 0]
  /\ pc' = [pc EXCEPT ![w] = "load"] /\ Forget(w)
  /\ UNCHANGED <<retry, rowLock, configVars, allowed, todo, spent, hrVars,
                 abandons, historyVars>>

\* bug: a status that no other code knows
AfterFailureUnknown(w) == IF prevRetry[w] + 1 >= Cap THEN "DEAD" ELSE "PENDING"

\* bug: the cap is compared one attempt early
AfterFailureEarly(w) == IF prevRetry[w] + 2 >= Cap THEN "FAILED" ELSE "PENDING"

AfterFailure(w) == IF prevRetry[w] + 1 >= Cap THEN "FAILED" ELSE "PENDING"

MarkFailure(w) ==
  /\ pc[w] = "failWrite" /\ rowLock[ev[w]] = NoWorker
  /\ retry' = [retry EXCEPT ![ev[w]] = prevRetry[w] + 1]
  /\ status' = [status EXCEPT ![ev[w]] = AfterFailure(w)]
  /\ claimAge' = [claimAge EXCEPT ![ev[w]] = 0]
  /\ pc' = [pc EXCEPT ![w] = "load"] /\ Forget(w)
  /\ UNCHANGED <<rowLock, configVars, allowed, todo, spent, hrVars, abandons,
                 historyVars>>

\* The process dies, or an error other than a failed delivery ends the sweep:
\* an open claim transaction rolls back, a committed claim stays PROCESSING.
Abandon(w) ==
  /\ pc[w] # "idle" /\ abandons < MaxAbandons
  /\ abandons' = abandons + 1
  /\ rowLock' = [e \in Events |-> IF rowLock[e] = w THEN NoWorker ELSE rowLock[e]]
  /\ pc' = [pc EXCEPT ![w] = "idle"]
  /\ todo' = [todo EXCEPT ![w] = {}]
  /\ spent' = [spent EXCEPT ![w] = 0]
  /\ Forget(w)
  /\ UNCHANGED <<status, retry, claimAge, configVars, allowed, hrVars,
                 historyVars>>

-----------------------------------------------------------------------------
(* HR: requeue_outbox_event, an unlocked check and a later UPDATE by id *)

RequeueRead(e) ==
  /\ status[e] \in {"FAILED", "PROCESSING"}
  /\ e \notin requeue /\ requeues < MaxRequeues
  /\ requeue' = requeue \cup {e} /\ requeues' = requeues + 1
  /\ UNCHANGED <<rowVars, configVars, workerVars, abandons, historyVars>>

RequeueWrite(e) ==
  /\ e \in requeue /\ rowLock[e] = NoWorker
  /\ status' = [status EXCEPT ![e] = "PENDING"]
  /\ claimAge' = [claimAge EXCEPT ![e] = 0]
  /\ requeue' = requeue \ {e}
  /\ reset' = reset \cup {e}
  /\ UNCHANGED <<retry, rowLock, configVars, workerVars, requeues, abandons,
                 failures, acked>>

-----------------------------------------------------------------------------
\* Time passes: claims age, and a POST runs into its timeout at PostTicks.
Tick ==
  /\ \A w \in Workers : pc[w] = "post" => spent[w] < PostTicks
  /\ claimAge' = [e \in Events |->
       IF status[e] = "PROCESSING" /\ claimAge[e] < MaxAge
       THEN claimAge[e] + 1 ELSE claimAge[e]]
  /\ spent' = [w \in Workers |-> IF pc[w] = "post" THEN spent[w] + 1 ELSE spent[w]]
  /\ UNCHANGED <<status, retry, rowLock, configVars, pc, allowed, ev, prevRetry,
                 todo, hrVars, abandons, failures, acked, reset>>

WorkerStep(w) ==
  \/ BeginSweep(w) \/ LoadEntitlements(w)
  \/ ClaimPick(w) \/ ClaimNone(w) \/ ClaimCommit(w)
  \/ LoadSubs(w) \/ PostAcked(w) \/ DeliveryFails(w)
  \/ MarkRead(w) \/ MarkProcessed(w) \/ MarkFailure(w)

Next ==
  \/ \E e \in Events : Publish(e) \/ SetEntitlement(e)
  \/ \E s \in Subs : SetSubscription(s)
  \/ \E w \in Workers : WorkerStep(w) \/ Abandon(w)
  \/ \E e \in Events : RequeueRead(e) \/ RequeueWrite(e)
  \/ Tick

Spec == Init /\ [][Next]_vars

\* The worker loops for ever, a POST ends by its timeout at the latest, a
\* requeue call runs to its end, and time passes.
Fairness ==
  /\ \A w \in Workers : WF_vars(WorkerStep(w))
  /\ \A e \in Events : WF_vars(RequeueWrite(e))
  /\ WF_vars(Tick)

FairSpec == Spec /\ Fairness

-----------------------------------------------------------------------------
(* Properties *)

Required(e) == {s \in AlwaysOn : e \in Filter[s]}
                 \cup (IF GlobalHook THEN {Global} ELSE {})

\* mark_processed runs only after a whole delivery: a PROCESSED row was answered
\* 2xx by the global hook and by every matching subscription that was active all
\* along, whatever reclaims, crashes and racing marks happened on the way.
AckedBeforeProcessed ==
  \A e \in Events : status[e] = "PROCESSED" => Required(e) \subseteq acked[e]

\* mark_failure counts from the retry_count of the claim: no interleaving of
\* stale marks makes retry_count exceed the deliveries that really failed, so a
\* row is given up only after OUTBOX_MAX_RETRIES failed deliveries.
GivenUpAfterCap ==
  \A e \in Events : /\ retry[e] <= failures[e]
                    /\ status[e] = "FAILED" => failures[e] >= Cap

\* FOR UPDATE SKIP LOCKED: two workers deliver the same row at the same time
\* only if a reclaim or a manual requeue took it from the first of them.
SoleDeliverer ==
  \A v, w \in Workers : \A e \in Events :
    v # w /\ Holds(v, e) /\ Holds(w, e) => e \in reset

\* mark_processed, mark_failure and requeue_outbox_event all write by id after an
\* unlocked read: a delivered row is reopened only if a reclaim or a requeue
\* reached it while it was in delivery.
ProcessedUnlessRaced ==
  [][\A e \in Events : status[e] = "PROCESSED" /\ e \notin reset \cup requeue
        => status'[e] = "PROCESSED"]_vars

Promise == INSTANCE Delivery WITH
  Messages <- Events, Endpoints <- Hooks, Must <- [e \in Events |-> Required(e)],
  Attempts <- Cap, got <- acked, missed <- failures, taken <- reset,
  unsent <- {e \in Events : status[e] = "NONE"},
  done <- {e \in Events : status[e] = "PROCESSED"},
  dead <- {e \in Events : status[e] = "FAILED"}

\* The sweeps, claims and marks of the workers and the requeues of HR implement the
\* delivery of messages: at least once, and given up only after the cap.
DeliversAtLeastOnce == Promise!Spec

\* What the caller of requeue_outbox_event is told ("only FAILED or PROCESSING
\* outbox events can be requeued"): a PROCESSED row is never sent again.
ProcessedIsFinal ==
  [][\A e \in Events : status[e] = "PROCESSED" => status'[e] = "PROCESSED"]_vars

\* The queue drains: an event of a module the tenant keeps is delivered or given
\* up, in spite of crashed deliveries (reclaimed once stale) and manual requeues.
EventuallySettled ==
  \A e \in Entitled : status[e] # "NONE" ~> status[e] \in {"PROCESSED", "FAILED"}

=============================================================================
