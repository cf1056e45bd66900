------------------------------ MODULE Assets ------------------------------
(***************************************************************************)
(* The assets of a tenant, their categories and their allocations           *)
(* (kabipay-assets/src/services/asset_service.rs).  Every operation is a    *)
(* transaction that takes its row locks one after the other, then checks    *)
(* what it locked and counts what it did not lock, then writes and commits. *)
(***************************************************************************)
EXTENDS Naturals, FiniteSets, Sequences, SequencesExt

CONSTANTS
  AssetIds, CategoryIds, AllocationIds, AssetHolders,
  Jobs,      \* transactions in flight
  NoId

\* a lock is on a row, and no row is in two tables
ASSUME AssetsAssumption ==
  /\ NoId \notin AssetIds \cup CategoryIds \cup AllocationIds \cup AssetHolders
  /\ AssetIds \cap (CategoryIds \cup AllocationIds \cup AssetHolders) = {}
  /\ CategoryIds \cap (AllocationIds \cup AssetHolders) = {} /\ AllocationIds \cap AssetHolders = {}

VARIABLES
  asset,       \* the asset rows
  assetCategory, \* the asset_category rows
  allocation,  \* the asset_allocation rows, with how many return logs each has
  atWork,      \* the employees that are ACTIVE
  job          \* per transaction: the operation, its arguments, the locks it holds

asVars == <<asset, assetCategory, allocation, atWork, job>>

NoAsset == [status |-> "NONE", category |-> NoId]
NoAllocation == [status |-> "NONE", asset |-> NoId, employee |-> NoId, logs |-> 0]
NoJob == [op |-> "idle", asset |-> NoId, category |-> NoId, allocation |-> NoId,
          employee |-> NoId, locks |-> 0, clear |-> FALSE]
Ops == {"create", "save", "retireAsset", "retireCategory", "assign", "return"}

AsTypeOK ==
  /\ asset \in [AssetIds -> [status : {"NONE", "AVAILABLE", "ASSIGNED", "RETIRED"},
                             category : CategoryIds \cup {NoId}]]
  /\ assetCategory \in [CategoryIds -> {"ACTIVE", "RETIRED"}]
  /\ allocation \in [AllocationIds -> [status : {"NONE", "ACTIVE", "RETURNED"},
                       asset : AssetIds \cup {NoId}, employee : AssetHolders \cup {NoId}, logs : Nat]]
  /\ atWork \in SUBSET AssetHolders
  /\ job \in [Jobs -> [op : Ops \cup {"idle"}, asset : AssetIds \cup {NoId},
                       category : CategoryIds \cup {NoId}, allocation : AllocationIds \cup {NoId},
                       employee : AssetHolders \cup {NoId}, locks : 0..2, clear : BOOLEAN]]

AsInit ==
  /\ asset = [a \in AssetIds |-> NoAsset] /\ assetCategory = [c \in CategoryIds |-> "ACTIVE"]
  /\ allocation = [l \in AllocationIds |-> NoAllocation] /\ atWork = AssetHolders
  /\ job = [t \in Jobs |-> NoJob]

-----------------------------------------------------------------------------
(* Locks *)

\* the rows an operation locks, in its order; the category before the asset
LockOrder(j) ==
  CASE j.op \in {"create", "retireCategory"} -> <<j.category>>
    [] j.op = "save" -> <<j.category, j.asset>>
    [] j.op = "retireAsset" -> <<j.asset>>
    [] j.op = "assign" -> <<j.asset, j.employee>>
    [] j.op = "return" -> <<j.allocation, allocation[j.allocation].asset>>
    [] OTHER -> <<>>

\* bug: retiring an asset locks its category too, after the asset
LockAssetFirst(j) ==
  CASE j.op \in {"create", "retireCategory"} -> <<j.category>>
    [] j.op = "save" -> <<j.category, j.asset>>
    [] j.op = "retireAsset" -> <<j.asset, asset[j.asset].category>>
    [] j.op = "assign" -> <<j.asset, j.employee>>
    [] j.op = "return" -> <<j.allocation, allocation[j.allocation].asset>>
    [] OTHER -> <<>>

LocksOf(j) == LockOrder(j)
JobHolds(t) == Range(SubSeq(LocksOf(job[t]), 1, job[t].locks))
AllLocked(t) == job[t].locks = Len(LocksOf(job[t]))

\* the lock on an employee is shared among transactions
GrantsLock(t, row) == row \in AssetHolders \/ \A u \in Jobs \ {t} : row \notin JobHolds(u)

TakeLock(t) ==
  /\ job[t].op # "idle" /\ ~AllLocked(t)
  /\ GrantsLock(t, LocksOf(job[t])[job[t].locks + 1])
  /\ job' = [job EXCEPT ![t].locks = @ + 1]
  /\ UNCHANGED <<asset, assetCategory, allocation, atWork>>

-----------------------------------------------------------------------------
(* What the transactions check *)

ActiveAllocations(a) == {l \in AllocationIds : allocation[l].asset = a /\ allocation[l].status = "ACTIVE"}
InUse(c) == {a \in AssetIds : asset[a].category = c /\ asset[a].status \in {"AVAILABLE", "ASSIGNED"}}

Passes(j) ==
  CASE j.op = "create" -> assetCategory[j.category] = "ACTIVE"
    [] j.op = "save" -> assetCategory[j.category] = "ACTIVE" /\ asset[j.asset].status = "AVAILABLE"
    [] j.op = "retireAsset" -> asset[j.asset].status = "AVAILABLE" /\ ActiveAllocations(j.asset) = {}
    [] j.op = "retireCategory" -> assetCategory[j.category] = "ACTIVE" /\ InUse(j.category) = {}
    [] j.op = "assign" -> asset[j.asset].status = "AVAILABLE" /\ j.employee \in atWork
    [] j.op = "return" -> allocation[j.allocation].status = "ACTIVE"
    [] OTHER -> FALSE

\* bug: an asset is saved in whatever category was chosen
PassesWithoutCategory(j) ==
  CASE j.op = "create" -> TRUE
    [] j.op = "save" -> asset[j.asset].status = "AVAILABLE"
    [] j.op = "retireAsset" -> asset[j.asset].status = "AVAILABLE" /\ ActiveAllocations(j.asset) = {}
    [] j.op = "retireCategory" -> assetCategory[j.category] = "ACTIVE" /\ InUse(j.category) = {}
    [] j.op = "assign" -> asset[j.asset].status = "AVAILABLE" /\ j.employee \in atWork
    [] j.op = "return" -> allocation[j.allocation].status = "ACTIVE"
    [] OTHER -> FALSE

JobChecks(j) == Passes(j)

CheckJob(t) ==
  /\ job[t].op # "idle" /\ AllLocked(t) /\ ~job[t].clear
  /\ job' = IF JobChecks(job[t]) THEN [job EXCEPT ![t].clear = TRUE] ELSE [job EXCEPT ![t] = NoJob]
  /\ UNCHANGED <<asset, assetCategory, allocation, atWork>>

-----------------------------------------------------------------------------
(* Operations *)

BeginJob(t, j) ==
  /\ job[t].op = "idle" /\ job' = [job EXCEPT ![t] = j]
  /\ UNCHANGED <<asset, assetCategory, allocation, atWork>>

RequestedJob(op) == [NoJob EXCEPT !.op = op]

\* the rows a request names exist
BeginAnyJob(t) ==
  \/ \E a \in AssetIds, c \in CategoryIds :
       BeginJob(t, [RequestedJob(IF asset[a].status = "NONE" THEN "create" ELSE "save")
                   EXCEPT !.asset = a, !.category = c])
  \/ \E a \in AssetIds : asset[a].status # "NONE" /\ BeginJob(t, [RequestedJob("retireAsset") EXCEPT !.asset = a])
  \/ \E c \in CategoryIds : BeginJob(t, [RequestedJob("retireCategory") EXCEPT !.category = c])
  \/ \E a \in AssetIds, s \in AssetHolders :
       asset[a].status # "NONE" /\ BeginJob(t, [RequestedJob("assign") EXCEPT !.asset = a, !.employee = s])
  \/ \E l \in AllocationIds :
       allocation[l].status # "NONE" /\ BeginJob(t, [RequestedJob("return") EXCEPT !.allocation = l])

CommitsJob(t, op) == job[t].op = op /\ job[t].clear /\ job' = [job EXCEPT ![t] = NoJob]

CommitCreateAsset(t) ==
  /\ CommitsJob(t, "create") /\ asset[job[t].asset].status = "NONE"
  /\ asset' = [asset EXCEPT ![job[t].asset] = [status |-> "AVAILABLE", category |-> job[t].category]]
  /\ UNCHANGED <<assetCategory, allocation, atWork>>

CommitSave(t) ==
  /\ CommitsJob(t, "save")
  /\ asset' = [asset EXCEPT ![job[t].asset].category = job[t].category]
  /\ UNCHANGED <<assetCategory, allocation, atWork>>

CommitRetireAsset(t) ==
  /\ CommitsJob(t, "retireAsset")
  /\ asset' = [asset EXCEPT ![job[t].asset].status = "RETIRED"]
  /\ UNCHANGED <<assetCategory, allocation, atWork>>

CommitRetireCategory(t) ==
  /\ CommitsJob(t, "retireCategory")
  /\ assetCategory' = [assetCategory EXCEPT ![job[t].category] = "RETIRED"]
  /\ UNCHANGED <<asset, allocation, atWork>>

CommitAssign(t, l) ==
  /\ CommitsJob(t, "assign") /\ allocation[l].status = "NONE"
  /\ allocation' = [allocation EXCEPT ![l] =
       [status |-> "ACTIVE", asset |-> job[t].asset, employee |-> job[t].employee, logs |-> 0]]
  /\ asset' = [asset EXCEPT ![job[t].asset].status = "ASSIGNED"]
  /\ UNCHANGED <<assetCategory, atWork>>

CommitReturn(t) ==
  LET l == job[t].allocation IN
  /\ CommitsJob(t, "return")
  /\ allocation' = [allocation EXCEPT ![l].status = "RETURNED", ![l].logs = @ + 1]
  /\ asset' = [asset EXCEPT ![allocation[l].asset].status = "AVAILABLE"]
  /\ UNCHANGED <<assetCategory, atWork>>

\* a crash, an error, or a row that cannot be inserted: the transaction is rolled back
RollbackJob(t) ==
  /\ job[t].op # "idle" /\ job' = [job EXCEPT ![t] = NoJob]
  /\ UNCHANGED <<asset, assetCategory, allocation, atWork>>

\* the employee service writes the row, which waits for the shared locks
HolderLeaves(s) ==
  /\ s \in atWork /\ \A t \in Jobs : s \notin JobHolds(t)
  /\ atWork' = atWork \ {s}
  /\ UNCHANGED <<asset, assetCategory, allocation, job>>

CommitJob(t) ==
  \/ CommitCreateAsset(t) \/ CommitSave(t) \/ CommitRetireAsset(t) \/ CommitRetireCategory(t)
  \/ CommitReturn(t) \/ \E l \in AllocationIds : CommitAssign(t, l)

AsNext ==
  \/ \E t \in Jobs : BeginAnyJob(t) \/ TakeLock(t) \/ CheckJob(t) \/ CommitJob(t) \/ RollbackJob(t)
  \/ \E s \in AssetHolders : HolderLeaves(s)

\* the database queues whoever waits for a lock, and a transaction that has its locks goes
\* on; nothing makes a transaction that waits give up
EndJob(t) == job[t].clear /\ (CommitJob(t) \/ RollbackJob(t))
AsFairness ==
  \A t \in Jobs : SF_asVars(TakeLock(t)) /\ WF_asVars(CheckJob(t)) /\ WF_asVars(EndJob(t))

AsSpec == AsInit /\ [][AsNext]_asVars /\ AsFairness

-----------------------------------------------------------------------------
(* Properties *)

\* An asset is ASSIGNED exactly while one allocation of it is active, and no asset in use is
\* in a retired category, although nothing locks an asset against its category's
\* retirement; an allocation has one return log exactly when it was returned.
AssetsAgree ==
  /\ AsTypeOK
  /\ \A a \in AssetIds :
       /\ Cardinality(ActiveAllocations(a)) = IF asset[a].status = "ASSIGNED" THEN 1 ELSE 0
       /\ asset[a].status \in {"AVAILABLE", "ASSIGNED"} => assetCategory[asset[a].category] = "ACTIVE"
  /\ \A l \in AllocationIds : allocation[l].logs = IF allocation[l].status = "RETURNED" THEN 1 ELSE 0

\* The orders in which the operations lock their rows never deadlock: every transaction
\* that has begun ends.
JobsFinish == \A t \in Jobs : job[t].op # "idle" ~> job[t].op = "idle"
=============================================================================
